# TLA+ models of practice-chat-app

This directory holds TLA+ models of the two chat servers of this repository (TCP,
`tcp/`, and UDP, `udp/`), of their clients and of their metrics, the TLC runs that
check them on small instances, and proofs, checked by TLAPS, of theorems about
them for every value of their constants.

## The system

| Part | State | Operations | Source |
|---|---|---|---|
| TCP server lifecycle | listener, context, process | accept, signal, shutdown, exit | `tcp/server/server.go`, `tcp/main.go` |
| TCP connection handler | `clients` map (connection to nickname) under `clientsMutex`; per connection a handler goroutine, a heartbeat goroutine, a `done` channel, read and write deadlines | name, register, read, broadcast, ping, closeConnection, deferred cleanup | `tcp/server/handler.go` |
| TCP metrics | atomic counters | connected, disconnected, ... | `tcp/metrics/metrics.go` |
| UDP server lifecycle | socket, context, process | receive loop, heartbeat ticker, signal, shutdown, exit | `udp/server/server.go`, `udp/main.go` |
| UDP packet handler | `clients` map (address to `*Client`) under `clientsMutex`; `Client` structs whose fields are used outside it; removal timers; ID counter | handlePacket and its branches, HandleClientDisconnect, broadcasts, counts | `udp/server/handler.go` |
| UDP codec | none | createMessagePacket, header parsing | `udp/server/handler.go` |
| UDP metrics | atomic counters | as TCP | `udp/metrics/metrics.go` |
| TCP client | connection, error channel, context | connect with retry, read, write, signal | `tcp/client/client.go` |
| UDP client | socket, error and display channels, context | as TCP, and heartbeat | `udp/client/client.go` |
| Stress tools | client contexts, wait group, statistics | start, drop, reconnect, finish | `*/tools/stress_test.go` |
| Text helpers | none | FormatName, IsCommand, ... | `shared/shared.go` |

**Interaction.** Clients and servers share nothing but sockets.  Within a
server, goroutines share the client table (a mutex), the context (cancelled
once), the metrics (atomics) and, in the UDP server, pointers to `Client`
structs.  Every TCP connection has two goroutines that may both declare it
dead.  The UDP server has one receiver, one heartbeat and any number of timer
goroutines; the table is the only thing they lock.

**What is hard.** In the TCP server: two goroutines per connection and a
deferred function all remove the same entry, in any order; broadcasts range
over the map for as long as their writes take; shutdown is a race.  In the
UDP server: `LastSeen` and `Connected` are read and acted on in separate
steps; timers outlive the departure that armed them; the table's entry for an
address may be replaced while others hold the old struct.  A write deadline
belongs to a connection and not to a write, and is written under a lock by
some and without by others.  The UDP client's goroutines share an error
channel smaller than their number.  `PROJECT.json`
lists each of these hazards at its line.

**What makes each part correct.**  TCP registry: an entry exactly for those
in the room, never left behind; the map still while ranged over; joins heard
before anything else of that client; departures announced; counters true;
dead peers found.  UDP table: disconnected entries always scheduled for
removal, silent clients timed out, notices and counters true.  Clients: they
end when told, leave when they say so, retry a bounded number of times.

## Modules

| Module | Models | Form |
|---|---|---|
| `TcpServer` | `tcp/server/*.go`, the active counter of `tcp/metrics` | state machine, properties |
| `MCTcpServer` | symmetry for TLC | instance |
| `ChatRoom` | what `TcpServer` promises the people in the room | abstract specification |
| `TcpServerProofs` | theorems about `TcpServer` | proofs |
| `TcpRoomProofs` | `TcpServer` implements `ChatRoom` | proofs, on top of `TcpServerProofs` |
| `TcpFarewellProofs` | whoever heard a join hears the departure | proofs, on top of `TcpRoomProofs` |
| `TcpWrites` | the writes of `tcp/server/handler.go` to one connection, their deadline, and the lock | state machine, properties |
| `TcpWritesProofs` | theorems about `TcpWrites` | proofs |
| `TcpSession` | `tcp/client/client.go`, with the deadlines of the server's side of the session | state machine, properties |
| `TcpSessionProofs` | theorems about `TcpSession` | proofs |
| `UdpServer` | `udp/server/*.go`, the active counter of `udp/metrics` | state machine, properties |
| `MCUdpServer` | symmetry for TLC | instance |
| `Presence` | what `UdpServer` promises each client about who is there | abstract specification |
| `UdpServerProofs` | theorems about `UdpServer` | proofs |
| `UdpClient` | `udp/client/client.go` | state machine, properties |
| `UdpClientProofs` | theorems about `UdpClient` | proofs |
| `Metrics` | the server metrics of `udp/metrics`, whose core `tcp/metrics` shares | state machine, properties |
| `MetricsProofs` | theorems about `Metrics` | proofs |

The modules are tied together by what each takes for granted.  `TcpServer`
implements `ChatRoom` (`Room == INSTANCE ChatRoom WITH ...`).  `TcpServer` lets
every write end and gives the lock to all who wait; `TcpWrites` says when that is
so (`LockComesFree`).  `TcpSession` takes the time the server's goroutines spend
on the lock as a constant, `MaxStall`.  `UdpClient` knows of the server only its
header check (`HeaderLen`), and that it answers what passes.  `TcpServer` and
`UdpServer` call the counters in one step; `Metrics` takes these calls apart.

### TcpServer

A step is what one goroutine does between two points where another can run: a
critical section, a read, a write.  `pc[c]` is where the handler of
connection `c` is and `beat[c]` its heartbeat; `clients` is the map;
`readers` and `writer` are `clientsMutex`; `todo[p]` is what is left of the
range that goroutine `p` is in; `inbox[r]` the chat lines written to `r`;
`active` the counter.

| Action | Code |
|---|---|
| `Accept`, `Cancel`, `Exit` | `Start`, `setupSignalHandler`, `main` |
| `NameReadFails`, `NameAccepted`, `NameRejected` | the naming loop of `handleConnection` |
| `Register`, `Welcome` | entering the map; the welcome line and `go func()` |
| `BroadcastStarts`, `BroadcastTo`, `BroadcastEnds` | `broadcastMessage`, for joins and chat lines |
| `LoopTop`, `ReadControl`, `ReadChat`, `ReadFails` | the message loop |
| `BeatStops`, `BeatTicks`, `BeatPings` | the heartbeat's select and ping |
| `HandlerDrops`/`Notifies`/`Dropped`, `BeatDrops`/`Notifies`/`Dropped` | `closeConnection`, from either goroutine |
| `CloseConn`, `Cleanup` | the deferred function |
| `PeerLeaves` | the remote end closes or is lost |

Abstracted: nicknames (one per connection, set once), message texts, bytes of
writes, the counters that only grow.  A connection is used once.  Lines are
kept as a set per peer, so chat needs no bound.  A write to a live peer fails
only if `SlowReaders` lets it meet its deadline, and always ends.

### ChatRoom

`ChatRoom` has people, a `status` for each, and lines of three kinds
(`joined`, `chat`, `left`), told to an audience that is fixed when the
telling starts.  It says: nobody comes or goes while anybody is being told
anything; everybody who comes in is announced once before they speak; every
departure is told to all who stay; only once the room is closing may people
slip away without a word.  It does not promise that one who was said to leave
is silent: that is the ghost of `TcpServer_ghostspeaker`.  The refinement
mapping of `TcpServer` is `RoomStatus` (from the registry and where handler
and heartbeat are), `StillToTell` (what is left of the ranges that write the
line), `inbox`, and the context for `open`.

### TcpWrites

One connection whose peer may stop reading, for a while or for good (`peer =
"stuck"`).  Written to it are: broadcasts of other handlers, under the read lock
and a deadline; leave notices of other handlers, under the write lock and no
deadline; pings, under a deadline and no lock; its own handler's answers, under
neither.  `readers`, `waiting` and `writer` are `clientsMutex` as `sync.RWMutex`
has it (no new reader past a writer who waits; the waiting readers are let in when
the writer leaves).  `wmu` is the write in progress, `deadline` the one deadline
they all share.  `crossed`, a history variable, holds the goroutines whose
deadline another has reset.

| Action | Code |
|---|---|
| `RLock`, `Ranges`, `Arm`, `WriteStarts`, `WriteEnds`, `Reset`, `RUnlock` | `broadcastMessage` |
| `RLock`, `PingerLooks`, `Arm`, ..., `Reset` | the heartbeat's ping |
| `OtherLeaves`, `Lock`, `LeaverLocked`, `WriteStarts`, `WriteEnds`, `Unlock` | `closeConnection` of another client |
| `HandlerGoesOn`, `Removes`, `HandlerCloses` | the recipient's handler: its own lines, `closeConnection` and the deferred function |
| `PeerChanges`, `Expires` | the peer, the clock |

What the model shows, put together: a recipient that never reads again can stop
the server for good while a leave notice, or a crossed broadcast, is being written
to it.  What could still end that write is another ping or broadcast that sets the
shared deadline again, but only one that is past the lock already: the write lock
of a leave notice keeps the others out, and so does any writer waiting for the
read lock of a crossed broadcast.  The recipient's own handler is such a writer:
when its read times out, its `closeConnection` waits for the lock, before the
deferred function could close the connection.  Nothing else holds the lock while
it waits for a peer without a deadline.

### TcpSession

One client process composed with its handler and heartbeat in the server.
Where `TcpServer` asks what the goroutines of a server do to their shared
state, `TcpSession` asks about time: the client's read deadline (30 s), the
server's (60 s), the pings (every 15 s), the time a line is under way, and
the time handler and heartbeat spend on the lock and on broadcasts.  Time
passes in `Tick`, in units of five seconds (the write deadline, so one unit
for each recipient that does not drain); `NothingDue` holds it back while a
step, deadline or arrival is due.  `main`, `reader` and `writer` are the
client's goroutines, `errs` its error channel; `handler` and `beat` the
server's; `down` and `up` what has been sent and not yet read, with its age;
`cidle` and `sidle` how long each side's read has waited.

What has arrived waits in its receiver's socket while the receiver is busy and is
read later, also when the link is gone by then.  `Cut` therefore chooses how much
of what was sent had arrived (a part that no younger line of it overtakes) and
loses only the rest.  Several chat lines may wait behind one another, each to be
broadcast before the next is read, and each then renews the read deadline; an
element of `up` stands for any number of them until the cut, and for at most
`MaxBacklog` lines after it, which `late`, a history variable, counts.  A side that
closes its socket loses what it had not read, and not what the other has not.

| Action | Code |
|---|---|
| `Prompted`, `Dials`, `DialFails`, `Retries` | `main`, `connectWithRetry` |
| `SendsName`, `Ends` | the rest of `main` |
| `Signalled` | the signal goroutine (`os.Exit` is `Ends`) |
| `Receives`, `Pongs`, `ReaderFails`, `ReaderReports` | `readFromServer` |
| `Types`, `WriterFails`, `WriterReports` | `writeToServer` |
| `NameArrives`, `Welcomes`, `PongArrives`, `LineArrives`, `BroadcastDone`, `HandlerFails` | `handleConnection` |
| `TickerFires`, `BeatWakes`, `BeatPings`, `BeatStops` | the heartbeat goroutine and its `time.Ticker` |
| `RoomSpeaks` | broadcasts of other handlers to this client |
| `ServerEnds` | the end of the server process |
| `Cut` | the link is lost without a word |

Abstracted: the other connections, of which only the waits they cause are
kept (`MaxStall`); what the lines say; full socket buffers; reconnection,
which the client does not do once it was connected.

### UdpServer

Structs have an identity (`Objs`): the receiver (`cur`), the sweep (`sweep`,
`target`) and the table (`clients`) point to them.  `rx` is where the receive
loop is; between its steps the sweep and the timers run, so each unlocked
read and the write that relies on it are separate steps.  `Tick` lets one
heartbeat period (15 s) pass: it ages `LastSeen`, moves every removal timer
one period on and starts a sweep.  Thus `Timeout = 4` is `ClientTimeout`
(60 s) and `Delay = 2` the removal delay (30 s).

| Action | Code |
|---|---|
| `ReceiveKnown`, `ReceiveNew`, `Touch` | `receiveLoop`, `getOrCreateClient`, `LastSeen = now` |
| `Ignore`, `Leave`, `Chat`, `Speak` | `handlePacket`, `handleChatMessage` |
| `NameResponse`, `SetName`, `Announce`, `Welcome` | `handleNameResponse` |
| `Disconnect` (in `Leave`, `SweepDrops`), `TimerFires` | `HandleClientDisconnect` and its timer |
| `Tick`, `SweepPings`, `SweepFinds`, `SweepDrops` | `sendHeartbeats` |
| `Notify`, `Exit` | `setupSignalHandler`, `notifyClientsOfShutdown` |
| `PeerGoes` | a client that will never send again |

Abstracted: IDs, sequence numbers and names (`named` says only whether one
was given), acks, pings and pongs, which change no state.  Handling a packet
or a sweep takes less than a period, and a due timer runs before the next
tick.  A packet may arrive at any time from any address, in any order and
any number of times, so loss, duplication and reordering are included.

The code looks at `Connected` and at the table in one step and acts on what it saw
in another, with no lock from one to the other.  `crossed` and `crossings`, history
variables, record where another goroutine came in between: a removal timer takes
the entry of the disconnected client whose packet is being handled
(`TimerCrosses`); the sweep disconnects the client that is being renamed or
announced, or disconnects a struct that the table no longer files (`DropCrosses`).
What such a crossing spoils is said below; the properties say that nothing else
does.

### Presence

`Presence` has people who are `present`, how long each of them has been `silent`
and what was last `told` of each.  `Step(p)` is the promise to one person: nobody
who is there comes in again; who comes is announced before anything else happens to
them; only who has just been heard of leaves, and only who has been silent for more
than `Limit` periods is given up; a period does not begin while they have been
silent for more than that; each going is told once.  `UdpServer` keeps this promise
to every client whose packets have met no crossing, under every interleaving
and whatever happens to the others (`ImplementsPresence`).  The refinement mapping
is `Members`, `Arriving` (the client that `SetName` has connected and `Announce`
has not yet announced), `Silence` (`LastSeen` of the members) and `notice`; the
table's other entries and the timers are not seen.

### UdpClient

`main` is where the main goroutine is, from the nickname to its return;
`attempt` the connect loop's counter and `open` the sockets dialled; `reader`,
`typist`, `beat` and `display` the goroutines; `errs` and `msgs` what is in their
channels; `signal` the signal goroutine, which cancels the context and then
ends the process at any later moment.  `answer` says that an answer to the probe is
on its way, which comes or is lost; `heard`, a history variable, that every probe so
far has reached a live server and no answer was lost; `gone` that the server has
gone away since the session began.

| Action | Code |
|---|---|
| `NicknameRead`, `Registers`, `SessionStarts`, `SessionFails`, `SessionCancelled`, `Leaves` | `main`, `sendRegistration` |
| `Probes`, `ProbeAnswered`, `AnswerLost`, `ProbeFails`, `DialFails`, `AttemptFailed`, `Retry`, `AttemptCancelled`, `RetryCancelled` | `connectWithRetry` |
| `ReaderTop`, `ReaderTurns`, `ReaderGetsLine`, `ReaderFails`, `ReaderReports` | `readFromServer` |
| `TypistTop`, `EmptyLine`, `LineTyped`, `TypistStops`, `TypistReports` | `writeToServer` |
| `BeatTicks`, `BeatStops`, `BeatReports` | `sendHeartbeat` |
| `Display` | the display goroutine |
| `SignalArrives`, `Cancel`, `OsExit` | the signal goroutine |

External: `WriteToFails`.  The socket comes from `net.DialUDP`, and Go's
`WriteToUDP` fails on such a socket.  Only the probe and the pong use `Write`.
So the registration, lines, heartbeats and leave messages are never sent, and
the first line or heartbeat ends the session: `UdpClient_heartbeat` refutes the
comment on `sendHeartbeat` with it.  The properties of `UdpClient_session` do not
depend on that bug: with `WriteToFails_WithWrite` in its place (the writes fail only
when the server has gone) they hold too, and then so does `HeartbeatsGoOn`.
Likewise `GivesUpUnheard` holds with a `ProbeLen` of 10.  `Answers` says what is
answered: by the chat server, what its header check (`udp/server/handler.go:80`)
lets pass; by any other server, what it likes.  Abstracted: what datagrams say,
time, the metrics report.

### Metrics

`n` holds the counters; every call is taken apart into its atomic additions,
and a report into its loads (`reading` is the counter it loads next, `seen` what
it has loaded).  `current` is the local variable of `ClientConnected`; `peak`, a
history variable, is the highest the counter of active clients has been.  Any
goroutine may make any call at any time: the servers do not keep to one
disconnect for each connect, and what is checked does not need it.

| Action | Code |
|---|---|
| `CountTotal`, `CountActive`, `RaiseMax` | `ClientConnected` |
| `DropActive`, `CountDisconnect`, `CountAbnormal` | `ClientDisconnected` |
| `CountReceived`, `AddSize`, `CountMessage` | `MessageReceived` |
| `ReportStarts`, `ReportLoads` | `Report` |

Left out: counters that are related to no other (errors, messages sent, lost
packets), latencies, the maximum as a report sees it (a data race: it is loaded
without the mutex), and the client's metrics.

## Runs

| Run | Instance | Shows |
|---|---|---|
| `TcpServer_safety` | 2 connections, signal, slow readers | types, registry, recipients, counter, still map, joins first; `TcpServer` implements `ChatRoom` |
| `TcpServer_live` | 2 connections, fairness | departures are announced; dead peers leave nothing behind |
| `TcpSession_margin` | deadlines 6 and 12, pings every 3, latency 1, stall 1, 2 late lines, fairness | types; no deadline passes on a live link; lost links are noticed in time; the client ends |
| `UdpServer_timing` | 1 address, 2 structs, 4/2, all interleavings, signal, fairness | types, removal timers; silent clients are found by the first sweep past the timeout, and removed in the end; counter, notices and `Presence` are right but for crossings |
| `TcpWrites_locks` | 1 broadcaster, 1 leaver, heartbeat and handler, fairness | who can hold the lock while waiting for a peer without a deadline; that other writes end; when the lock comes free |
| `UdpClient_session` | 5 attempts, error channel 2, display channel 3, any server, signal, fairness | types; no socket leaks; connecting ends; one failure of any goroutine, or a signal, ends the session |
| `Metrics_report` | 2 goroutines, 4 calls, sizes 0 and 1, reports throughout | types; the maximum is the peak; what a report shows is consistent; counters agree when no call is under way |

Five more runs each refute one statement that a comment makes of the code;
`PROJECT.json` quotes the comments under `findings`:

| Run | Statement refuted |
|---|---|
| `TcpServer_ghostspeaker` | `closeConnection` ends a client cleanly (after a failed ping its handler goes on) |
| `TcpWrites_deadline` | a broadcast is written under a deadline (another broadcast to the same recipient resets it) |
| `UdpServer_early` | who is timed out has been silent (a packet between the sweep's look and its disconnect is lost on it) |
| `UdpClient_probe` | the probe checks whether a server is responsive (the UDP server never answers one so short, though every probe reaches it) |
| `UdpClient_heartbeat` | heartbeats are sent periodically (the first one fails and ends the session, though the server is there) |

Four further configurations refute statements of the same kind.  They are kept
beside the runs and can be given to TLC by hand, each with the same outcome:

| Configuration | Statement refuted |
|---|---|
| `TcpServer_active.cfg` | the active counter follows connections (a client that leaves before its name is counted out twice) |
| `TcpSession_stall.cfg` | the client's deadline detects a server that is gone (with four recipients that do not drain it passes on a live link) |
| `UdpServer_removal.cfg` | removal waits for the delay (the timer of an earlier departure fires) |
| `UdpServer_strangers.cfg` | inactive addresses are forgotten (those without a name are not) |

`UdpServer_pair.cfg` checks the safety properties of `UdpServer_timing` with two
addresses and the shortest times, until the first packet after a crossing; it
passes (a million states).

Disagreements of the same kind that were met while modelling and have no run,
because one line shows them: the leave notice of `tcp/server/handler.go:221`
carries its reader's name; the grace period of `tcp/server/server.go:97` is cut
short by main's return; the UDP shutdown notice goes to every entry,
connected or not; a UDP chat line checked before a timeout is broadcast after
it; a UDP welcome can count out the client it greets; the UDP client's leave
message (which its socket refuses anyway) races `os.Exit`; its error after the
last attempt wraps a shadowed `err` and says `<nil>`; lines typed ahead of the
nickname are lost in the first of its two readers of stdin; a report can show
an abnormal disconnect before the disconnect, and an average of more latencies
than it divides by; the TCP client's loss is 0/0 before the first message.

**Bounds.**  TCP: two connections give every pair of goroutines that can
meet: one connection's handler and heartbeat, one's broadcast and the other's
join, drop, cleanup and heartbeat.  No counter is bounded.  The
live run has no slow readers, since a notice may then be lost by design.
TcpSession: the code's own deadlines and period in five-second units, a unit of
latency and one slow recipient; `MaxAttempts = 2` instead of 5, since attempts
are counted before the session and leave nothing behind; two chat lines that had
arrived before a cut (`MaxBacklog`).  The proofs cover all other values.
TcpWrites: one goroutine of each kind; two broadcasters where it is two that meet.
UdpClient: the code's attempts and error channel; the display channel is 3
instead of 50, enough to be empty, partly full and full.  Metrics: two goroutines
in the middle of calls, one of which another two calls can overtake; `MaxCalls`
bounds the calls.
UDP server: properties that speak of one address are checked with one, with the
code's own times.  Two structs per address suffice: the table holds one, and
an old one can only be held by a sweep, which ends before the next tick, by
when the old one's successor cannot yet have been removed.  `MaxLeaves`
bounds the leave packets of an address in a period, which bounds its timers.
`MaxCrossings` is the number of crossings after which no further packet comes;
each leaves at most a counter that is off by one more and one more client that the
promises no longer reach, and the proofs have no such bound.  The crossings of one
address are all there are, since the receiver handles one packet at a time and a
timer or disconnect concerns one address; two addresses are in `UdpServer_pair.cfg`.

**Fairness.**  Goroutines that can run do run (weak fairness).  A goroutine
that waits for `clientsMutex` gets it though others come and go (strong
fairness): `sync.RWMutex` admits no new reader past a waiting writer, and the
waiting readers when that writer is done.  Reads end, by their deadline.
Peers owe nothing, and neither does the operator.  In `UdpServer` and
`TcpSession`, time passes however many packets or lines come (strong fairness
of `Tick`).  In `TcpWrites` deadlines expire, and a goroutine that waits to write,
or writes to a peer that reads again and again, gets on (strong fairness); the
peer need not read, so `LockComesFree` has that as its premise.  In `UdpClient`
the user, the server and the operator owe nothing: `main` moves on by itself
since its read has a deadline and its waits timers, and an answer under way comes
or is lost; goroutines report when there is room, and the ticker ticks.

## Proofs

`TcpServerProofs`, for any set of connections and any setting of the
switches:

- `TypeCorrect`, by one step per action.
- `MapStability`: the map is still while it is ranged over.
  `MapStableWhileRanged` is not inductive by itself; the strengthening
  `LockDiscipline` says that a goroutine is ranging exactly if it holds the lock
  in the mode its place requires, that there is one writer and no reader beside
  it.  Every write of the map happens under `CanLock` (`WritesUnderLock`).
- `RegistryCorrect`, `RecipientsCorrect`: the invariant `RoomInv`, with the lock
  discipline: recipients are registered when the range begins and nobody
  leaves the map until it ends.
- `ActiveCorrect`: `active <= Cardinality(Live)`, by the cardinality of a
  finite set with one element more or less.
- `JoinsHeardFirst`: until the handler of `c` has finished its join broadcast to
  `r`, nothing of `c` is in `inbox[r]` (`HeardInOrder`).

`TcpRoomProofs`, under the same assumptions: `RoomImplemented`, `TcpServer`'s
`Spec` implies `ImplementsRoom`.  Each action of `TcpServer` is matched with an
action of `ChatRoom` or with a step that changes nothing the room sees: `Register`
is `Enter`, `BroadcastStarts` is `Announce` or `Speak`, `BroadcastTo`,
`HandlerNotifies` and `BeatNotifies` are `Tell`, the drops are `Leave`, `Cancel`
is `CloseDown`, `Cleanup` may be `SlipAway`, and all others stutter.  The guards
`Quiet` and `NobodyLeaving` follow from the lock discipline (who ranges holds the
lock), the statuses from the invariant `Placed`, which says where handlers of
registered and of departed clients can be, and why only a shutdown makes one slip
away.

`TcpFarewellProofs`, under the same assumptions: `NoPhantoms`, that
`NoPhantomMember` holds if writes do not meet their deadline (`~SlowReaders`; a
notice that does is lost, and nobody repeats it).  `NoPhantomMember` speaks of
handlers that are done; the strengthening `Farewells` says of every client that
somebody heard join how its farewell is still to come (`FarewellComes`): it is
registered, or its handler or heartbeat has that recipient left in the range of
its notices, or the notice has been written.  Which of the two goroutines takes
the entry is open until it does.  Besides it needs that newcomers have heard
nothing, so that nobody registers having missed a farewell, and that a handler
does not finish while the heartbeat holds the lock for the notices
(`NoticesOutlived`).

`TcpWritesProofs`, for any broadcasters and leavers: `TypeCorrect`, and
`GuardCorrect`: who holds the lock while writing without a deadline writes a
leave notice or is crossed.  The strengthening says that an uncrossed broadcast
or ping has its deadline from when it is armed (`DeadlineGuards`) and that
nobody but leavers writes as the mutex's writer (`WriterIsQuiet`).

`UdpClientProofs`, for any number of attempts and any channels: `TypeCorrect` and
`SocketsCorrect`, from one invariant: who waits to retry has an attempt left, and
a socket is open exactly between its dial and the end of its attempt or session.

`MetricsProofs`, for any finite set of goroutines and any number of calls:
`TypeCorrect`; `PeakCorrect` (`PeakInv`: the maximum is the peak, or a goroutine
on its way to the mutex holds the peak as `current`); `ReportCorrect`
(`ReportInv`: the active clients and those counted in the total only are together
no more than the total, which never falls, so that loading the active count first
is right); `CountersCorrect` (`OwedInv`: each counter differs from the others by
as many as the goroutines that stand between the two additions, none when no call
is under way); `SizesCorrect` (`SizeInv`: the size of a message is added before it
is counted, so the sizes exceed those of the messages counted by at most one
message for each goroutine, and a report that has loaded the sizes loads the
messages, which only grow, after them; a report may well show the size of a message
it does not count, one for each goroutine).

`TcpSessionProofs`, for any number of attempts and all periods, deadlines,
latencies and stalls:

- `TypeCorrect`.
- `LossNoticed`: after a silent cut the client ends within its read deadline, the
  server's handler within its own plus the longest it can be away from its read
  (`Away`: the join or broadcast it was in, and a broadcast for each chat line that
  had arrived).  The invariant `Since` says of each place how much of the time since
  the cut its current wait and the lines read since account for; it needs that
  what is left of the lines of a cut link has arrived (`Leftovers`), so that no tick passes while
  the reading side could read one.
- `DeadlinesHold`: under `Margin`, no deadline passes on a live link.  `Margin` is
  `Period + MaxStall + MaxLatency < ClientTimeout`, the same with twice the
  latency for the server, and `MaxLatency + 2 * MaxStall <= Period` for the join.
  With the code's numbers it allows stalls of at most 7.5 seconds: one slow
  recipient, not two.  The invariant `Fed` says that for every read something
  is on its way that ends it, and how long that may still take: a line under
  way, a pong about to be sent, or a stage of the heartbeat (`Pinging`); `Shape`
  says where goroutines can be relative to one another.

`UdpServerProofs`, for any addresses, structs, timeout and delay:

- `TypeCorrect`, including that the table files each struct under its own
  address and that every struct in use has one.
- `RemovalCorrect`: a disconnected, named entry has a timer pending.
  Inductive given the types; the interesting steps are `Tick`, which moves
  the timer, and `TimerFires`, which may take the last one only with the entry.
- `SilenceFound`, under every interleaving: when no sweep is under way, no member
  has been silent beyond the timeout.  The invariant `AgeInv` says that a member
  overdue is on the sweep's list or is its target, and that whoever gives a name has
  just had `LastSeen` written.  Late packets, old timers and new entries cannot
  make a sweep miss anybody.
- `CountCorrect`, under every interleaving: when no packet is being handled, the
  counter differs from the number of members by at most the crossings there were.
  The invariant `CountBounded` bounds the difference on either side while a packet
  is handled: `Drift`, with the client about to be announced taken for counted;
  `Stray`, one who may yet be counted though the table no longer files their struct;
  `Undone`, one disconnected in the middle of a renaming, who will be connected again
  uncounted.
- `NoticesCorrect` and `PresenceKept`, under every interleaving, for every client not
  `crossed`.  The invariant says that unless crossed, the struct being handled is
  its address's entry (`Filed`), and what was read of `Connected` is still so
  (`ReadStillTrue`); a notice lags behind just while a join is to be announced
  (`NoticesOwed`).  `Touch` is `Heard`, `SetName` of one not connected is `Comes`,
  `Announce` is `Announced`, a disconnect that finds its client connected is `Goes`,
  `Tick` is `PeriodPasses`, and all others stutter.  That nobody is given up too
  early needs `TargetAge` (who the sweep has found silent is still, or has been
  heard of this instant); that no period passes over anybody overdue is
  `OverdueSwept`.

No theorem assumes anything of the scheduling.  What a crossing does is thereby
bounded as well: it costs one in the counter, and the promises to the client it
concerns; every other client and every other step is unaffected.

Assumptions: `Conns`, `Addrs` and `Goroutines` finite, `NoProc` and `None` no
ordinary value, `Delay` positive, the switches Boolean.

**Only model-checked.**  Liveness, which the prover does not handle:
`GoneIsForgotten`, `GoneIsRemoved`, `ClientEnds`, `UncrossedEnds`, `LockComesFree`,
`ConnectEnds`, `SessionEnds`.  Every other property of the passing runs, invariants
and the two refinements, has a theorem.

## Not modelled

- The stress tools: load generators around the same clients.
- The UDP codec (`createMessagePacket`, header parsing), IDs and sequence
  numbers, names and texts, and the text helpers of `shared/shared.go`: the
  models take the branches they decide.
- The metrics reporters, the counters related to no other and the clients'
  metrics, which are only printed.
- `GracefulShutdown` and `GetActiveUserCount`, which nobody calls.

## Plan

1. Done: `TcpServer` and `ChatRoom`, which it implements; `TcpSession`,
   `TcpWrites`, `UdpServer` and `Presence`, `UdpClient`, `Metrics`; their runs,
   and a theorem for every safety property of the runs.
2. Theorems about what liveness rests on: what is always enabled where somebody
   waits (the lock, the error channels, the timers).
3. `UdpCodec` (truncation and parsing against a reference), `UdpIdentity` (IDs
   that clients bring, wrap-around), `SharedText`.
4. `StressHarness`: the wait group and the reconnect timer.
