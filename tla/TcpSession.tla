------------------------------ MODULE TcpSession ------------------------------
(***************************************************************************)
(* One TCP client and its session with the server: the client process of   *)
(* tcp/client/client.go (connect loop, reader and writer goroutines, error *)
(* channel, signal handler) composed with the server's side of its         *)
(* connection (handler and heartbeat of tcp/server/handler.go), each with  *)
(* its read deadline.                                                      *)
(*                                                                         *)
(* Time passes in units of five seconds, the write deadline: a broadcast   *)
(* takes one unit for each recipient that does not drain.  A step takes no *)
(* time; Tick waits for every step that is due.                            *)
(*                                                                         *)
(* Abstractions.  Of the server's other connections only what they cost    *)
(* this one is kept: a wait for clientsMutex takes up to MaxStall (a       *)
(* pending Lock keeps new readers out until the broadcasts under way are   *)
(* done), and so does a broadcast.  Both sockets' buffers have room.       *)
(*                                                                         *)
(* What has arrived waits in its receiver's socket and can be read after   *)
(* the link is gone; what has not is lost with the link.  An element of    *)
(* `up` may stand for several chat lines: reading one need not remove it.  *)
(***************************************************************************)
EXTENDS Integers

CONSTANTS
  MaxAttempts,    \* reconnectAttempts
  ClientTimeout,  \* the client's read deadline
  ServerTimeout,  \* timeoutPeriod, the server's read deadline
  Period,         \* the server's heartbeat period
  MaxLatency,     \* the longest a line is under way
  MaxStall,       \* the longest wait for clientsMutex, and the longest broadcast
  MaxBacklog      \* bound: chat lines in the server's socket when the link is cut

ASSUME AttemptsAssumption == MaxAttempts \in Nat \ {0}
ASSUME PeriodsAssumption ==
  /\ ClientTimeout \in Nat \ {0} /\ ServerTimeout \in Nat \ {0} /\ Period \in Nat \ {0}
  /\ MaxLatency \in Nat /\ MaxStall \in Nat /\ MaxBacklog \in Nat \ {0}

VARIABLES
  main,      \* the client's main goroutine
  attempt,   \* the connect loop's counter, while it runs
  cancelled, \* the client's context is cancelled
  reader, writer,   \* its goroutines
  errs,      \* errors in its channel
  handler,   \* the server's handler of the connection
  beat,      \* and heartbeat
  due,       \* a tick in the channel of the heartbeat's ticker
  link,      \* "none", "up", "cut" (silently), "closed" (by either side)
  down, up,  \* lines sent to the client, to the server, and not yet read
  clock,     \* time since the ticker last fired
  wait,      \* time the heartbeat has waited for the lock
  busy,      \* time the handler has spent away from its read
  cidle,     \* time the client's read has waited
  sidle,     \* time since the server's read deadline was set
  lost,      \* time since the link was cut, up to LostBound
  late       \* history: chat lines the handler has read since

client == <<main, attempt, cancelled, reader, writer, errs>>
clocks == <<clock, wait, busy, cidle, sidle, lost, late>>
vars == <<client, handler, beat, due, link, down, up, clocks>>

MainStates == {"prompt", "dialing", "pausing", "naming", "session", "ended"}
ReaderStates == {"off", "scanning", "ponging", "failed", "ended"}
WriterStates == {"off", "typing", "failed", "ended"}
HandlerStates == {"none", "naming", "joining", "reading", "broadcasting", "dropped"}
BeatStates == {"off", "select", "locking", "ended"}

(* The lock for the entry; the lock for the join broadcast and the         *)
(* broadcast itself.  The lock for a chat line and its broadcast.          *)
JoinBound == 3 * MaxStall
ChatBound == 2 * MaxStall
LostBound == ServerTimeout + JoinBound + MaxBacklog * ChatBound + 1

Ages == 0..MaxLatency
ToClient == [kind : {"ping", "line"}, age : Ages]
ToServer == [kind : {"name", "pong", "line"}, age : Ages]
Fresh(k) == [kind |-> k, age |-> 0]

(* A line of age MaxLatency has arrived, if not before.                    *)
Arrived(S) == {[m EXCEPT !.age = MaxLatency] : m \in S}

(* TCP keeps the order: what was sent first is read first.                 *)
Oldest(m, S) == m \in S /\ \A n \in S : n.age <= m.age

(* A line sent; it goes nowhere once the link is cut.                      *)
SendUp(k) == up' = IF link = "up" THEN up \cup {Fresh(k)} ELSE up
SendDown(k) == down' = IF link = "up" THEN down \cup {Fresh(k)} ELSE down

(* A side closes its socket, or its process ends: what it had not read is  *)
(* gone, what the other side has not read is not.  Its clocks stop, at 0.  *)
Closes == link' = IF link = "up" THEN "closed" ELSE link
ClientCloses == Closes /\ down' = {} /\ cidle' = 0 /\ UNCHANGED up
ServerCloses == Closes /\ up' = {} /\ sidle' = 0 /\ busy' = 0 /\ UNCHANGED down

Init ==
  /\ main = "prompt" /\ attempt = 0 /\ cancelled = FALSE
  /\ reader = "off" /\ writer = "off" /\ errs = 0
  /\ handler = "none" /\ beat = "off" /\ due = FALSE
  /\ link = "none" /\ down = {} /\ up = {}
  /\ clock = 0 /\ wait = 0 /\ busy = 0 /\ cidle = 0 /\ sidle = 0 /\ lost = 0 /\ late = 0

-----------------------------------------------------------------------------
(* client.go: main and connectWithRetry.                                   *)

Prompted ==
  /\ main = "prompt" /\ ~cancelled
  /\ main' = "dialing" /\ attempt' = 1
  /\ UNCHANGED <<cancelled, reader, writer, errs, handler, beat, due, link, down, up, clocks>>

(* The dial succeeds, and the server accepts.                              *)
Dials ==
  /\ main = "dialing" /\ ~cancelled
  /\ main' = "naming" /\ attempt' = 0
  /\ link' = "up" /\ handler' = "naming" /\ sidle' = 0
  /\ UNCHANGED <<cancelled, reader, writer, errs, beat, due, down, up,
                 clock, wait, busy, cidle, lost, late>>

(* Mutant: off by one.                                                     *)
DialFails_OneMore ==
  /\ main = "dialing" /\ ~cancelled
  /\ main' = IF attempt <= MaxAttempts THEN "pausing" ELSE "ended"
  /\ UNCHANGED <<attempt, cancelled, reader, writer, errs, handler, beat, due, link, down, up, clocks>>

(* The dial is refused or takes five seconds.                              *)
DialFails ==
  /\ main = "dialing" /\ ~cancelled
  /\ main' = IF attempt < MaxAttempts THEN "pausing" ELSE "ended"
  /\ UNCHANGED <<attempt, cancelled, reader, writer, errs, handler, beat, due, link, down, up, clocks>>

Retries ==
  /\ main = "pausing" /\ ~cancelled
  /\ main' = "dialing" /\ attempt' = attempt + 1
  /\ UNCHANGED <<cancelled, reader, writer, errs, handler, beat, due, link, down, up, clocks>>

(* The nickname is sent; the goroutines start, and look at the context.    *)
SendsName ==
  /\ main = "naming"
  /\ main' = "session"
  /\ reader' = (IF cancelled THEN "ended" ELSE "scanning")
  /\ writer' = (IF cancelled THEN "ended" ELSE "typing")
  /\ SendUp("name")
  /\ cidle' = 0
  /\ UNCHANGED <<attempt, cancelled, errs, handler, beat, due, link, down,
                 clock, wait, busy, sidle, lost, late>>

Signalled ==
  /\ main # "ended" /\ ~cancelled
  /\ cancelled' = TRUE
  /\ UNCHANGED <<main, attempt, reader, writer, errs, handler, beat, due, link, down, up, clocks>>

(* The process ends: os.Exit of the signal goroutine, main's return on the *)
(* cancelled context, on the first error, or when the name cannot be sent. *)
Ends ==
  /\ main # "ended"
  /\ cancelled \/ (main = "session" /\ errs > 0) \/ (main = "naming" /\ link = "closed")
  /\ main' = "ended" /\ reader' = "ended" /\ writer' = "ended"
  /\ ClientCloses
  /\ UNCHANGED <<attempt, cancelled, errs, handler, beat, due,
                 clock, wait, busy, sidle, lost, late>>

-----------------------------------------------------------------------------
(* client.go: readFromServer.                                              *)

(* The top of the loop: the context is looked at, the deadline is set.     *)
Again == reader' = (IF cancelled THEN "ended" ELSE "scanning") /\ cidle' = 0

Receives(m) ==
  /\ reader = "scanning" /\ Oldest(m, down)
  /\ down' = down \ {m}
  /\ IF m.kind = "ping" THEN reader' = "ponging" /\ cidle' = 0 ELSE Again
  /\ UNCHANGED <<main, attempt, cancelled, writer, errs, handler, beat, due, link, up,
                 clock, wait, busy, sidle, lost, late>>

(* Mutant: the ping is not answered.                                       *)
Pongs_Silently ==
  /\ reader = "ponging"
  /\ Again
  /\ UNCHANGED <<main, attempt, cancelled, writer, errs, handler, beat, due, link, down, up,
                 clock, wait, busy, sidle, lost, late>>

Pongs ==
  /\ reader = "ponging"
  /\ Again /\ SendUp("pong")
  /\ UNCHANGED <<main, attempt, cancelled, writer, errs, handler, beat, due, link, down,
                 clock, wait, busy, sidle, lost, late>>

(* Mutant: the read has no deadline.                                       *)
ReaderFails_OnlyClosed ==
  /\ reader \in {"scanning", "ponging"} /\ link = "closed"
  /\ reader' = "failed"
  /\ UNCHANGED <<main, attempt, cancelled, writer, errs, handler, beat, due, link, down, up, clocks>>

(* Scan fails at its deadline, at the end of the stream or with it, when   *)
(* the link is closed; a pong cannot be written.                           *)
ReaderFails ==
  /\ \/ reader = "scanning" /\ (cidle = ClientTimeout \/ link = "closed")
     \/ reader = "ponging" /\ link = "closed"
  /\ reader' = "failed"
  /\ UNCHANGED <<main, attempt, cancelled, writer, errs, handler, beat, due, link, down, up, clocks>>

(* The channel has room for two errors.                                    *)
ReaderReports ==
  /\ reader = "failed" /\ errs < 2
  /\ reader' = "ended" /\ errs' = errs + 1
  /\ UNCHANGED <<main, attempt, cancelled, writer, handler, beat, due, link, down, up, clocks>>

-----------------------------------------------------------------------------
(* client.go: writeToServer.                                               *)

(* Mutant: SetDeadline, for reads and writes, instead of SetWriteDeadline. *)
Types_RenewsRead ==
  /\ writer = "typing"
  /\ SendUp("line")
  /\ writer' = IF cancelled THEN "ended" ELSE "typing"
  /\ cidle' = 0
  /\ UNCHANGED <<main, attempt, cancelled, reader, errs, handler, beat, due, link, down,
                 clock, wait, busy, sidle, lost, late>>

(* The user types a line (an empty one is skipped).                        *)
Types ==
  /\ writer = "typing"
  /\ SendUp("line")
  /\ writer' = IF cancelled THEN "ended" ELSE "typing"
  /\ UNCHANGED <<main, attempt, cancelled, reader, errs, handler, beat, due, link, down, clocks>>

(* Standard input ends, or the line cannot be sent.                        *)
WriterFails ==
  /\ writer = "typing"
  /\ writer' = "failed"
  /\ UNCHANGED <<main, attempt, cancelled, reader, errs, handler, beat, due, link, down, up, clocks>>

WriterReports ==
  /\ writer = "failed" /\ errs < 2
  /\ writer' = "ended" /\ errs' = errs + 1
  /\ UNCHANGED <<main, attempt, cancelled, reader, handler, beat, due, link, down, up, clocks>>

-----------------------------------------------------------------------------
(* The server's handler.                                                   *)

NameArrives(m) ==
  /\ handler = "naming" /\ m.kind = "name" /\ Oldest(m, up)
  /\ up' = up \ {m}
  /\ handler' = "joining" /\ busy' = 0
  /\ UNCHANGED <<client, beat, due, link, down, clock, wait, cidle, sidle, lost, late>>

(* Registered and announced: the welcome line, the heartbeat, the first    *)
(* read.                                                                   *)
Welcomes ==
  /\ handler = "joining"
  /\ SendDown("line")
  /\ handler' = "reading" /\ sidle' = 0 /\ busy' = 0
  /\ beat' = "select" /\ due' = FALSE /\ clock' = 0
  /\ UNCHANGED <<client, link, up, wait, cidle, lost, late>>

(* A pong only renews the deadline.                                        *)
PongArrives(m) ==
  /\ handler = "reading" /\ m.kind = "pong" /\ Oldest(m, up)
  /\ up' = up \ {m}
  /\ sidle' = 0
  /\ UNCHANGED <<client, handler, beat, due, link, down, clock, wait, busy, cidle, lost, late>>

(* There can be another chat line where this one was.                      *)
MoreLines == link = "up" \/ (link = "cut" /\ late + 1 < MaxBacklog)

(* A chat line is broadcast before the deadline is renewed.                *)
LineArrives(m) ==
  /\ handler = "reading" /\ m.kind = "line" /\ Oldest(m, up)
  /\ up' = up \ {m} \/ (MoreLines /\ up' = up)
  /\ handler' = "broadcasting" /\ busy' = 0
  /\ late' = IF link = "cut" THEN late + 1 ELSE late
  /\ UNCHANGED <<client, beat, due, link, down, clock, wait, cidle, sidle, lost>>

BroadcastDone ==
  /\ handler = "broadcasting"
  /\ handler' = "reading" /\ sidle' = 0 /\ busy' = 0
  /\ UNCHANGED <<client, beat, due, link, down, up, clock, wait, cidle, lost, late>>

(* A line of another client, while this one is in the registry.            *)
RoomSpeaks ==
  /\ handler \in {"joining", "reading", "broadcasting"}
  /\ SendDown("line")
  /\ UNCHANGED <<client, handler, beat, due, link, up, clocks>>

(* The read fails; closeConnection, `done` closed, conn.Close.             *)
HandlerFails ==
  /\ handler \in {"naming", "reading"} /\ (sidle = ServerTimeout \/ link = "closed")
  /\ handler' = "dropped"
  /\ ServerCloses
  /\ UNCHANGED <<client, beat, due, clock, wait, cidle, lost, late>>

-----------------------------------------------------------------------------
(* The server's heartbeat, and the server process.                         *)

(* time.Ticker keeps at most one tick that nobody has taken.               *)
TickerFires ==
  /\ beat \in {"select", "locking"} /\ clock = Period
  /\ clock' = 0 /\ due' = TRUE
  /\ UNCHANGED <<client, handler, beat, link, down, up, wait, busy, cidle, sidle, lost, late>>

BeatWakes ==
  /\ beat = "select" /\ due
  /\ beat' = "locking" /\ due' = FALSE /\ wait' = 0
  /\ UNCHANGED <<client, handler, link, down, up, clock, busy, cidle, sidle, lost, late>>

(* The lock is free: still registered?  The ping is written.               *)
BeatPings ==
  /\ beat = "locking" /\ handler # "dropped"
  /\ SendDown("ping")
  /\ beat' = "select" /\ wait' = 0
  /\ UNCHANGED <<client, handler, due, link, up, clock, busy, cidle, sidle, lost, late>>

TickerStops == beat' = "ended" /\ due' = FALSE /\ clock' = 0 /\ wait' = 0

BeatStops ==
  /\ beat \in {"select", "locking"} /\ handler = "dropped"
  /\ TickerStops
  /\ UNCHANGED <<client, handler, link, down, up, busy, cidle, sidle, lost, late>>

(* The server process ends: its sockets are closed.                        *)
ServerEnds ==
  /\ handler \notin {"none", "dropped"}
  /\ handler' = "dropped"
  /\ ServerCloses /\ TickerStops
  /\ UNCHANGED <<client, cidle, lost, late>>

-----------------------------------------------------------------------------
(* The network, and time.                                                  *)

(* Of the lines S sent on a link, those of K, none of them overtaking an   *)
(* older one or the name, have arrived.                                    *)
FirstOf(K, S) == \A m \in K, n \in S : n.age > m.age \/ n.kind = "name" => n \in K

(* The link is lost without a word; what has arrived can still be read.    *)
Cut ==
  /\ link = "up" /\ link' = "cut"
  /\ \E K \in SUBSET down : FirstOf(K, down) /\ down' = Arrived(K)
  /\ \E K \in SUBSET up : FirstOf(K, up) /\ up' = Arrived(K)
  /\ UNCHANGED <<client, handler, beat, due, clocks>>

(* Nothing is due: no step, deadline, arrival or bound.  Lines wait in the *)
(* socket while their receiver is not reading.                             *)
NothingDue ==
  /\ main \in {"session", "ended"} /\ ~(main = "session" /\ (errs > 0 \/ cancelled))
  /\ reader \notin {"ponging", "failed"} /\ writer # "failed"
  /\ reader = "scanning" =>
       cidle < ClientTimeout /\ link # "closed" /\ \A m \in down : m.age < MaxLatency
  /\ handler \in {"naming", "reading"} =>
       sidle < ServerTimeout /\ link # "closed" /\ \A m \in up : m.age < MaxLatency
  /\ handler = "joining" => busy < JoinBound
  /\ handler = "broadcasting" => busy < ChatBound
  /\ beat \in {"select", "locking"} => clock < Period /\ handler # "dropped"
  /\ beat = "select" => ~due
  /\ beat = "locking" => wait < MaxStall

Older(S) == {[m EXCEPT !.age = IF @ < MaxLatency THEN @ + 1 ELSE @] : m \in S}

Tick ==
  /\ link \in {"up", "cut"} /\ NothingDue
  /\ reader = "scanning" \/ handler \notin {"none", "dropped"}
  /\ down' = Older(down) /\ up' = Older(up)
  /\ clock' = IF beat \in {"select", "locking"} THEN clock + 1 ELSE clock
  /\ wait' = IF beat = "locking" THEN wait + 1 ELSE wait
  /\ busy' = IF handler \in {"joining", "broadcasting"} THEN busy + 1 ELSE busy
  /\ cidle' = IF reader = "scanning" THEN cidle + 1 ELSE cidle
  /\ sidle' = IF handler \in {"naming", "reading"} THEN sidle + 1 ELSE sidle
  /\ lost' = IF link = "cut" /\ lost < LostBound THEN lost + 1 ELSE lost
  /\ UNCHANGED <<client, handler, beat, due, link, late>>

-----------------------------------------------------------------------------
Main == Dials \/ DialFails \/ Retries \/ SendsName \/ Ends
Reader == Pongs \/ ReaderFails \/ ReaderReports \/ \E m \in ToClient : Receives(m)
Writer == Types \/ WriterFails \/ WriterReports
Handler ==
  \/ Welcomes \/ BroadcastDone \/ HandlerFails
  \/ \E m \in ToServer : NameArrives(m) \/ PongArrives(m) \/ LineArrives(m)
Heartbeat == TickerFires \/ BeatWakes \/ BeatPings \/ BeatStops

Next ==
  \/ Prompted \/ Signalled \/ Main \/ Reader \/ Writer
  \/ Handler \/ Heartbeat \/ RoomSpeaks \/ ServerEnds
  \/ Cut \/ Tick

Spec == Init /\ [][Next]_vars

(* Fairness.  Goroutines run and time passes.  Nothing is owed by the user *)
(* (who may never answer the prompt), the operators or the link.           *)
Fairness ==
  /\ WF_vars(Main) /\ WF_vars(Reader) /\ WF_vars(WriterReports)
  /\ WF_vars(Handler) /\ WF_vars(Heartbeat) /\ SF_vars(Tick)

FairSpec == Spec /\ Fairness

-----------------------------------------------------------------------------
(* Properties.                                                             *)

(* Every variable holds a value of its type.                               *)
TypeOK ==
  /\ main \in MainStates /\ attempt \in 0..MaxAttempts /\ cancelled \in BOOLEAN
  /\ reader \in ReaderStates /\ writer \in WriterStates /\ errs \in 0..2
  /\ handler \in HandlerStates /\ beat \in BeatStates /\ due \in BOOLEAN
  /\ link \in {"none", "up", "cut", "closed"}
  /\ down \in SUBSET ToClient /\ up \in SUBSET ToServer
  /\ clock \in 0..Period /\ wait \in 0..MaxStall /\ busy \in 0..JoinBound
  /\ cidle \in 0..ClientTimeout /\ sidle \in 0..ServerTimeout
  /\ lost \in 0..LostBound /\ late \in 0..MaxBacklog

(* The two sides' periods, deadlines and stalls fit together.              *)
Margin ==
  /\ Period + MaxStall + MaxLatency < ClientTimeout
  /\ Period + MaxStall + 2 * MaxLatency < ServerTimeout
  /\ MaxLatency + 2 * MaxStall <= Period

(* No deadline passes on a live link (client.go:155 "Set read deadline to  *)
(* detect server disconnection", handler.go:160 "Set read deadline to      *)
(* detect dead connections"), however idle user and room are: the server's *)
(* pings renew the client's deadline and the pongs the server's.           *)
NoFalseAlarm ==
  link = "up" =>
    /\ reader = "scanning" => cidle < ClientTimeout
    /\ handler \in {"naming", "reading"} => sidle < ServerTimeout

(* The longest the handler can have been away from its read since a cut:   *)
(* it was busy then, and has read late lines since, one broadcast each.    *)
Away == JoinBound + late * ChatBound

(* A link that is silently lost is noticed: by the client within its read  *)
(* deadline, by the server within its own and what it was busy with then   *)
(* and for each chat line that had already arrived (handler.go:160-203),   *)
(* whatever each of them goes on writing.                                  *)
CutNoticed ==
  link = "cut" =>
    /\ lost > ClientTimeout => main = "ended"
    /\ lost > ServerTimeout + Away => handler = "dropped"

(* A client ends when it is told to, when the link is gone, and when the   *)
(* server is (client.go:91 "Wait for error or context cancellation").      *)
ClientEnds ==
  cancelled \/ link \in {"cut", "closed"} ~> main = "ended"
=============================================================================
