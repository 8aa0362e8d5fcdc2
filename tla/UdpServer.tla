------------------------------ MODULE UdpServer ------------------------------
(***************************************************************************)
(* The UDP chat server: the receive loop, packet handlers, client table    *)
(* and removal timers of udp/server/handler.go, the heartbeat sweep and    *)
(* signal goroutine of udp/server/server.go, and the active-client counter *)
(* of udp/metrics/metrics.go.                                              *)
(*                                                                         *)
(* Client structs have an identity: the receiver, the sweep and the table  *)
(* hold pointers to them, and the table's entry for an address can be      *)
(* deleted or replaced while another goroutine holds the old struct.       *)
(* Fields are read and written outside the lock wherever the code does so. *)
(*                                                                         *)
(* Time passes in heartbeat periods (15 s): Tick lets one pass and starts  *)
(* the sweep.  A struct's age is the number of ticks since LastSeen, so    *)
(* `now.Sub(LastSeen) > timeout` is age > Timeout, with Timeout = 4 and a  *)
(* removal delay of Delay = 2 in the code.  Handling a packet or a sweep   *)
(* takes less than a period, so neither is under way at a tick, and a due  *)
(* timer runs before the next one.                                         *)
(*                                                                         *)
(* Abstractions.  A packet is reduced to its sender and the branch         *)
(* handlePacket takes; any packet may come at any time, which covers loss, *)
(* duplication and reordering.  Of Name only whether it has been set is    *)
(* kept.  Acks, pongs and pings change no state and are left out, as are   *)
(* packets too short to have a header, client IDs and message texts.       *)
(***************************************************************************)
EXTENDS Integers, FiniteSets

CONSTANTS
  Addrs,     \* the addresses packets come from
  Objs,      \* Client structs; two for each address are enough
  None,      \* no struct: an absent table entry, nothing held
  Timeout,   \* ClientTimeout, in heartbeat periods
  Delay,     \* delay of the removal timer, in heartbeat periods
  MaxLeaves, \* bound: leave packets from an address in a heartbeat period
  MaxCrossings, \* bound: no packet comes after more crossings
  Signals    \* whether SIGINT or SIGTERM may arrive

ASSUME AddrsAssumption == IsFiniteSet(Addrs)
ASSUME NoneAssumption == None \notin Objs
ASSUME TimesAssumption == Timeout \in Nat /\ Delay \in Nat \ {0} /\ MaxLeaves \in Nat /\ MaxCrossings \in Nat
ASSUME SwitchAssumption == Signals \in BOOLEAN

VARIABLES
  gone,      \* peers that will not send again
  server,    \* "serving", "notified" (shutdown notices sent), "exited"
  clients,   \* the table: address to struct, or None
  addr, named, connected, age,   \* the fields of the structs
  timers,    \* timers[a][k]: removal timers for a with k periods to run
  rx, cur,   \* where the receive loop is, and the struct it works on
  sweep,     \* structs of its snapshot the heartbeat has still to look at
  target,    \* the struct the heartbeat has found silent, or None
  notice,    \* the last line broadcast about each address
  active,    \* ServerMetrics.ActiveClients
  crossed, crossings   \* history: addresses with a crossing, and how many there were

tableVars == <<clients, timers>>
fields == <<addr, named, connected, age>>
record == <<crossed, crossings>>
vars == <<gone, server, tableVars, fields, rx, cur, sweep, target, notice, active, record>>

RxStates ==
  { "idle",
    "touch",            \* has the struct, LastSeen not yet written
    "dispatch",
    "join", "rename",   \* handleNameResponse, wasConnected false or true
    "announce", "welcome",
    "speak" }           \* handleChatMessage, past the Connected check

running == server # "exited"

Entries == {o \in Objs : \E a \in Addrs : clients[a] = o}
Held == Entries \cup sweep \cup ({cur, target} \ {None})
IsMember(a) == clients[a] # None /\ connected[clients[a]]
Members == {a \in Addrs : IsMember(a)}

Init ==
  /\ gone = {}
  /\ server = "serving"
  /\ clients = [a \in Addrs |-> None]
  /\ addr = [o \in Objs |-> None]
  /\ named = [o \in Objs |-> FALSE]
  /\ connected = [o \in Objs |-> FALSE]
  /\ age = [o \in Objs |-> 0]
  /\ timers = [a \in Addrs |-> [k \in 0..Delay |-> 0]]
  /\ rx = "idle" /\ cur = None
  /\ sweep = {} /\ target = None
  /\ notice = [a \in Addrs |-> "none"]
  /\ active = 0
  /\ crossed = {} /\ crossings = 0

-----------------------------------------------------------------------------
(* handler.go: HandleClientDisconnect, under the lock.  It asks whether    *)
(* the address has an entry, not whether the entry is this struct.         *)
Disconnect(o) ==
  LET a == addr[o] IN
  IF clients[a] # None /\ connected[o]
    THEN /\ connected' = [connected EXCEPT ![o] = FALSE]
         /\ timers' = [timers EXCEPT ![a][Delay] = @ + 1]
         /\ notice' = [notice EXCEPT ![a] = "left"]
         /\ active' = active - 1
    ELSE UNCHANGED <<connected, timers, notice, active>>

(* A crossing: the receiver has looked at a client's entry or its          *)
(* Connected, and another goroutine changes it before the receiver acts on *)
(* it; or the sweep disconnects a struct that the table no longer files.   *)
Crosses(a) == crossed' = crossed \cup {a} /\ crossings' = crossings + 1

TimerCrosses(a) == clients[a] # None /\ clients[a] = cur /\ ~connected[cur]

DropCrosses ==
  /\ clients[addr[target]] # None /\ connected[target]
  /\ clients[addr[target]] # target \/ (target = cur /\ rx \in {"rename", "announce"})

(* Mutant: an entry that has just been heard of is kept.                   *)
TimerFires_ByLastSeen(a) ==
  /\ running /\ timers[a][0] > 0
  /\ timers' = [timers EXCEPT ![a][0] = @ - 1]
  /\ clients' = IF IsMember(a) \/ (clients[a] # None /\ age[clients[a]] = 0)
                  THEN clients ELSE [clients EXCEPT ![a] = None]
  /\ UNCHANGED <<gone, server, fields, rx, cur, sweep, target, notice, active, record>>

(* The function of the removal timer, under the lock.                      *)
TimerFires(a) ==
  /\ running /\ timers[a][0] > 0
  /\ timers' = [timers EXCEPT ![a][0] = @ - 1]
  /\ clients' = IF IsMember(a) THEN clients ELSE [clients EXCEPT ![a] = None]
  /\ IF TimerCrosses(a) THEN Crosses(a) ELSE UNCHANGED record
  /\ UNCHANGED <<gone, server, fields, rx, cur, sweep, target, notice, active>>

-----------------------------------------------------------------------------
(* The peers: a client process ends or loses its network for good.         *)
PeerGoes(a) ==
  /\ running /\ a \notin gone
  /\ gone' = gone \cup {a}
  /\ UNCHANGED <<server, tableVars, fields, rx, cur, sweep, target, notice, active, record>>

-----------------------------------------------------------------------------
(* The receive loop: receiveLoop, handlePacket and what it calls.  Between *)
(* its steps the sweep and the timers can run.                             *)

Quiet == sweep = {} /\ target = None

CanReceive(a) ==
  /\ running /\ rx = "idle" /\ a \notin gone
  /\ crossings <= MaxCrossings

(* getOrCreateClient finds an entry, under the read lock.                  *)
ReceiveKnown(a) ==
  /\ CanReceive(a) /\ clients[a] # None
  /\ cur' = clients[a] /\ rx' = "touch"
  /\ UNCHANGED <<gone, server, tableVars, fields, sweep, target, notice, active, record>>

(* Mutant: the struct's address is left as it was.                         *)
ReceiveNew_WithoutAddr(a, o) ==
  /\ CanReceive(a) /\ clients[a] = None /\ o \notin Held
  /\ clients' = [clients EXCEPT ![a] = o]
  /\ named' = [named EXCEPT ![o] = FALSE]
  /\ connected' = [connected EXCEPT ![o] = FALSE]
  /\ age' = [age EXCEPT ![o] = 0]
  /\ cur' = o /\ rx' = "touch"
  /\ UNCHANGED <<gone, server, timers, addr, sweep, target, notice, active, record>>

(* It finds none and creates one under the lock.  Only this goroutine      *)
(* inserts, so the second look finds none either.                          *)
ReceiveNew(a, o) ==
  /\ CanReceive(a) /\ clients[a] = None /\ o \notin Held
  /\ clients' = [clients EXCEPT ![a] = o]
  /\ addr' = [addr EXCEPT ![o] = a]
  /\ named' = [named EXCEPT ![o] = FALSE]
  /\ connected' = [connected EXCEPT ![o] = FALSE]
  /\ age' = [age EXCEPT ![o] = 0]
  /\ cur' = o /\ rx' = "touch"
  /\ UNCHANGED <<gone, server, timers, sweep, target, notice, active, record>>

(* Mutant: LastSeen is only written when the struct is created.            *)
Touch_Forgotten ==
  /\ running /\ rx = "touch"
  /\ rx' = "dispatch"
  /\ UNCHANGED <<gone, server, tableVars, fields, cur, sweep, target, notice, active, record>>

Touch ==
  /\ running /\ rx = "touch"
  /\ age' = [age EXCEPT ![cur] = 0]
  /\ rx' = "dispatch"
  /\ UNCHANGED <<gone, server, tableVars, addr, named, connected, cur, sweep, target, notice, active, record>>

(* Steps that write no field and do not touch the table.                   *)
Moves(from, to) ==
  /\ running /\ rx = from /\ rx' = to
  /\ cur' = IF to = "idle" THEN None ELSE cur
  /\ UNCHANGED <<gone, server, tableVars, fields, sweep, target, record>>

(* A ping, answered; a pong, an ack, an unknown or ill-formed packet; a    *)
(* chat line of a client that is not connected.                            *)
Ignore == Moves("dispatch", "idle") /\ UNCHANGED <<notice, active>>

Leave ==
  /\ running /\ rx = "dispatch"
  /\ timers[addr[cur]][Delay] < MaxLeaves
  /\ Disconnect(cur)
  /\ rx' = "idle" /\ cur' = None
  /\ UNCHANGED <<gone, server, clients, addr, named, age, sweep, target, record>>

(* handleChatMessage: the check of Connected, the ack; the broadcast.      *)
Chat == rx = "dispatch" /\ connected[cur] /\ Moves("dispatch", "speak") /\ UNCHANGED <<notice, active>>

Speak == Moves("speak", "idle") /\ UNCHANGED <<notice, active>>

(* Mutant: every name is taken for a new client's.                         *)
NameResponse_AlwaysJoins == Moves("dispatch", "join") /\ UNCHANGED <<notice, active>>

(* handleNameResponse reads wasConnected, then writes Name and Connected.  *)
(* FormatName never returns "", so the branch for it is dead.              *)
NameResponse ==
  /\ Moves("dispatch", IF connected[cur] THEN "rename" ELSE "join")
  /\ UNCHANGED <<notice, active>>

SetName ==
  /\ running /\ rx \in {"join", "rename"}
  /\ named' = [named EXCEPT ![cur] = TRUE]
  /\ connected' = [connected EXCEPT ![cur] = TRUE]
  /\ IF rx = "join" THEN rx' = "announce" /\ UNCHANGED cur ELSE rx' = "idle" /\ cur' = None
  /\ UNCHANGED <<gone, server, tableVars, addr, age, sweep, target, notice, active, record>>

(* Mutant: the room is not told.                                           *)
Announce_Quietly ==
  Moves("announce", "welcome") /\ active' = active + 1 /\ UNCHANGED notice

(* A new client is counted and its joining broadcast.                      *)
Announce ==
  /\ Moves("announce", "welcome")
  /\ active' = active + 1
  /\ notice' = [notice EXCEPT ![addr[cur]] = "joined"]

(* countConnectedClients and the welcome line.                             *)
Welcome == Moves("welcome", "idle") /\ UNCHANGED <<notice, active>>

Receiver ==
  \/ \E a \in Addrs : ReceiveKnown(a) \/ \E o \in Objs : ReceiveNew(a, o)
  \/ Touch \/ Ignore \/ Leave \/ Chat \/ Speak \/ NameResponse \/ SetName \/ Announce \/ Welcome

-----------------------------------------------------------------------------
(* server.go: time and the heartbeat sweep.                                *)

(* A period passes; the ticker fires, the sweep reads the clock and takes  *)
(* its snapshot of the table.  Structs nobody points to are forgotten.     *)
Tick ==
  /\ running /\ rx = "idle" /\ Quiet
  /\ \A a \in Addrs : timers[a][0] = 0
  /\ timers' = [a \in Addrs |-> [k \in 0..Delay |-> IF k = Delay THEN 0 ELSE timers[a][k + 1]]]
  /\ age' = [o \in Objs |-> IF o \notin Entries THEN 0
                            ELSE IF age[o] > Timeout THEN age[o] ELSE age[o] + 1]
  /\ addr' = [o \in Objs |-> IF o \in Entries THEN addr[o] ELSE None]
  /\ named' = [o \in Objs |-> o \in Entries /\ named[o]]
  /\ connected' = [o \in Objs |-> o \in Entries /\ connected[o]]
  /\ sweep' = Entries
  /\ UNCHANGED <<gone, server, clients, rx, cur, target, notice, active, record>>

(* Mutant: sending the ping counts as activity.                            *)
SweepPings_Refreshes(o) ==
  /\ running /\ target = None /\ o \in sweep /\ age[o] <= Timeout
  /\ sweep' = sweep \ {o}
  /\ age' = [age EXCEPT ![o] = 0]
  /\ UNCHANGED <<gone, server, tableVars, addr, named, connected, rx, cur, target, notice, active, record>>

(* Mutant: the timeout is a period too long.                               *)
SweepPings_OnceMore(o) ==
  /\ running /\ target = None /\ o \in sweep /\ age[o] <= Timeout + 1
  /\ sweep' = sweep \ {o}
  /\ UNCHANGED <<gone, server, tableVars, fields, rx, cur, target, notice, active, record>>

(* LastSeen is read without the lock: recent enough, and the client gets a *)
(* ping; too old, and HandleClientDisconnect is called, in a later step.   *)
SweepPings(o) ==
  /\ running /\ target = None /\ o \in sweep /\ age[o] <= Timeout
  /\ sweep' = sweep \ {o}
  /\ UNCHANGED <<gone, server, tableVars, fields, rx, cur, target, notice, active, record>>

SweepFinds(o) ==
  /\ running /\ target = None /\ o \in sweep /\ age[o] > Timeout
  /\ sweep' = sweep \ {o} /\ target' = o
  /\ UNCHANGED <<gone, server, tableVars, fields, rx, cur, notice, active, record>>

SweepDrops ==
  /\ running /\ target # None
  /\ Disconnect(target)
  /\ target' = None
  /\ IF DropCrosses THEN Crosses(addr[target]) ELSE UNCHANGED record
  /\ UNCHANGED <<gone, server, clients, addr, named, age, rx, cur, sweep>>

Sweep == SweepDrops \/ \E o \in Objs : SweepPings(o) \/ SweepFinds(o)

-----------------------------------------------------------------------------
(* server.go: the signal goroutine.  Every entry of the table is sent the  *)
(* notice (whether connected or not); then the context is cancelled, upon  *)
(* which StartWithConfig and main return, which ends the process, while    *)
(* this goroutine sleeps before its os.Exit.                               *)
Notify ==
  /\ Signals /\ server = "serving"
  /\ server' = "notified"
  /\ UNCHANGED <<gone, tableVars, fields, rx, cur, sweep, target, notice, active, record>>

Exit ==
  /\ server = "notified"
  /\ server' = "exited"
  /\ UNCHANGED <<gone, tableVars, fields, rx, cur, sweep, target, notice, active, record>>

-----------------------------------------------------------------------------
Next ==
  \/ Receiver \/ Tick \/ Sweep \/ Notify \/ Exit
  \/ \E a \in Addrs : PeerGoes(a) \/ TimerFires(a)

Spec == Init /\ [][Next]_vars

(* Fairness.  Peers owe nothing.  Goroutines run; due timers fire; and     *)
(* time passes, however many packets come (strong fairness: the receiver   *)
(* is idle again and again, not continuously).                             *)
ReceiverGoesOn ==
  Touch \/ Ignore \/ Speak \/ SetName \/ Announce \/ Welcome

Fairness ==
  /\ WF_vars(ReceiverGoesOn) /\ WF_vars(Sweep) /\ SF_vars(Tick)
  /\ \A a \in Addrs : WF_vars(TimerFires(a))

FairSpec == Spec /\ Fairness

-----------------------------------------------------------------------------
(* Properties.                                                             *)

(* Every variable holds a value of its type, the table files a struct      *)
(* under its own address, and every struct in use has one.                 *)
TypeOK ==
  /\ gone \in SUBSET Addrs
  /\ server \in {"serving", "notified", "exited"}
  /\ clients \in [Addrs -> Objs \cup {None}]
  /\ addr \in [Objs -> Addrs \cup {None}]
  /\ named \in [Objs -> BOOLEAN]
  /\ connected \in [Objs -> BOOLEAN]
  /\ age \in [Objs -> 0..(Timeout + 1)]
  /\ timers \in [Addrs -> [0..Delay -> Nat]]
  /\ rx \in RxStates
  /\ cur \in Objs \cup {None} /\ (cur = None <=> rx = "idle")
  /\ sweep \in SUBSET Objs
  /\ target \in Objs \cup {None}
  /\ notice \in [Addrs -> {"none", "joined", "left"}]
  /\ active \in Int
  /\ crossed \in SUBSET Addrs /\ crossings \in Nat
  /\ \A a \in Addrs : clients[a] # None => addr[clients[a]] = a
  /\ \A o \in Held : addr[o] \in Addrs

(* A client that has left or timed out is not forgotten in the table: as   *)
(* long as its entry is there, a removal timer for its address is pending  *)
(* (handler.go:318 "Remove client after a brief delay"), whatever timers,  *)
(* reconnections and sweeps came before.                                   *)
RemovalScheduled ==
  \A a \in Addrs :
    clients[a] # None /\ named[clients[a]] /\ ~connected[clients[a]]
      => \E k \in 0..Delay : timers[a][k] > 0

(* A client that has given its name and falls silent for good is timed     *)
(* out and its entry removed.                                              *)
GoneIsRemoved ==
  \A a \in Addrs : a \in gone ~> ~running \/ clients[a] = None \/ ~named[clients[a]]

(* Whenever no packet is being handled, ActiveClients is the number of     *)
(* connected clients, off by no more than one for each crossing            *)
(* (handler.go:201-213, 302-316).                                          *)
ActiveCountsMembers ==
  rx = "idle" => active - Cardinality(Members) \in -crossings..crossings

(* Whenever no packet is being handled, the last line broadcast about a    *)
(* client none of whose packets met a crossing says that it joined exactly *)
(* while it is connected (handler.go:211-217, 329-337).                    *)
NoticesAreTrue ==
  rx = "idle" => \A a \in Addrs \ crossed : notice[a] = "joined" <=> IsMember(a)

(* Nobody is a member after the sweep of a period though not heard of for  *)
(* more than the timeout, whatever packets, timers and removals came in    *)
(* between sweep and disconnect: silence is found by the first sweep past  *)
(* the timeout (server.go sendHeartbeats).                                 *)
SilentAreFound ==
  Quiet => \A a \in Members : age[clients[a]] <= Timeout

(* What Presence sees of the fields: the member being announced, and how   *)
(* long ago each member was heard of.                                      *)
Arriving == IF rx = "announce" THEN {addr[cur]} ELSE {}
Silence(a) == IF IsMember(a) THEN age[clients[a]] ELSE 0

Presence == INSTANCE Presence WITH
  People   <- Addrs,
  Limit    <- Timeout,
  present  <- Members,
  arriving <- Arriving,
  silent   <- [a \in Addrs |-> Silence(a)],
  told     <- notice

(* The server keeps the promise of Presence to every client none of whose  *)
(* packets has met a crossing: a member from its name packet until its     *)
(* leave packet or the sweep that finds it silent for more than the        *)
(* timeout, and no period longer, each joining and departure broadcast     *)
(* once (handleNameResponse, HandleClientDisconnect, sendHeartbeats).      *)
ImplementsPresence ==
  Presence!Init /\ [][\A a \in Addrs \ crossed' : Presence!Step(a)]_vars

-----------------------------------------------------------------------------
(* What comments of the code say and the code does not do.                 *)

(* server.go:195 "If client hasn't responded for too long, mark as         *)
(* disconnected": a connected client the sweep is about to disconnect has  *)
(* not been heard of for the timeout.                                      *)
TimeoutMeansSilent ==
  target # None /\ connected[target] => age[target] > Timeout

(* handler.go:318 "Remove client after a brief delay to allow for possible *)
(* reconnection": an entry is removed by the timer of the last departure,  *)
(* not by an older one while a younger is pending.                         *)
RemovalDelayed ==
  [][\A a \in Addrs :
       clients[a] # None /\ clients'[a] = None => \A k \in 1..Delay : timers[a][k] = 0]_vars

(* handler.go:48 "Timeout for disconnecting inactive clients": an address  *)
(* that has fallen silent loses its entry.                                 *)
InactiveForgotten ==
  \A a \in Addrs : a \in gone ~> ~running \/ clients[a] = None
==============================================================================
