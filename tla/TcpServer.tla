------------------------------ MODULE TcpServer ------------------------------
(***************************************************************************)
(* The TCP chat server: the accept loop and signal goroutine of            *)
(* tcp/server/server.go, the connection handler, heartbeat goroutine,      *)
(* client registry and broadcast of tcp/server/handler.go, and the         *)
(* active-connection counter of tcp/metrics/metrics.go.                    *)
(*                                                                         *)
(* A step is what one goroutine does between two points where another can  *)
(* run: a critical section of clientsMutex, one socket read, one socket    *)
(* write.  A broadcast is one step per recipient, under the read lock.     *)
(*                                                                         *)
(* Abstractions.  A connection is used once, so its nickname, set once by  *)
(* its handler, is a function of the connection: "the name of c" is        *)
(* written c, and `clients`, a map from connections to names, is its       *)
(* domain.  A line a peer sends is reduced to the branch it takes.  Lines  *)
(* written to a peer are kept as a set, so no bound on chat is needed.     *)
(* Of the metrics, ActiveConnections is kept; the other counters feed only *)
(* the printed report.                                                     *)
(***************************************************************************)
EXTENDS Integers, FiniteSets

CONSTANTS
  Conns,   \* the connections peers may open, each accepted at most once
  NoProc,  \* value of `writer` when nobody holds the write lock
  Signals, \* whether SIGINT or SIGTERM may arrive
  SlowReaders  \* whether a write to a live peer may meet its five-second deadline

(* A connection handler runs in two goroutines: the handler itself and,    *)
(* once the client has joined, its heartbeat.                              *)
Main(c) == <<"main", c>>
Beat(c) == <<"beat", c>>
Procs == {"main", "beat"} \X Conns

ASSUME NoProcAssumption == NoProc \notin Procs
ASSUME ConnsAssumption == IsFiniteSet(Conns)
ASSUME SwitchAssumption == Signals \in BOOLEAN /\ SlowReaders \in BOOLEAN

VARIABLES
  peer,      \* the remote end of each connection: "up", or "gone" (closed or lost)
  server,    \* the main and signal goroutines: see ServerStates
  pc,        \* where the handler goroutine of each connection is
  beat,      \* where its heartbeat goroutine is
  attempts,  \* naming lines rejected so far, while naming
  stopped,   \* the handler's `done` channel is closed
  clients,   \* the registry: connections with an entry in the map
  readers,   \* handlers that hold clientsMutex for reading
  writer,    \* the goroutine that holds clientsMutex for writing
  todo,      \* recipients a broadcast or leave notice has still to write to
  inbox,     \* chat lines written successfully to each peer
  active     \* ServerMetrics.ActiveConnections

lockVars == <<readers, writer>>
vars == <<peer, server, pc, beat, attempts, stopped,
          clients, readers, writer, todo, inbox, active>>

-----------------------------------------------------------------------------
(* Program counters.                                                       *)

HandlerStates ==
  { "off",                  \* not accepted
    "naming",               \* reading the nickname line
    "register",             \* about to lock and enter the registry
    "announce", "joining",  \* waiting for the read lock; broadcasting the join
    "welcome",              \* about to write the welcome and start the heartbeat
    "loop", "reading",      \* top of the message loop; in ReadString
    "speak", "speaking",    \* waiting for the read lock; broadcasting a chat line
    "drop", "dropping",     \* closeConnection: waiting for the lock; notifying
    "closing", "cleanup",   \* the deferred function: conn.Close; locked section
    "done" }

BeatStates == { "off", "select", "ping", "drop", "dropping", "ended" }

ServerStates ==
  { "serving",
    "cancelled",     \* context cancelled, accept loop not yet aware of it
    "returned",      \* the accept loop has returned, the process has not ended
    "exited" }       \* ended, by main's return or by os.Exit

ctxDone == server # "serving"
running == server # "exited"

(* Lines other clients see: kind, and the connection they come from or are *)
(* about.  The text of a "left" line shows another name, its reader's own: *)
(* closeConnection's loop variable shadows its parameter `name`.           *)
Lines == [kind : {"joined", "chat", "left"}, of : Conns]

Joined(c) == [kind |-> "joined", of |-> c]
Chat(c)   == [kind |-> "chat",   of |-> c]
Left(c)   == [kind |-> "left",   of |-> c]

(* The server side of c has been closed by the handler's deferred function. *)
Closed(c) == pc[c] \in {"cleanup", "done"}

Reachable(r) == peer[r] = "up" /\ ~Closed(r)

CanRLock == writer = NoProc

(* Mutant: a writer that does not wait for the readers.                    *)
CanLock_IgnoresReaders == writer = NoProc

CanLock  == writer = NoProc /\ readers = {}

(* Mutant: a goroutine ranging over the map does not pass over c.          *)
Others_AndSelf(c) == clients

Others(c) == clients \ {c}

(* Steps that only move one goroutine on.                                  *)
Moves(c, from, to) ==
  /\ running /\ pc[c] = from /\ pc' = [pc EXCEPT ![c] = to]
  /\ UNCHANGED <<peer, server, beat, attempts, stopped, clients, lockVars, todo, inbox, active>>

BeatMoves(c, from, to) ==
  /\ running /\ beat[c] = from /\ beat' = [beat EXCEPT ![c] = to]
  /\ UNCHANGED <<peer, server, pc, attempts, stopped, clients, lockVars, todo, inbox, active>>

-----------------------------------------------------------------------------
(* ServerMetrics: ActiveConnections.                                       *)

ClientConnected == active' = active + 1

ClientDisconnected == active' = active - 1

-----------------------------------------------------------------------------
Init ==
  /\ peer = [c \in Conns |-> "up"]
  /\ server = "serving"
  /\ pc = [c \in Conns |-> "off"]
  /\ beat = [c \in Conns |-> "off"]
  /\ attempts = [c \in Conns |-> 0]
  /\ stopped = [c \in Conns |-> FALSE]
  /\ clients = {}
  /\ readers = {}
  /\ writer = NoProc
  /\ todo = [p \in Procs |-> {}]
  /\ inbox = [c \in Conns |-> {}]
  /\ active = 0

-----------------------------------------------------------------------------
(* The peers.                                                              *)

(* A client process ends, closes its socket or is cut off.                 *)
PeerLeaves(c) ==
  /\ running /\ peer[c] = "up" /\ pc[c] \notin {"off", "done"}
  /\ peer' = [peer EXCEPT ![c] = "gone"]
  /\ UNCHANGED <<server, pc, beat, attempts, stopped, clients, lockVars, todo, inbox, active>>

-----------------------------------------------------------------------------
(* server.go: the accept loop and the signal goroutine.                    *)

(* Accept returns a connection.  The listener stays open between cancel()  *)
(* and listener.Close(), so one more connection can arrive then; coming    *)
(* round, the loop sees the cancelled context and Start returns.           *)
Accept(c) ==
  /\ server \in {"serving", "cancelled"}
  /\ pc[c] = "off"
  /\ ClientConnected
  /\ pc' = [pc EXCEPT ![c] = "naming"]
  /\ server' = IF ctxDone THEN "returned" ELSE server
  /\ UNCHANGED <<peer, beat, attempts, stopped, clients, lockVars, todo, inbox>>

Proceeds(from, to) ==
  /\ server \in from /\ server' = to
  /\ UNCHANGED <<peer, pc, beat, attempts, stopped, clients, lockVars, todo, inbox, active>>

(* The signal goroutine cancels the context and closes the listener.       *)
Cancel == Signals /\ Proceeds({"serving"}, "cancelled")

(* The process ends: the goroutine sleeps 500 ms and calls os.Exit, or, in *)
(* the meantime, the accept loop, woken by its deadline or the closed      *)
(* listener, sees the cancelled context, and Start and main return.        *)
Exit == Proceeds({"cancelled", "returned"}, "exited")

-----------------------------------------------------------------------------
(* handler.go: reading the nickname.                                       *)

(* Mutant: off by one, a fourth line is read.                              *)
MaxAttempts_Four == 4

MaxAttempts == 3

(* The peer closed, or 60 s passed since the connection was accepted.      *)
NameReadFails(c) ==
  /\ running /\ pc[c] = "naming"
  /\ ClientDisconnected
  /\ attempts' = [attempts EXCEPT ![c] = 0]
  /\ pc' = [pc EXCEPT ![c] = "closing"]
  /\ UNCHANGED <<peer, server, beat, stopped, clients, lockVars, todo, inbox>>

NameAccepted(c) ==
  /\ running /\ pc[c] = "naming" /\ peer[c] = "up"
  /\ attempts' = [attempts EXCEPT ![c] = 0]
  /\ pc' = [pc EXCEPT ![c] = "register"]
  /\ UNCHANGED <<peer, server, beat, stopped, clients, lockVars, todo, inbox, active>>

NameRejected(c) ==
  /\ running /\ pc[c] = "naming" /\ peer[c] = "up"
  /\ IF attempts[c] + 1 < MaxAttempts
       THEN attempts' = [attempts EXCEPT ![c] = @ + 1] /\ UNCHANGED pc
       ELSE attempts' = [attempts EXCEPT ![c] = 0] /\ pc' = [pc EXCEPT ![c] = "closing"]
  /\ UNCHANGED <<peer, server, beat, stopped, clients, lockVars, todo, inbox, active>>

-----------------------------------------------------------------------------
(* handler.go: joining.                                                    *)

(* Mutant: the heartbeat is started before the join is announced.          *)
Register_WithHeartbeat(c) ==
  /\ running /\ pc[c] = "register" /\ CanLock
  /\ clients' = clients \cup {c}
  /\ pc' = [pc EXCEPT ![c] = "announce"]
  /\ beat' = [beat EXCEPT ![c] = "select"]
  /\ UNCHANGED <<peer, server, attempts, stopped, lockVars, todo, inbox, active>>

Register(c) ==
  /\ running /\ pc[c] = "register" /\ CanLock
  /\ clients' = clients \cup {c}
  /\ pc' = [pc EXCEPT ![c] = "announce"]
  /\ UNCHANGED <<peer, server, beat, attempts, stopped, lockVars, todo, inbox, active>>

(* broadcastMessage takes the read lock and ranges over the map.           *)
BroadcastStarts(c) ==
  /\ running /\ pc[c] \in {"announce", "speak"} /\ CanRLock
  /\ readers' = readers \cup {c}
  /\ todo' = [todo EXCEPT ![Main(c)] = Others(c)]
  /\ pc' = [pc EXCEPT ![c] = IF pc[c] = "announce" THEN "joining" ELSE "speaking"]
  /\ UNCHANGED <<peer, server, beat, attempts, stopped, clients, writer, inbox, active>>

(* One recipient: the write fails if the peer is gone, if its own handler  *)
(* has closed the socket, or if it does not drain within five seconds; a   *)
(* failure is only counted and the loop goes on.                           *)
BroadcastTo(c, r) ==
  /\ running /\ pc[c] \in {"joining", "speaking"} /\ r \in todo[Main(c)]
  /\ todo' = [todo EXCEPT ![Main(c)] = @ \ {r}]
  /\ \/ /\ Reachable(r)
        /\ inbox' = [inbox EXCEPT ![r] =
                       @ \cup {IF pc[c] = "joining" THEN Joined(c) ELSE Chat(c)}]
     \/ (SlowReaders \/ ~Reachable(r)) /\ UNCHANGED inbox
  /\ UNCHANGED <<peer, server, pc, beat, attempts, stopped, clients, lockVars, active>>

(* Mutant: the read lock is not released.                                  *)
BroadcastEnds_KeepsLock(c) ==
  todo[Main(c)] = {} /\ (Moves(c, "joining", "welcome") \/ Moves(c, "speaking", "loop"))

BroadcastEnds(c) ==
  /\ running /\ pc[c] \in {"joining", "speaking"} /\ todo[Main(c)] = {}
  /\ readers' = readers \ {c}
  /\ pc' = [pc EXCEPT ![c] = IF pc[c] = "joining" THEN "welcome" ELSE "loop"]
  /\ UNCHANGED <<peer, server, beat, attempts, stopped, clients, writer, todo, inbox, active>>

(* The welcome line, then `go func()`: the heartbeat goroutine starts.     *)
Welcome(c) ==
  /\ running /\ pc[c] = "welcome"
  /\ pc' = [pc EXCEPT ![c] = "loop"]
  /\ beat' = [beat EXCEPT ![c] = "select"]
  /\ UNCHANGED <<peer, server, attempts, stopped, clients, lockVars, todo, inbox, active>>

-----------------------------------------------------------------------------
(* handler.go: the message loop.                                           *)

(* The select at the top: the context is looked at here and nowhere else,  *)
(* so a handler inside ReadString does not notice a shutdown.              *)
LoopTop(c) == Moves(c, "loop", IF ctxDone THEN "closing" ELSE "reading")

(* A /pong, skipped, or a /ping, answered.                                 *)
ReadControl(c) == peer[c] = "up" /\ Moves(c, "reading", "loop")

ReadChat(c) == peer[c] = "up" /\ Moves(c, "reading", "speak")

(* End of file, a reset, or 60 s without a line.                           *)
ReadFails(c) == Moves(c, "reading", "drop")

-----------------------------------------------------------------------------
(* handler.go: the heartbeat goroutine.                                    *)

(* The context is cancelled or the handler has closed `done`.              *)
BeatStops(c) == (ctxDone \/ stopped[c]) /\ BeatMoves(c, "select", "ended")

(* The ticker fires; under the read lock, is the client still registered?  *)
BeatTicks(c) == CanRLock /\ BeatMoves(c, "select", IF c \in clients THEN "ping" ELSE "ended")

(* The ping, too, is written with a five-second deadline.  A write to a    *)
(* peer that is gone may still succeed, into the socket's buffer.          *)
BeatPings(c) ==
  \/ ~Closed(c) /\ BeatMoves(c, "ping", "select")
  \/ (SlowReaders \/ ~Reachable(c)) /\ BeatMoves(c, "ping", "drop")

-----------------------------------------------------------------------------
(* handler.go: closeConnection(c, name, true), run by the handler after a  *)
(* failed read and by the heartbeat after a failed ping.  It takes the     *)
(* write lock, and only if c is still registered removes and counts it and *)
(* writes a notice to everyone left, ignoring the error.  The notice has   *)
(* no deadline of its own, but meets the one a heartbeat has set on the    *)
(* same connection.  It does not close the connection.                     *)

(* Mutant: an early return where the notices should be.                    *)
CloseStarts_Quietly(p, c) ==
  /\ CanLock
  /\ clients' = clients \ {c}
  /\ IF c \in clients
       THEN ClientDisconnected /\ writer' = p
       ELSE UNCHANGED <<active, writer>>
  /\ UNCHANGED <<todo, readers>>

(* Mutant: the write lock is released before the notices are written.      *)
CloseStarts_Unlocked(p, c) ==
  /\ CanLock
  /\ clients' = clients \ {c}
  /\ IF c \in clients
       THEN ClientDisconnected /\ todo' = [todo EXCEPT ![p] = Others(c)]
       ELSE UNCHANGED <<active, todo>>
  /\ UNCHANGED lockVars

CloseStarts(p, c) ==
  /\ CanLock
  /\ clients' = clients \ {c}
  /\ IF c \in clients
       THEN /\ ClientDisconnected
            /\ writer' = p
            /\ todo' = [todo EXCEPT ![p] = Others(c)]
       ELSE UNCHANGED <<active, writer, todo>>
  /\ UNCHANGED readers

CloseNotifies(p, c, r) ==
  /\ r \in todo[p]
  /\ todo' = [todo EXCEPT ![p] = @ \ {r}]
  /\ \/ Reachable(r) /\ inbox' = [inbox EXCEPT ![r] = @ \cup {Left(c)}]
     \/ (~Reachable(r) \/ (SlowReaders /\ beat[r] = "ping")) /\ UNCHANGED inbox
  /\ UNCHANGED <<peer, server, pc, beat, attempts, stopped, clients, lockVars, active>>

HandlerDrops(c) ==
  /\ running /\ pc[c] = "drop"
  /\ CloseStarts(Main(c), c)
  /\ IF c \in clients
       THEN /\ pc' = [pc EXCEPT ![c] = "dropping"]
            /\ UNCHANGED stopped
       ELSE /\ pc' = [pc EXCEPT ![c] = "closing"]
            /\ stopped' = [stopped EXCEPT ![c] = TRUE]
  /\ UNCHANGED <<peer, server, beat, attempts, inbox>>

HandlerNotifies(c, r) ==
  /\ running /\ pc[c] = "dropping"
  /\ CloseNotifies(Main(c), c, r)

(* closeConnection returns; the handler closes `done` and returns too.     *)
HandlerDropped(c) ==
  /\ running /\ pc[c] = "dropping" /\ todo[Main(c)] = {}
  /\ writer' = NoProc
  /\ stopped' = [stopped EXCEPT ![c] = TRUE]
  /\ pc' = [pc EXCEPT ![c] = "closing"]
  /\ UNCHANGED <<peer, server, beat, attempts, clients, readers, todo, inbox, active>>

BeatDrops(c) ==
  /\ running /\ beat[c] = "drop"
  /\ CloseStarts(Beat(c), c)
  /\ beat' = [beat EXCEPT ![c] = IF c \in clients THEN "dropping" ELSE "ended"]
  /\ UNCHANGED <<peer, server, pc, attempts, stopped, inbox>>

BeatNotifies(c, r) ==
  /\ running /\ beat[c] = "dropping"
  /\ CloseNotifies(Beat(c), c, r)

BeatDropped(c) ==
  /\ running /\ beat[c] = "dropping" /\ todo[Beat(c)] = {}
  /\ writer' = NoProc
  /\ beat' = [beat EXCEPT ![c] = "ended"]
  /\ UNCHANGED <<peer, server, pc, attempts, stopped, clients, readers, todo, inbox, active>>

-----------------------------------------------------------------------------
(* handler.go: the deferred function, run however the handler returns.     *)

CloseConn(c) == Moves(c, "closing", "cleanup")

(* Mutant: only a connection that is still registered is counted.          *)
Cleanup_CountsEntries(c) ==
  /\ running /\ pc[c] = "cleanup" /\ CanLock
  /\ clients' = clients \ {c}
  /\ IF c \in clients THEN ClientDisconnected ELSE UNCHANGED active
  /\ pc' = [pc EXCEPT ![c] = "done"]
  /\ UNCHANGED <<peer, server, beat, attempts, stopped, lockVars, todo, inbox>>

(* Mutant: the entry stays in the map.                                     *)
Cleanup_KeepsEntry(c) ==
  /\ running /\ pc[c] = "cleanup" /\ CanLock
  /\ ClientDisconnected
  /\ pc' = [pc EXCEPT ![c] = "done"]
  /\ UNCHANGED <<peer, server, beat, attempts, stopped, clients, lockVars, todo, inbox>>

Cleanup(c) ==
  /\ running /\ pc[c] = "cleanup" /\ CanLock
  /\ clients' = clients \ {c}
  /\ ClientDisconnected
  /\ pc' = [pc EXCEPT ![c] = "done"]
  /\ UNCHANGED <<peer, server, beat, attempts, stopped, lockVars, todo, inbox>>

-----------------------------------------------------------------------------
Server == Cancel \/ Exit

Handler(c) ==
  \/ NameReadFails(c) \/ NameAccepted(c) \/ NameRejected(c)
  \/ Register(c) \/ BroadcastStarts(c) \/ BroadcastEnds(c) \/ Welcome(c)
  \/ LoopTop(c) \/ ReadControl(c) \/ ReadChat(c) \/ ReadFails(c)
  \/ HandlerDrops(c) \/ HandlerDropped(c) \/ CloseConn(c) \/ Cleanup(c)
  \/ \E r \in Conns : BroadcastTo(c, r) \/ HandlerNotifies(c, r)

Heartbeat(c) ==
  \/ BeatStops(c) \/ BeatTicks(c) \/ BeatPings(c) \/ BeatDrops(c) \/ BeatDropped(c)
  \/ \E r \in Conns : BeatNotifies(c, r)

Next ==
  \/ Server
  \/ \E c \in Conns : Accept(c) \/ PeerLeaves(c) \/ Handler(c) \/ Heartbeat(c)

Spec == Init /\ [][Next]_vars

(* Fairness.  Peers and the operator owe nothing.  Every read ends, by its *)
(* deadline if nothing else.  Goroutines blocked on clientsMutex get it:   *)
(* sync.RWMutex lets no new reader past a waiting writer and admits the    *)
(* waiting readers when a writer leaves, hence strong fairness.  Writes    *)
(* end: by their deadline, or, without one, because peers drain (a peer    *)
(* that never does is out of this module).                                 *)
HandlerUnblocked(c) ==
  \/ NameReadFails(c) \/ BroadcastEnds(c) \/ Welcome(c) \/ LoopTop(c) \/ ReadFails(c)
  \/ HandlerDropped(c) \/ CloseConn(c)
  \/ \E r \in Conns : BroadcastTo(c, r) \/ HandlerNotifies(c, r)

HandlerLocks(c) == Register(c) \/ BroadcastStarts(c) \/ HandlerDrops(c) \/ Cleanup(c)

BeatUnblocked(c) ==
  BeatStops(c) \/ BeatPings(c) \/ BeatDropped(c) \/ \E r \in Conns : BeatNotifies(c, r)

Fairness ==
  \A c \in Conns :
    /\ WF_vars(HandlerUnblocked(c)) /\ SF_vars(HandlerLocks(c))
    /\ WF_vars(BeatUnblocked(c)) /\ SF_vars(BeatDrops(c))

FairSpec == Spec /\ Fairness

-----------------------------------------------------------------------------
(* Properties.                                                             *)

(* Every variable holds a value of its type.                               *)
TypeOK ==
  /\ peer \in [Conns -> {"up", "gone"}]
  /\ server \in ServerStates
  /\ pc \in [Conns -> HandlerStates]
  /\ beat \in [Conns -> BeatStates]
  /\ attempts \in [Conns -> 0..2]
  /\ stopped \in [Conns -> BOOLEAN]
  /\ clients \in SUBSET Conns
  /\ readers \in SUBSET Conns
  /\ writer \in Procs \cup {NoProc}
  /\ todo \in [Procs -> SUBSET Conns]
  /\ inbox \in [Conns -> SUBSET Lines]
  /\ active \in Int

(* The registry holds only connections whose handler has joined and not    *)
(* finished: the deferred function of handleConnection leaves no entry of  *)
(* a finished handler behind, on any of its four return paths.             *)
RegistryMatchesHandlers ==
  \A c \in clients : pc[c] \notin {"off", "naming", "register", "dropping", "done"}

(* A broadcast or a leave notice is only ever written to connections that  *)
(* are registered at that moment (the loops of broadcastMessage and        *)
(* closeConnection hold clientsMutex from the range to the last write).    *)
RecipientsRegistered ==
  \A p \in Procs : todo[p] \subseteq clients

(* The map never changes while a goroutine is ranging over it, which in Go *)
(* is a fatal error ("concurrent map iteration and map write").            *)
Ranging == \E c \in Conns : pc[c] \in {"joining", "speaking", "dropping"} \/ beat[c] = "dropping"

MapStableWhileRanged ==
  [][Ranging => clients' = clients]_vars

(* Nobody hears that c joined after hearing it speak or hearing it leave:  *)
(* handler and heartbeat of c write their lines in the order of c's        *)
(* session, whatever other broadcasts do in between.                       *)
JoinHeardFirst ==
  [][\A c, r \in Conns :
       Joined(c) \in inbox'[r] \ inbox[r] => \A l \in inbox[r] : l.of # c]_vars

(* No phantom members: outside a shutdown, whoever heard c join, is still  *)
(* registered and connected, has also been told that somebody left by the  *)
(* time c's handler is done (closeConnection notifies under the lock).     *)
(* Only with peers that drain: a slow one can lose the notice.             *)
NoPhantomMember ==
  \A c, r \in Conns :
    /\ pc[c] = "done" /\ ~ctxDone
    /\ Joined(c) \in inbox[r] /\ r \in clients /\ peer[r] = "up"
    => \E l \in inbox[r] : l.kind = "left" /\ l.of = c

(* ServerMetrics.ActiveConnections never claims more connections than have *)
(* a live handler: each connection is counted as disconnected at least     *)
(* once (it may be counted twice, see ActiveReturnsToZero).                *)
ActiveNeverOverstated ==
  active <= Cardinality({c \in Conns : pc[c] \notin {"off", "done"}})

(* A client that goes away is found out (handler.go:21 "Timeout period for *)
(* detecting dead connections") and its handler finishes, so its registry  *)
(* entry and goroutines do not leak.                                       *)
GoneIsForgotten ==
  \A c \in Conns :
    peer[c] = "gone" ~> ~running \/ (pc[c] = "done" /\ c \notin clients /\ beat[c] \in {"off", "ended"})

-----------------------------------------------------------------------------
(* The room that the server implements.                                    *)

(* Where ChatRoom sees c.  The heartbeat, started after the announcement   *)
(* and never set back, tells one who has left from one who never joined.   *)
RoomStatus(c) ==
  CASE c \in clients /\ pc[c] = "announce" -> "arrived"
    [] c \in clients /\ pc[c] # "announce" -> "member"
    [] c \notin clients /\ beat[c] # "off" -> "left"
    [] OTHER                               -> "outside"

(* Who has still to be told a line: the recipients left to the goroutine   *)
(* that is writing it.                                                     *)
StillToTell(l) ==
  CASE l.kind = "joined" -> IF pc[l.of] = "joining" THEN todo[Main(l.of)] ELSE {}
    [] l.kind = "chat"   -> IF pc[l.of] = "speaking" THEN todo[Main(l.of)] ELSE {}
    [] l.kind = "left"   -> (IF pc[l.of] = "dropping" THEN todo[Main(l.of)] ELSE {})
                            \cup todo[Beat(l.of)]

Room == INSTANCE ChatRoom WITH
  People  <- Conns,
  status  <- [c \in Conns |-> RoomStatus(c)],
  telling <- [l \in Lines |-> StillToTell(l)],
  heard   <- inbox,
  open    <- ~ctxDone

(* The server implements the chat room: seen through the registry and the  *)
(* broadcasts under way, every step of its goroutines is a step of the     *)
(* room or none at all.                                                    *)
ImplementsRoom == Room!Spec

-----------------------------------------------------------------------------
(* What comments of the code say and the code does not do.                 *)

(* metrics.go:48 says ClientDisconnected "decrements active connection     *)
(* counter when a client disconnects": with no connection left it is 0.    *)
ActiveReturnsToZero ==
  (\A c \in Conns : pc[c] \in {"off", "done"}) => active = 0

(* handler.go:208 "closeConnection handles client disconnection cleanly":  *)
(* once it has removed and announced a client, that client no longer       *)
(* speaks in the room.                                                     *)
SpeakerIsRegistered ==
  \A c \in Conns : pc[c] = "speaking" => c \in clients
==============================================================================
