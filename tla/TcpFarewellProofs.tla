-------------------------- MODULE TcpFarewellProofs --------------------------
(***************************************************************************)
(* No phantom members in the TCP chat room: whoever heard a client join    *)
(* hears it leave, for any finite set of connections whose peers drain.    *)
(***************************************************************************)
EXTENDS TcpRoomProofs

(* r, who heard c join, is or will be told that c left: c is still         *)
(* registered, or r is among those whom the goroutine that removed c has   *)
(* yet to write to, or r has been told.                                    *)
FarewellComes(c, r) ==
  \/ c \in clients
  \/ pc[c] = "dropping" /\ r \in todo[Main(c)]
  \/ r \in todo[Beat(c)]
  \/ Left(c) \in inbox[r]

(* So it is outside a shutdown, for everybody registered and connected.    *)
Farewells ==
  ~ctxDone =>
    \A c, r \in Conns :
      Joined(c) \in inbox[r] /\ r \in clients /\ peer[r] = "up" => FarewellComes(c, r)

(* Who has not registered has heard nothing, so that nobody comes into the *)
(* registry having missed a farewell.                                      *)
NewcomersHeardNothing ==
  \A r \in Conns : pc[r] \in {"off", "naming", "register"} => inbox[r] = {}

(* The handler does not finish while the heartbeat writes the notices,     *)
(* under the lock that the deferred function takes.                        *)
NoticesOutlived == \A c \in Conns : beat[c] = "dropping" => pc[c] # "done"

FarewellInv == Farewells /\ NewcomersHeardNothing /\ NoticesOutlived

-----------------------------------------------------------------------------
(* Nobody comes back up, and a shutdown is not taken back.                 *)
LEMMA PeersOnlyGo ==
  ASSUME TypeOK, [Next]_vars, NEW r \in Conns, peer'[r] = "up" PROVE peer[r] = "up"
<1>1. peer' = peer \/ \E c \in Conns : PeerLeaves(c)
  BY DEF Next, vars, Server, Cancel, Exit, Proceeds, Accept,
         Handler, NameReadFails, NameAccepted, NameRejected, Register, BroadcastStarts, BroadcastTo,
         BroadcastEnds, Welcome, LoopTop, ReadControl, ReadChat, ReadFails, CloseConn, Moves,
         HandlerDrops, HandlerDropped, Cleanup, HandlerNotifies, CloseNotifies,
         Heartbeat, BeatStops, BeatTicks, BeatPings, BeatMoves, BeatDrops, BeatDropped, BeatNotifies
<1> QED
  BY <1>1 DEF PeerLeaves, TypeOK

LEMMA ShutdownStays == [Next]_vars /\ ~ctxDone' => ~ctxDone
<1>1. [Next]_vars => server' = server \/ Server \/ \E c \in Conns : Accept(c)
  BY DEF Next, vars, PeerLeaves,
         Handler, NameReadFails, NameAccepted, NameRejected, Register, BroadcastStarts, BroadcastTo,
         BroadcastEnds, Welcome, LoopTop, ReadControl, ReadChat, ReadFails, CloseConn, Moves,
         HandlerDrops, HandlerDropped, Cleanup, HandlerNotifies, CloseNotifies,
         Heartbeat, BeatStops, BeatTicks, BeatPings, BeatMoves, BeatDrops, BeatDropped, BeatNotifies
<1> QED
  BY <1>1 DEF Server, Cancel, Exit, Proceeds, Accept, ctxDone

(* Steps that change neither registry nor recipients nor what was heard,   *)
(* and end no leave notice that has still to be written.                   *)
LEMMA FarewellKept ==
  ASSUME NEW c \in Conns, NEW r \in Conns, FarewellComes(c, r),
         clients \subseteq clients', todo' = todo, inbox' = inbox,
         pc[c] = "dropping" /\ r \in todo[Main(c)] => pc'[c] = "dropping"
  PROVE  FarewellComes(c, r)'
BY DEF FarewellComes

(* A leave notice about d is written to s, or missed by s, who is gone.    *)
LEMMA FarewellTold ==
  ASSUME ~SlowReaders, RoomInv, AllPlaced, ~ctxDone,
         NEW d \in Conns, NEW s \in Conns, NEW p \in Procs, p \in {Main(d), Beat(d)},
         CloseNotifies(p, d, s),
         NEW c \in Conns, NEW r \in Conns, r \in clients, peer[r] = "up", FarewellComes(c, r)
  PROVE  FarewellComes(c, r)'
<1>1. /\ s \in todo[p] /\ todo' = [todo EXCEPT ![p] = @ \ {s}]
      /\ \/ inbox' = [inbox EXCEPT ![s] = @ \cup {Left(d)}]
         \/ ~Reachable(s) /\ inbox' = inbox
      /\ UNCHANGED <<pc, clients>>
  BY DEF CloseNotifies
<1>t. todo \in [Procs -> SUBSET Conns] /\ inbox \in [Conns -> SUBSET Lines]
  BY DEF RoomInv, TypeOK
<1>2. Reachable(r)
  BY DEF AllPlaced, Placed, RoomInv, RegistryMatchesHandlers, Reachable, Closed
<1>3. inbox[r] \subseteq inbox'[r]
  BY <1>1, <1>t
<1>4. CASE s = r /\ d = c
  <2>1. Left(c) \in inbox'[r]
    BY <1>1, <1>2, <1>4, <1>t
  <2> QED
    BY <2>1 DEF FarewellComes
<1>5. CASE s # r
  <2>1. \A q \in Procs : r \in todo[q] => r \in todo'[q]
    BY <1>1, <1>5, <1>t
  <2> QED
    BY <1>1, <1>3, <2>1, ProcsDistinct DEF FarewellComes
<1>6. CASE d # c
  <2>1. todo'[Main(c)] = todo[Main(c)] /\ todo'[Beat(c)] = todo[Beat(c)]
    BY <1>1, <1>6, <1>t, ProcsDistinct
  <2> QED
    BY <1>1, <1>3, <2>1 DEF FarewellComes
<1> QED
  BY <1>4, <1>5, <1>6

(* The goroutine that takes c out of the registry has everybody left to    *)
(* tell.                                                                   *)
LEMMA FarewellStarts ==
  ASSUME RoomInv, NEW d \in Conns, HandlerDrops(d) \/ BeatDrops(d),
         NEW c \in Conns, NEW r \in Conns, r \in clients', FarewellComes(c, r)
  PROVE  FarewellComes(c, r)'
<1>t. todo \in [Procs -> SUBSET Conns] /\ pc \in [Conns -> HandlerStates]
  BY DEF RoomInv, TypeOK
<1>1. CanLock /\ clients' = clients \ {d} /\ inbox' = inbox
  BY DEF HandlerDrops, BeatDrops, CloseStarts
<1>2. todo[Main(c)] = {} /\ todo[Beat(c)] = {}
  BY <1>1, LockMeansStill, ProcsDistinct DEF RoomInv
<1>3. c \in clients \/ Left(c) \in inbox[r]
  BY <1>2 DEF FarewellComes
<1>4. CASE Left(c) \in inbox[r] \/ (c \in clients /\ c # d)
  BY <1>1, <1>4 DEF FarewellComes
<1>5. CASE c \in clients /\ c = d
  <2>1. r \in clients \ {c}
    BY <1>1, <1>5
  <2>2. CASE HandlerDrops(c)
    <3>1. pc'[c] = "dropping" /\ todo'[Main(c)] = clients \ {c}
      BY <1>5, <2>2, <1>t, ProcsDistinct DEF HandlerDrops, CloseStarts, Others
    <3> QED
      BY <2>1, <3>1 DEF FarewellComes
  <2>3. CASE BeatDrops(c)
    <3>1. todo'[Beat(c)] = clients \ {c}
      BY <1>5, <2>3, <1>t, ProcsDistinct DEF BeatDrops, CloseStarts, Others
    <3> QED
      BY <2>1, <3>1 DEF FarewellComes
  <2> QED
    BY <1>5, <2>2, <2>3
<1> QED
  BY <1>3, <1>4, <1>5

(* A broadcast starts, or reaches one recipient.                           *)
LEMMA FarewellDuringBroadcast ==
  ASSUME RoomInv, AllPlaced, NEW d \in Conns, NEW s \in Conns, BroadcastStarts(d) \/ BroadcastTo(d, s),
         NEW c \in Conns, NEW r \in Conns, Joined(c) \in inbox[r] => FarewellComes(c, r),
         Joined(c) \in inbox'[r]
  PROVE  FarewellComes(c, r)'
<1>t. /\ todo \in [Procs -> SUBSET Conns] /\ pc \in [Conns -> HandlerStates]
      /\ inbox \in [Conns -> SUBSET Lines]
  BY DEF RoomInv, TypeOK
<1>1. /\ clients' = clients /\ pc[d] # "dropping"
      /\ \A b \in Conns : b # d => pc'[b] = pc[b]
      /\ \A q \in Procs : q # Main(d) => todo'[q] = todo[q]
  BY <1>t DEF BroadcastStarts, BroadcastTo
<1>2. inbox[r] \subseteq inbox'[r]
  BY <1>t DEF BroadcastStarts, BroadcastTo
<1>3. CASE Joined(c) \in inbox[r]
  BY <1>1, <1>2, <1>3, ProcsDistinct DEF FarewellComes
<1>4. CASE Joined(c) \notin inbox[r]
  <2>1. inbox' # inbox
    BY <1>4
  <2>2. /\ inbox' = [inbox EXCEPT ![s] = @ \cup {IF pc[d] = "joining" THEN Joined(d) ELSE Chat(d)}]
        /\ BroadcastTo(d, s)
    BY <2>1 DEF BroadcastStarts, BroadcastTo
  <2>3. Joined(c) = IF pc[d] = "joining" THEN Joined(d) ELSE Chat(d)
    BY <1>4, <1>t, <2>2
  <2>4. c = d /\ pc[d] = "joining"
    BY <2>3 DEF Joined, Chat
  <2>5. c \in clients
    BY <2>4 DEF AllPlaced, Placed
  <2> QED
    BY <1>1, <2>5 DEF FarewellComes
<1> QED
  BY <1>3, <1>4

(* A step keeps farewells coming.                                          *)
LEMMA FarewellStep ==
  ASSUME ~SlowReaders, RoomInv, AllPlaced, FarewellInv, [Next]_vars PROVE Farewells'
<1> SUFFICES ASSUME ~ctxDone', NEW c \in Conns, NEW r \in Conns,
                    Joined(c) \in inbox'[r], r \in clients', peer'[r] = "up"
             PROVE  FarewellComes(c, r)'
  BY DEF Farewells
<1>t. /\ todo \in [Procs -> SUBSET Conns] /\ pc \in [Conns -> HandlerStates]
      /\ clients \subseteq Conns
  BY DEF RoomInv, TypeOK
<1>s. ~ctxDone /\ peer[r] = "up"
  BY ShutdownStays, PeersOnlyGo DEF RoomInv
<1>f. Joined(c) \in inbox[r] /\ r \in clients => FarewellComes(c, r)
  BY <1>s DEF FarewellInv, Farewells
<1>q. pc[c] = "dropping" /\ r \in todo[Main(c)] => todo[Main(c)] # {}
  OBVIOUS
<1>1. CASE UNCHANGED vars \/ Server
  BY <1>1, <1>f, FarewellKept DEF vars, Server, Cancel, Exit, Proceeds
<1>2. ASSUME NEW d \in Conns, Accept(d) \/ PeerLeaves(d) PROVE FarewellComes(c, r)'
  BY <1>2, <1>t, <1>f, FarewellKept DEF Accept, PeerLeaves
<1>3. ASSUME NEW d \in Conns, Handler(d) PROVE FarewellComes(c, r)'
  <2>1. CASE NameReadFails(d) \/ NameAccepted(d) \/ NameRejected(d)
    BY <2>1, <1>t, <1>f, FarewellKept DEF NameReadFails, NameAccepted, NameRejected
  <2>2. CASE Register(d)
    <3>1. inbox' = inbox /\ todo' = todo /\ clients' = clients \cup {d} /\ inbox[d] = {}
      BY <2>2 DEF Register, FarewellInv, NewcomersHeardNothing
    <3>2. r \in clients /\ FarewellComes(c, r)
      BY <3>1, <1>f
    <3>3. pc[c] = "dropping" => pc'[c] = "dropping"
      BY <2>2, <1>t DEF Register
    <3> QED
      BY <3>1, <3>2, <3>3, FarewellKept
  <2>3. CASE BroadcastStarts(d) \/ \E s \in Conns : BroadcastTo(d, s)
    <3>1. r \in clients
      BY <2>3 DEF BroadcastStarts, BroadcastTo
    <3> QED
      BY <2>3, <3>1, <1>f, FarewellDuringBroadcast
  <2>4. CASE BroadcastEnds(d) \/ Welcome(d)
    BY <2>4, <1>t, <1>f, FarewellKept DEF BroadcastEnds, Welcome
  <2>5. CASE LoopTop(d) \/ ReadControl(d) \/ ReadChat(d) \/ ReadFails(d) \/ CloseConn(d)
    BY <2>5, <1>t, <1>f, FarewellKept DEF LoopTop, ReadControl, ReadChat, ReadFails, CloseConn, Moves
  <2>6. CASE HandlerDrops(d)
    <3>1. r \in clients /\ inbox' = inbox
      BY <2>6 DEF HandlerDrops, CloseStarts
    <3> QED
      BY <2>6, <3>1, <1>f, FarewellStarts
  <2>7. CASE HandlerDropped(d)
    BY <2>7, <1>t, <1>f, FarewellKept DEF HandlerDropped
  <2>8. CASE Cleanup(d)
    <3>1. d \notin clients
      BY <2>8, <1>s DEF Cleanup, AllPlaced, Placed
    <3> QED
      BY <2>8, <3>1, <1>t, <1>f, FarewellKept DEF Cleanup
  <2>9. ASSUME NEW s \in Conns, HandlerNotifies(d, s) PROVE FarewellComes(c, r)'
    <3>1. CloseNotifies(Main(d), d, s) /\ clients' = clients
      BY <2>9 DEF HandlerNotifies, CloseNotifies
    <3>2. Joined(c) \in inbox[r]
      BY <2>9 DEF HandlerNotifies, CloseNotifies, Joined, Left, RoomInv, TypeOK
    <3> QED
      BY <3>1, <3>2, <1>s, <1>f, FarewellTold, ProcsDistinct
  <2> QED
    BY <1>3, <2>1, <2>2, <2>3, <2>4, <2>5, <2>6, <2>7, <2>8, <2>9 DEF Handler
<1>4. ASSUME NEW d \in Conns, Heartbeat(d) PROVE FarewellComes(c, r)'
  <2>1. CASE BeatStops(d) \/ BeatTicks(d) \/ BeatPings(d) \/ BeatDropped(d)
    BY <2>1, <1>f, FarewellKept DEF BeatStops, BeatTicks, BeatPings, BeatMoves, BeatDropped
  <2>2. CASE BeatDrops(d)
    <3>1. r \in clients /\ inbox' = inbox
      BY <2>2 DEF BeatDrops, CloseStarts
    <3> QED
      BY <2>2, <3>1, <1>f, FarewellStarts
  <2>3. ASSUME NEW s \in Conns, BeatNotifies(d, s) PROVE FarewellComes(c, r)'
    <3>1. CloseNotifies(Beat(d), d, s) /\ clients' = clients
      BY <2>3 DEF BeatNotifies, CloseNotifies
    <3>2. Joined(c) \in inbox[r]
      BY <2>3 DEF BeatNotifies, CloseNotifies, Joined, Left, RoomInv, TypeOK
    <3> QED
      BY <3>1, <3>2, <1>s, <1>f, FarewellTold, ProcsDistinct
  <2> QED
    BY <1>4, <2>1, <2>2, <2>3 DEF Heartbeat
<1> QED
  BY <1>1, <1>2, <1>3, <1>4 DEF Next

(* Lines are written to the registered, who have come past the registry.   *)
LEMMA NewcomersStep ==
  ASSUME RoomInv, FarewellInv, [Next]_vars PROVE NewcomersHeardNothing'
<1> SUFFICES ASSUME NEW r \in Conns, pc'[r] \in {"off", "naming", "register"} PROVE inbox'[r] = {}
  BY DEF NewcomersHeardNothing
<1>t. pc \in [Conns -> HandlerStates] /\ inbox \in [Conns -> SUBSET Lines]
  BY DEF RoomInv, TypeOK
<1>h. pc[r] \in {"off", "naming", "register"} => inbox[r] = {}
  BY DEF FarewellInv, NewcomersHeardNothing
<1>n. pc[r] \in {"off", "naming", "register"} => \A p \in Procs : r \notin todo[p]
  BY DEF RoomInv, RecipientsRegistered, RegistryMatchesHandlers
<1>p. \A c \in Conns : Main(c) \in Procs /\ Beat(c) \in Procs
  BY ProcsDistinct
<1>1. CASE UNCHANGED vars \/ Server
  BY <1>1, <1>h DEF vars, Server, Cancel, Exit, Proceeds
<1>2. ASSUME NEW c \in Conns, Accept(c) \/ PeerLeaves(c) PROVE inbox'[r] = {}
  BY <1>2, <1>t, <1>h DEF Accept, PeerLeaves
<1>3. ASSUME NEW c \in Conns, Handler(c) PROVE inbox'[r] = {}
  <2>1. CASE NameReadFails(c) \/ NameAccepted(c) \/ NameRejected(c)
    BY <2>1, <1>t, <1>h DEF NameReadFails, NameAccepted, NameRejected
  <2>2. CASE Register(c) \/ BroadcastStarts(c) \/ BroadcastEnds(c) \/ Welcome(c)
    BY <2>2, <1>t, <1>h DEF Register, BroadcastStarts, BroadcastEnds, Welcome
  <2>3. CASE LoopTop(c) \/ ReadControl(c) \/ ReadChat(c) \/ ReadFails(c) \/ CloseConn(c)
    BY <2>3, <1>t, <1>h DEF LoopTop, ReadControl, ReadChat, ReadFails, CloseConn, Moves
  <2>4. CASE HandlerDrops(c) \/ HandlerDropped(c) \/ Cleanup(c)
    BY <2>4, <1>t, <1>h DEF HandlerDrops, HandlerDropped, Cleanup
  <2>5. ASSUME NEW s \in Conns, BroadcastTo(c, s) \/ HandlerNotifies(c, s) PROVE inbox'[r] = {}
    <3>1. pc' = pc /\ s \in todo[Main(c)] /\ \A q \in Conns : q # s => inbox'[q] = inbox[q]
      BY <2>5, <1>t DEF BroadcastTo, HandlerNotifies, CloseNotifies
    <3> QED
      BY <3>1, <1>h, <1>n, <1>p
  <2> QED
    BY <1>3, <2>1, <2>2, <2>3, <2>4, <2>5 DEF Handler
<1>4. ASSUME NEW c \in Conns, Heartbeat(c) PROVE inbox'[r] = {}
  <2>1. CASE BeatStops(c) \/ BeatTicks(c) \/ BeatPings(c) \/ BeatDropped(c) \/ BeatDrops(c)
    BY <2>1, <1>h DEF BeatStops, BeatTicks, BeatPings, BeatMoves, BeatDropped, BeatDrops
  <2>2. ASSUME NEW s \in Conns, BeatNotifies(c, s) PROVE inbox'[r] = {}
    <3>1. pc' = pc /\ s \in todo[Beat(c)] /\ \A q \in Conns : q # s => inbox'[q] = inbox[q]
      BY <2>2, <1>t DEF BeatNotifies, CloseNotifies
    <3> QED
      BY <3>1, <1>h, <1>n, <1>p
  <2> QED
    BY <1>4, <2>1, <2>2 DEF Heartbeat
<1> QED
  BY <1>1, <1>2, <1>3, <1>4 DEF Next

(* The deferred function waits for the lock the notices are written under; *)
(* a heartbeat starts to write them only for an entry still registered.    *)
LEMMA OutlivedStep ==
  ASSUME RoomInv, FarewellInv, [Next]_vars PROVE NoticesOutlived'
<1> SUFFICES ASSUME NEW c \in Conns, beat'[c] = "dropping", pc'[c] = "done" PROVE FALSE
  BY DEF NoticesOutlived
<1>t. pc \in [Conns -> HandlerStates] /\ beat \in [Conns -> BeatStates]
  BY DEF RoomInv, TypeOK
<1>h. beat[c] = "dropping" => pc[c] # "done" /\ writer # NoProc
  BY ProcsDistinct DEF FarewellInv, NoticesOutlived, RoomInv, LockDiscipline, Disciplined
<1>r. c \in clients => pc[c] # "done"
  BY DEF RoomInv, RegistryMatchesHandlers
<1>1. CASE UNCHANGED vars \/ Server
  BY <1>1, <1>h DEF vars, Server, Cancel, Exit, Proceeds
<1>2. ASSUME NEW d \in Conns, Accept(d) \/ PeerLeaves(d) PROVE FALSE
  BY <1>2, <1>t, <1>h DEF Accept, PeerLeaves
<1>3. ASSUME NEW d \in Conns, Handler(d) PROVE FALSE
  <2>1. CASE NameReadFails(d) \/ NameAccepted(d) \/ NameRejected(d) \/ Register(d)
    BY <2>1, <1>t, <1>h DEF NameReadFails, NameAccepted, NameRejected, Register
  <2>2. CASE BroadcastStarts(d) \/ BroadcastEnds(d) \/ Welcome(d)
    BY <2>2, <1>t, <1>h DEF BroadcastStarts, BroadcastEnds, Welcome
  <2>3. CASE LoopTop(d) \/ ReadControl(d) \/ ReadChat(d) \/ ReadFails(d) \/ CloseConn(d)
    BY <2>3, <1>t, <1>h DEF LoopTop, ReadControl, ReadChat, ReadFails, CloseConn, Moves
  <2>4. CASE HandlerDrops(d) \/ HandlerDropped(d)
    BY <2>4, <1>t, <1>h DEF HandlerDrops, HandlerDropped
  <2>5. CASE Cleanup(d)
    BY <2>5, <1>t, <1>h DEF Cleanup, CanLock
  <2>6. CASE \E s \in Conns : BroadcastTo(d, s) \/ HandlerNotifies(d, s)
    BY <2>6, <1>h DEF BroadcastTo, HandlerNotifies, CloseNotifies
  <2> QED
    BY <1>3, <2>1, <2>2, <2>3, <2>4, <2>5, <2>6 DEF Handler
<1>4. ASSUME NEW d \in Conns, Heartbeat(d) PROVE FALSE
  <2>1. CASE BeatStops(d) \/ BeatTicks(d) \/ BeatPings(d) \/ BeatDropped(d)
    BY <2>1, <1>t, <1>h DEF BeatStops, BeatTicks, BeatPings, BeatMoves, BeatDropped
  <2>2. CASE BeatDrops(d)
    BY <2>2, <1>t, <1>h, <1>r DEF BeatDrops
  <2>3. CASE \E s \in Conns : BeatNotifies(d, s)
    BY <2>3, <1>h DEF BeatNotifies, CloseNotifies
  <2> QED
    BY <1>4, <2>1, <2>2, <2>3 DEF Heartbeat
<1> QED
  BY <1>1, <1>2, <1>3, <1>4 DEF Next

-----------------------------------------------------------------------------
(* Outside a shutdown, and with peers that drain, whoever heard a client   *)
(* join and is still registered and connected has been told that it left   *)
(* by the time its handler is done (closeConnection and the deferred       *)
(* function of handleConnection, run by two goroutines in any order).      *)
THEOREM NoPhantoms == ASSUME ~SlowReaders PROVE Spec => []NoPhantomMember
<1>1. Init => FarewellInv
  BY DEF Init, FarewellInv, Farewells, NewcomersHeardNothing, NoticesOutlived
<1>2. RoomInv /\ AllPlaced /\ FarewellInv /\ [Next]_vars => FarewellInv'
  BY FarewellStep, NewcomersStep, OutlivedStep DEF FarewellInv
<1>3. RoomInv /\ FarewellInv => NoPhantomMember
  <2> SUFFICES ASSUME RoomInv, FarewellInv, NEW c \in Conns, NEW r \in Conns,
                      pc[c] = "done", ~ctxDone,
                      Joined(c) \in inbox[r], r \in clients, peer[r] = "up"
               PROVE  \E l \in inbox[r] : l.kind = "left" /\ l.of = c
    BY DEF NoPhantomMember
  <2>1. FarewellComes(c, r)
    BY DEF FarewellInv, Farewells
  <2>2. c \notin clients /\ todo[Beat(c)] = {}
    BY DEF RoomInv, RegistryMatchesHandlers, LockDiscipline, Disciplined, FarewellInv, NoticesOutlived
  <2>3. Left(c) \in inbox[r]
    BY <2>1, <2>2 DEF FarewellComes
  <2> QED
    BY <2>3 DEF Left
<1> QED
  BY <1>1, <1>2, <1>3, PlacedInvariant, PTL DEF Spec
==============================================================================
