--------------------------- MODULE TcpServerProofs ---------------------------
(***************************************************************************)
(* Theorems about TcpServer, for any finite set of connections.            *)
(***************************************************************************)
EXTENDS TcpServer, FiniteSetTheorems, TLAPS

(* A step keeps every variable within its type.                            *)
LEMMA TypeStep == TypeOK /\ [Next]_vars => TypeOK'
<1> SUFFICES ASSUME TypeOK, [Next]_vars PROVE TypeOK'
  OBVIOUS
<1> USE DEF TypeOK
<1>1. CASE UNCHANGED vars
  BY <1>1 DEF vars, lockVars
<1>2. CASE Server
  BY <1>2 DEF Server, Cancel, Exit, Proceeds, ServerStates, lockVars
<1>3. ASSUME NEW c \in Conns, Accept(c) PROVE TypeOK'
  BY <1>3 DEF ClientConnected, Accept, ServerStates, HandlerStates, lockVars
<1>4. ASSUME NEW c \in Conns, PeerLeaves(c) PROVE TypeOK'
  BY <1>4 DEF PeerLeaves, lockVars
<1>5. ASSUME NEW c \in Conns, Handler(c) PROVE TypeOK'
  <2>1. CASE NameReadFails(c)
    BY <2>1 DEF ClientDisconnected, NameReadFails, HandlerStates, lockVars
  <2>2. CASE NameAccepted(c)
    BY <2>2 DEF NameAccepted, HandlerStates, lockVars
  <2>3. CASE NameRejected(c)
    BY <2>3 DEF NameRejected, MaxAttempts, HandlerStates, lockVars
  <2>4. CASE Register(c)
    BY <2>4 DEF Register, HandlerStates, lockVars
  <2>5. CASE BroadcastStarts(c)
    BY <2>5 DEF BroadcastStarts, Others, HandlerStates, Main, Procs
  <2>6. CASE BroadcastEnds(c)
    BY <2>6 DEF BroadcastEnds, HandlerStates
  <2>7. CASE Welcome(c)
    BY <2>7 DEF Welcome, HandlerStates, BeatStates, lockVars
  <2>8. CASE LoopTop(c) \/ ReadControl(c) \/ ReadChat(c) \/ ReadFails(c) \/ CloseConn(c)
    BY <2>8 DEF LoopTop, ReadControl, ReadChat, ReadFails, CloseConn, Moves, HandlerStates, lockVars
  <2>9. CASE HandlerDrops(c)
    <3>1. /\ clients' = clients \ {c}
          /\ UNCHANGED <<peer, server, beat, attempts, readers, inbox>>
          /\ active' \in Int
      BY <2>9 DEF HandlerDrops, CloseStarts, ClientDisconnected
    <3>2. pc' \in [Conns -> HandlerStates] /\ stopped' \in [Conns -> BOOLEAN]
      BY <2>9 DEF HandlerDrops, HandlerStates
    <3>3. writer' \in Procs \cup {NoProc} /\ todo' \in [Procs -> SUBSET Conns]
      <4>1. \/ writer' = Main(c) /\ todo' = [todo EXCEPT ![Main(c)] = clients \ {c}]
            \/ UNCHANGED <<writer, todo>>
        BY <2>9 DEF HandlerDrops, CloseStarts, Others
      <4>2. Main(c) \in Procs
        BY DEF Main, Procs
      <4> QED
        BY <4>1, <4>2
    <3> QED
      BY <3>1, <3>2, <3>3
  <2>10. CASE HandlerDropped(c)
    BY <2>10 DEF HandlerDropped, HandlerStates
  <2>11. CASE Cleanup(c)
    BY <2>11 DEF ClientDisconnected, Cleanup, HandlerStates, lockVars
  <2>12. ASSUME NEW r \in Conns, BroadcastTo(c, r) PROVE TypeOK'
    BY <2>12 DEF BroadcastTo, Joined, Chat, Lines, Main, Procs, lockVars
  <2>13. ASSUME NEW r \in Conns, HandlerNotifies(c, r) PROVE TypeOK'
    BY <2>13 DEF HandlerNotifies, CloseNotifies, Left, Lines, Main, Procs, lockVars
  <2> QED
    BY <1>5, <2>1, <2>2, <2>3, <2>4, <2>5, <2>6, <2>7, <2>8, <2>9, <2>10, <2>11, <2>12, <2>13
    DEF Handler
<1>6. ASSUME NEW c \in Conns, Heartbeat(c) PROVE TypeOK'
  <2>1. CASE BeatStops(c) \/ BeatTicks(c) \/ BeatPings(c)
    BY <2>1 DEF BeatStops, BeatTicks, BeatPings, BeatMoves, BeatStates, lockVars
  <2>2. CASE BeatDrops(c)
    BY <2>2 DEF ClientDisconnected, BeatDrops, CloseStarts, Others, BeatStates, Beat, Procs
  <2>3. CASE BeatDropped(c)
    BY <2>3 DEF BeatDropped, BeatStates
  <2>4. ASSUME NEW r \in Conns, BeatNotifies(c, r) PROVE TypeOK'
    BY <2>4 DEF BeatNotifies, CloseNotifies, Left, Lines, Beat, Procs, lockVars
  <2> QED
    BY <1>6, <2>1, <2>2, <2>3, <2>4 DEF Heartbeat
<1> QED
  BY <1>1, <1>2, <1>3, <1>4, <1>5, <1>6 DEF Next

(* Every variable of the TCP server holds a value of its type.             *)
THEOREM TypeCorrect == Spec => []TypeOK
<1>1. Init => TypeOK
  BY NoProcAssumption DEF Init, TypeOK, ServerStates, HandlerStates, BeatStates
<1> QED
  BY <1>1, TypeStep, PTL DEF Spec

-----------------------------------------------------------------------------
(* The lock discipline.                                                    *)

(* A handler that has not come to the message loop.                        *)
Joining == {"off", "naming", "register", "announce", "joining", "welcome"}

(* Whoever is ranging over the map holds clientsMutex, only it has         *)
(* recipients left to write to, and a client is welcomed before its        *)
(* heartbeat starts.                                                       *)
Disciplined(c) ==
  /\ pc[c] \in {"joining", "speaking"} => c \in readers
  /\ pc[c] = "dropping" => writer = Main(c)
  /\ beat[c] = "dropping" => writer = Beat(c)
  /\ todo[Main(c)] # {} => pc[c] \in {"joining", "speaking", "dropping"}
  /\ todo[Beat(c)] # {} => beat[c] = "dropping"
  /\ pc[c] \in Joining => beat[c] = "off"

LockDiscipline == \A c \in Conns : Disciplined(c)

(* Goroutines are told apart by their kind and connection.                 *)
LEMMA ProcsDistinct ==
  ASSUME NEW c \in Conns, NEW d \in Conns
  PROVE  /\ Main(c) \in Procs /\ Beat(c) \in Procs
         /\ Main(c) # NoProc /\ Beat(c) # NoProc
         /\ Main(c) # Beat(d) /\ Beat(c) # Main(d)
         /\ Main(c) = Main(d) => c = d
         /\ Beat(c) = Beat(d) => c = d
  BY NoProcAssumption DEF Main, Beat, Procs

(* Every goroutine is some connection's handler or heartbeat.              *)
LEMMA ProcsCases == \A p \in Procs : \E c \in Conns : p = Main(c) \/ p = Beat(c)
  BY DEF Main, Beat, Procs

(* While the write lock can be taken, nobody is ranging over the map.      *)
LEMMA LockMeansStill ==
  ASSUME TypeOK, LockDiscipline, CanLock
  PROVE  ~Ranging /\ \A p \in Procs : todo[p] = {}
<1>1. ~Ranging
  BY ProcsDistinct DEF LockDiscipline, Disciplined, CanLock, Ranging
<1>2. ASSUME NEW c \in Conns PROVE todo[Main(c)] = {} /\ todo[Beat(c)] = {}
  BY <1>1, <1>2 DEF LockDiscipline, Disciplined, Ranging
<1> QED
  BY <1>1, <1>2, ProcsCases

(* A step keeps the lock discipline.                                       *)
LEMMA DisciplineStep == TypeOK /\ LockDiscipline /\ [Next]_vars => LockDiscipline'
<1> SUFFICES ASSUME TypeOK, LockDiscipline, [Next]_vars, NEW d \in Conns PROVE Disciplined(d)'
  BY DEF LockDiscipline
<1>d. \A c \in Conns : Disciplined(c)
  BY DEF LockDiscipline
<1>t. /\ pc \in [Conns -> HandlerStates] /\ beat \in [Conns -> BeatStates]
      /\ todo \in [Procs -> SUBSET Conns]
  BY DEF TypeOK
<1> USE DEF Disciplined, Joining
<1>1. CASE UNCHANGED vars
  BY <1>1, <1>d DEF vars, lockVars
<1>2. CASE Server
  BY <1>2, <1>d DEF Server, Cancel, Exit, Proceeds, lockVars
<1>3. ASSUME NEW c \in Conns, Accept(c) \/ PeerLeaves(c) PROVE Disciplined(d)'
  BY <1>3, <1>d, <1>t DEF Accept, PeerLeaves, lockVars
<1>5. ASSUME NEW c \in Conns, Handler(c) PROVE Disciplined(d)'
  <2>1. CASE NameReadFails(c) \/ NameAccepted(c) \/ NameRejected(c)
    BY <2>1, <1>d, <1>t DEF NameReadFails, NameAccepted, NameRejected, lockVars
  <2>1r. CASE Register(c)
    BY <2>1r, <1>d, <1>t DEF Register, lockVars
  <2>1w. CASE Welcome(c)
    BY <2>1w, <1>d, <1>t DEF Welcome, lockVars
  <2>2. CASE BroadcastStarts(c)
    BY <2>2, <1>d, <1>t, ProcsDistinct DEF BroadcastStarts, Others
  <2>3. CASE BroadcastEnds(c)
    BY <2>3, <1>d, <1>t, ProcsDistinct DEF BroadcastEnds
  <2>4. CASE LoopTop(c) \/ ReadControl(c) \/ ReadChat(c) \/ ReadFails(c) \/ CloseConn(c)
    BY <2>4, <1>d, <1>t DEF LoopTop, ReadControl, ReadChat, ReadFails, CloseConn, Moves, lockVars
  <2>5. CASE HandlerDrops(c)
    BY <2>5, <1>d, <1>t, ProcsDistinct DEF HandlerDrops, CloseStarts, Others, CanLock
  <2>6. CASE HandlerDropped(c)
    BY <2>6, <1>d, <1>t, ProcsDistinct DEF HandlerDropped
  <2>7. CASE Cleanup(c)
    BY <2>7, <1>d, <1>t DEF Cleanup, lockVars
  <2>8. ASSUME NEW r \in Conns, BroadcastTo(c, r) PROVE Disciplined(d)'
    BY <2>8, <1>d, <1>t, ProcsDistinct DEF BroadcastTo, lockVars
  <2>9. ASSUME NEW r \in Conns, HandlerNotifies(c, r) PROVE Disciplined(d)'
    BY <2>9, <1>d, <1>t, ProcsDistinct DEF HandlerNotifies, CloseNotifies, lockVars
  <2> QED
    BY <1>5, <2>1, <2>1r, <2>1w, <2>2, <2>3, <2>4, <2>5, <2>6, <2>7, <2>8, <2>9 DEF Handler
<1>6. ASSUME NEW c \in Conns, Heartbeat(c) PROVE Disciplined(d)'
  <2>1. CASE BeatStops(c) \/ BeatTicks(c) \/ BeatPings(c)
    BY <2>1, <1>d, <1>t DEF BeatStops, BeatTicks, BeatPings, BeatMoves, lockVars
  <2>2. CASE BeatDrops(c)
    BY <2>2, <1>d, <1>t, ProcsDistinct DEF BeatDrops, CloseStarts, Others, CanLock
  <2>3. CASE BeatDropped(c)
    BY <2>3, <1>d, <1>t, ProcsDistinct DEF BeatDropped
  <2>4. ASSUME NEW r \in Conns, BeatNotifies(c, r) PROVE Disciplined(d)'
    BY <2>4, <1>d, <1>t, ProcsDistinct DEF BeatNotifies, CloseNotifies, lockVars
  <2> QED
    BY <1>6, <2>1, <2>2, <2>3, <2>4 DEF Heartbeat
<1> QED
  BY <1>1, <1>2, <1>3, <1>5, <1>6 DEF Next

(* The clients map is written only by a goroutine that could take the      *)
(* write lock.                                                             *)
LEMMA WritesUnderLock == [Next]_vars => CanLock \/ clients' = clients
<1> SUFFICES ASSUME [Next]_vars, ~CanLock PROVE clients' = clients
  OBVIOUS
<1>1. CASE UNCHANGED vars
  BY <1>1 DEF vars
<1>2. CASE Server
  BY <1>2 DEF Server, Cancel, Exit, Proceeds
<1>3. ASSUME NEW c \in Conns, Accept(c) \/ PeerLeaves(c) PROVE clients' = clients
  BY <1>3 DEF Accept, PeerLeaves
<1>4. ASSUME NEW c \in Conns, Handler(c) PROVE clients' = clients
  BY <1>4 DEF Handler, NameReadFails, NameAccepted, NameRejected, Register, BroadcastStarts,
       BroadcastEnds, Welcome, LoopTop, ReadControl, ReadChat, ReadFails, CloseConn, Moves,
       HandlerDrops, CloseStarts, Others, HandlerDropped, Cleanup, BroadcastTo, HandlerNotifies, CloseNotifies
<1>5. ASSUME NEW c \in Conns, Heartbeat(c) PROVE clients' = clients
  BY <1>5 DEF Heartbeat, BeatStops, BeatTicks, BeatPings, BeatMoves, BeatDrops, CloseStarts, Others,
       BeatDropped, BeatNotifies, CloseNotifies
<1> QED
  BY <1>1, <1>2, <1>3, <1>4, <1>5 DEF Next

(* Initially the lock is free and nobody is ranging.                       *)
LEMMA DisciplineInit == Init => TypeOK /\ LockDiscipline
  BY NoProcAssumption, ProcsDistinct
  DEF Init, TypeOK, ServerStates, HandlerStates, BeatStates, LockDiscipline, Disciplined, Joining

(* In every behaviour of the server, with any number of connections, no    *)
(* goroutine writes the clients map while another ranges over it.          *)
THEOREM MapStability == Spec => MapStableWhileRanged
<1>1. TypeOK /\ LockDiscipline /\ [Next]_vars => [Ranging => clients' = clients]_vars
  BY LockMeansStill, WritesUnderLock
<1> QED
  BY <1>1, DisciplineInit, TypeStep, DisciplineStep, PTL DEF Spec, MapStableWhileRanged

-----------------------------------------------------------------------------
(* The registry.                                                           *)

(* The invariant the registry's theorems rest on.                          *)
RoomInv == TypeOK /\ LockDiscipline /\ RegistryMatchesHandlers /\ RecipientsRegistered

(* A step leaves in the registry only handlers that have joined.           *)
LEMMA RegistryStep ==
  TypeOK /\ RegistryMatchesHandlers /\ [Next]_vars => RegistryMatchesHandlers'
<1> SUFFICES ASSUME TypeOK, RegistryMatchesHandlers, [Next]_vars, NEW d \in Conns, d \in clients'
             PROVE  pc'[d] \notin {"off", "naming", "register", "dropping", "done"}
  BY TypeStep DEF RegistryMatchesHandlers, TypeOK
<1>r. d \in clients => pc[d] \notin {"off", "naming", "register", "dropping", "done"}
  BY DEF RegistryMatchesHandlers
<1>t. pc \in [Conns -> HandlerStates]
  BY DEF TypeOK
<1>1. CASE UNCHANGED vars
  BY <1>1, <1>r DEF vars
<1>2. CASE Server
  BY <1>2, <1>r DEF Server, Cancel, Exit, Proceeds
<1>3. ASSUME NEW c \in Conns, Accept(c) \/ PeerLeaves(c)
      PROVE  pc'[d] \notin {"off", "naming", "register", "dropping", "done"}
  BY <1>3, <1>r, <1>t DEF Accept, PeerLeaves
<1>4. ASSUME NEW c \in Conns, Handler(c)
      PROVE  pc'[d] \notin {"off", "naming", "register", "dropping", "done"}
  <2>1. CASE NameReadFails(c) \/ NameAccepted(c) \/ NameRejected(c)
    BY <2>1, <1>r, <1>t DEF NameReadFails, NameAccepted, NameRejected
  <2>2. CASE Register(c) \/ BroadcastStarts(c) \/ BroadcastEnds(c) \/ Welcome(c)
    BY <2>2, <1>r, <1>t DEF Register, BroadcastStarts, BroadcastEnds, Welcome
  <2>3. CASE LoopTop(c) \/ ReadControl(c) \/ ReadChat(c) \/ ReadFails(c) \/ CloseConn(c)
    BY <2>3, <1>r, <1>t DEF LoopTop, ReadControl, ReadChat, ReadFails, CloseConn, Moves
  <2>4. CASE HandlerDrops(c) \/ HandlerDropped(c) \/ Cleanup(c)
    BY <2>4, <1>r, <1>t DEF HandlerDrops, CloseStarts, Others, HandlerDropped, Cleanup
  <2>5. CASE \E r \in Conns : BroadcastTo(c, r) \/ HandlerNotifies(c, r)
    BY <2>5, <1>r DEF BroadcastTo, HandlerNotifies, CloseNotifies
  <2> QED
    BY <1>4, <2>1, <2>2, <2>3, <2>4, <2>5 DEF Handler
<1>5. ASSUME NEW c \in Conns, Heartbeat(c)
      PROVE  pc'[d] \notin {"off", "naming", "register", "dropping", "done"}
  BY <1>5, <1>r DEF Heartbeat, BeatStops, BeatTicks, BeatPings, BeatMoves, BeatDrops, CloseStarts, Others,
       BeatDropped, BeatNotifies, CloseNotifies
<1> QED
  BY <1>1, <1>2, <1>3, <1>4, <1>5 DEF Next

(* A step leaves no recipient that is not registered: the map changes only *)
(* when nobody has recipients left, and a new list is taken from the map.  *)
LEMMA RecipientsStep ==
  TypeOK /\ LockDiscipline /\ RecipientsRegistered /\ [Next]_vars => RecipientsRegistered'
<1> SUFFICES ASSUME TypeOK, LockDiscipline, RecipientsRegistered, [Next]_vars, NEW p \in Procs
             PROVE  todo'[p] \subseteq clients'
  BY DEF RecipientsRegistered
<1>r. todo[p] \subseteq clients
  BY DEF RecipientsRegistered
<1>t. todo \in [Procs -> SUBSET Conns]
  BY DEF TypeOK
<1>k. \A c \in Conns : Main(c) \in Procs /\ Beat(c) \in Procs
  BY ProcsDistinct
<1>s. CanLock => todo[p] = {}
  BY LockMeansStill
<1>1. CASE UNCHANGED vars
  BY <1>1, <1>r DEF vars
<1>2. CASE Server
  BY <1>2, <1>r DEF Server, Cancel, Exit, Proceeds
<1>3. ASSUME NEW c \in Conns, Accept(c) \/ PeerLeaves(c) PROVE todo'[p] \subseteq clients'
  BY <1>3, <1>r DEF Accept, PeerLeaves
<1>4. ASSUME NEW c \in Conns, Handler(c) PROVE todo'[p] \subseteq clients'
  <2>1. CASE NameReadFails(c) \/ NameAccepted(c) \/ NameRejected(c) \/ BroadcastEnds(c) \/ Welcome(c)
    BY <2>1, <1>r DEF NameReadFails, NameAccepted, NameRejected, BroadcastEnds, Welcome
  <2>2. CASE Register(c) \/ HandlerDropped(c) \/ Cleanup(c)
    BY <2>2, <1>r, <1>s DEF Register, HandlerDropped, Cleanup
  <2>3. CASE LoopTop(c) \/ ReadControl(c) \/ ReadChat(c) \/ ReadFails(c) \/ CloseConn(c)
    BY <2>3, <1>r DEF LoopTop, ReadControl, ReadChat, ReadFails, CloseConn, Moves
  <2>4. CASE BroadcastStarts(c)
    BY <2>4, <1>r, <1>t, <1>k DEF BroadcastStarts, Others
  <2>5. CASE HandlerDrops(c)
    BY <2>5, <1>s, <1>t, <1>k DEF HandlerDrops, CloseStarts, Others
  <2>6. ASSUME NEW r \in Conns, BroadcastTo(c, r) PROVE todo'[p] \subseteq clients'
    BY <2>6, <1>r, <1>t, <1>k DEF BroadcastTo
  <2>7. ASSUME NEW r \in Conns, HandlerNotifies(c, r) PROVE todo'[p] \subseteq clients'
    BY <2>7, <1>r, <1>t, <1>k DEF HandlerNotifies, CloseNotifies
  <2> QED
    BY <1>4, <2>1, <2>2, <2>3, <2>4, <2>5, <2>6, <2>7 DEF Handler
<1>5. ASSUME NEW c \in Conns, Heartbeat(c) PROVE todo'[p] \subseteq clients'
  <2>1. CASE BeatStops(c) \/ BeatTicks(c) \/ BeatPings(c) \/ BeatDropped(c)
    BY <2>1, <1>r DEF BeatStops, BeatTicks, BeatPings, BeatMoves, BeatDropped
  <2>2. CASE BeatDrops(c)
    BY <2>2, <1>s, <1>t, <1>k DEF BeatDrops, CloseStarts, Others
  <2>3. ASSUME NEW r \in Conns, BeatNotifies(c, r) PROVE todo'[p] \subseteq clients'
    BY <2>3, <1>r, <1>t, <1>k DEF BeatNotifies, CloseNotifies
  <2> QED
    BY <1>5, <2>1, <2>2, <2>3 DEF Heartbeat
<1> QED
  BY <1>1, <1>2, <1>3, <1>4, <1>5 DEF Next

(* The invariant of the room holds in every behaviour.                     *)
LEMMA RoomInvariant == Spec => []RoomInv
<1>1. Init => RoomInv
  BY DisciplineInit DEF Init, RoomInv, RegistryMatchesHandlers, RecipientsRegistered
<1>2. RoomInv /\ [Next]_vars => RoomInv'
  BY TypeStep, DisciplineStep, RegistryStep, RecipientsStep DEF RoomInv
<1> QED
  BY <1>1, <1>2, PTL DEF Spec

(* No entry of a handler that has not joined, or has finished, is ever in  *)
(* the registry.                                                           *)
THEOREM RegistryCorrect == Spec => []RegistryMatchesHandlers
  BY RoomInvariant, PTL DEF RoomInv

(* A broadcast and a leave notice only ever go to registered connections.  *)
THEOREM RecipientsCorrect == Spec => []RecipientsRegistered
  BY RoomInvariant, PTL DEF RoomInv

-----------------------------------------------------------------------------
(* The active-connection counter.                                          *)

Live == {c \in Conns : pc[c] \notin {"off", "done"}}

(* A step accepts one connection and counts it, finishes one and counts it *)
(* off, or leaves the live handlers alone and does not raise the counter.  *)
LEMMA LiveStep ==
  ASSUME TypeOK, [Next]_vars
  PROVE  \/ \E c \in Conns : c \notin Live /\ Live' = Live \cup {c} /\ active' = active + 1
         \/ \E c \in Live : Live' = Live \ {c} /\ active' = active - 1
         \/ Live' = Live /\ active' \in {active, active - 1}
<1> USE DEF Live
<1>t. pc \in [Conns -> HandlerStates]
  BY DEF TypeOK
<1>1. CASE UNCHANGED vars
  BY <1>1 DEF vars
<1>2. CASE Server
  BY <1>2 DEF Server, Cancel, Exit, Proceeds
<1>3. ASSUME NEW c \in Conns, Accept(c) PROVE c \notin Live /\ Live' = Live \cup {c} /\ active' = active + 1
  BY <1>3, <1>t DEF Accept, ClientConnected
<1>4. ASSUME NEW c \in Conns, Cleanup(c) PROVE c \in Live /\ Live' = Live \ {c} /\ active' = active - 1
  BY <1>4, <1>t DEF Cleanup, ClientDisconnected
<1>5. ASSUME NEW c \in Conns, PeerLeaves(c) PROVE Live' = Live /\ active' \in {active, active - 1}
  BY <1>5 DEF PeerLeaves
<1>6. ASSUME NEW c \in Conns, Handler(c), ~Cleanup(c) PROVE Live' = Live /\ active' \in {active, active - 1}
  <2>1. CASE NameReadFails(c) \/ NameAccepted(c) \/ NameRejected(c)
    BY <2>1, <1>t DEF NameReadFails, NameAccepted, NameRejected, ClientDisconnected
  <2>2. CASE Register(c) \/ BroadcastStarts(c) \/ BroadcastEnds(c) \/ Welcome(c)
    BY <2>2, <1>t DEF Register, BroadcastStarts, BroadcastEnds, Welcome
  <2>3. CASE LoopTop(c) \/ ReadControl(c) \/ ReadChat(c) \/ ReadFails(c) \/ CloseConn(c)
    BY <2>3, <1>t DEF LoopTop, ReadControl, ReadChat, ReadFails, CloseConn, Moves
  <2>4. CASE HandlerDrops(c) \/ HandlerDropped(c)
    BY <2>4, <1>t DEF HandlerDrops, CloseStarts, Others, ClientDisconnected, HandlerDropped
  <2>5. CASE \E r \in Conns : BroadcastTo(c, r) \/ HandlerNotifies(c, r)
    BY <2>5 DEF BroadcastTo, HandlerNotifies, CloseNotifies
  <2> QED
    BY <1>6, <2>1, <2>2, <2>3, <2>4, <2>5 DEF Handler
<1>7. ASSUME NEW c \in Conns, Heartbeat(c) PROVE Live' = Live /\ active' \in {active, active - 1}
  BY <1>7 DEF Heartbeat, BeatStops, BeatTicks, BeatPings, BeatMoves, BeatDrops, CloseStarts, Others,
       ClientDisconnected, BeatDropped, BeatNotifies, CloseNotifies
<1> QED
  BY <1>1, <1>2, <1>3, <1>4, <1>5, <1>6, <1>7 DEF Next

(* ActiveConnections never claims more connections than have a live        *)
(* handler, however often a connection is counted off.                     *)
THEOREM ActiveCorrect == Spec => []ActiveNeverOverstated
<1> USE DEF ActiveNeverOverstated, Live
<1>1. Init => ActiveNeverOverstated
  <2> SUFFICES ASSUME Init PROVE Live = {} /\ active = 0
    BY FS_EmptySet
  <2> QED
    BY DEF Init
<1>2. TypeOK /\ ActiveNeverOverstated /\ [Next]_vars => ActiveNeverOverstated'
  <2> SUFFICES ASSUME TypeOK, active <= Cardinality(Live), [Next]_vars
               PROVE  active' <= Cardinality(Live')
    OBVIOUS
  <2> HIDE DEF Live
  <2>1. IsFiniteSet(Live) /\ Cardinality(Live) \in Nat
    BY ConnsAssumption, FS_Subset, FS_CardinalityType DEF Live
  <2>2. active \in Int
    BY DEF TypeOK
  <2>3. ASSUME NEW c \in Conns, c \notin Live, Live' = Live \cup {c}, active' = active + 1
        PROVE  active' <= Cardinality(Live')
    <3>1. Cardinality(Live \cup {c}) = Cardinality(Live) + 1
      BY <2>1, <2>3, FS_AddElement
    <3> QED
      BY <2>1, <2>2, <2>3, <3>1
  <2>4. ASSUME NEW c \in Live, Live' = Live \ {c}, active' = active - 1
        PROVE  active' <= Cardinality(Live')
    <3>1. Cardinality(Live \ {c}) = Cardinality(Live) - 1
      BY <2>1, FS_RemoveElement
    <3> QED
      BY <2>1, <2>2, <2>4, <3>1
  <2>5. CASE Live' = Live /\ active' \in {active, active - 1}
    BY <2>1, <2>2, <2>5
  <2> QED
    BY <2>3, <2>4, <2>5, LiveStep
<1> QED
  BY <1>1, <1>2, TypeCorrect, PTL DEF Spec

-----------------------------------------------------------------------------
(* The order in which a session is heard.                                  *)

(* Nobody has heard of a client that has not announced itself; while it is *)
(* announcing itself, nobody has who is still to be told.                  *)
Unheard(c, r) ==
  \/ pc[c] \in {"off", "naming", "register", "announce"}
  \/ pc[c] = "joining" /\ r \in todo[Main(c)]

HeardInOrder == \A c, r \in Conns : Unheard(c, r) => \A l \in inbox[r] : l.of # c

(* A new line about c is written by c's handler or heartbeat, is the join  *)
(* only while c is announcing itself to that recipient, and never leaves   *)
(* the recipient on the list.                                              *)
LEMMA NewLines ==
  ASSUME TypeOK, LockDiscipline, [Next]_vars, NEW r \in Conns, NEW l \in inbox'[r] \ inbox[r]
  PROVE  \E c \in Conns : l.of = c /\ ~Unheard(c, r)' /\ (l = Joined(c) => Unheard(c, r))
<1>t. /\ inbox \in [Conns -> SUBSET Lines] /\ todo \in [Procs -> SUBSET Conns]
      /\ \A c \in Conns : Main(c) \in Procs
  BY ProcsDistinct DEF TypeOK
<1>1. CASE UNCHANGED vars
  BY <1>1 DEF vars
<1>2. CASE Server
  BY <1>2 DEF Server, Cancel, Exit, Proceeds
<1>3. ASSUME NEW c \in Conns, Accept(c) \/ PeerLeaves(c) PROVE FALSE
  BY <1>3 DEF Accept, PeerLeaves
<1>4. ASSUME NEW c \in Conns, NEW s \in Conns, BroadcastTo(c, s)
      PROVE  l.of = c /\ ~Unheard(c, r)' /\ (l = Joined(c) => Unheard(c, r))
  <2>1. inbox' = [inbox EXCEPT ![s] = @ \cup {IF pc[c] = "joining" THEN Joined(c) ELSE Chat(c)}]
    BY <1>4 DEF BroadcastTo
  <2>2. r = s /\ l = IF pc[c] = "joining" THEN Joined(c) ELSE Chat(c)
    BY <2>1, <1>t
  <2>3. /\ pc' = pc /\ pc[c] \in {"joining", "speaking"}
        /\ s \in todo[Main(c)] /\ todo'[Main(c)] = todo[Main(c)] \ {s}
    BY <1>4, <1>t DEF BroadcastTo
  <2>4. l.of = c /\ (l = Joined(c) => pc[c] = "joining")
    BY <2>2 DEF Joined, Chat
  <2> QED
    BY <2>2, <2>3, <2>4 DEF Unheard
<1>5. ASSUME NEW c \in Conns, NEW s \in Conns, HandlerNotifies(c, s) \/ BeatNotifies(c, s)
      PROVE  l.of = c /\ ~Unheard(c, r)' /\ l # Joined(c)
  <2>1. inbox' = [inbox EXCEPT ![s] = @ \cup {Left(c)}] /\ pc' = pc
    BY <1>5 DEF HandlerNotifies, BeatNotifies, CloseNotifies
  <2>2. l = Left(c)
    BY <2>1, <1>t
  <2>3. pc[c] = "dropping" \/ beat[c] = "dropping"
    BY <1>5 DEF HandlerNotifies, BeatNotifies
  <2>4. pc[c] \notin Joining
    BY <2>3 DEF LockDiscipline, Disciplined, Joining
  <2> QED
    BY <2>1, <2>2, <2>4 DEF Left, Joined, Unheard, Joining
<1>6. ASSUME NEW c \in Conns, Handler(c), ~\E s \in Conns : BroadcastTo(c, s) \/ HandlerNotifies(c, s)
      PROVE  FALSE
  BY <1>6 DEF Handler, NameReadFails, NameAccepted, NameRejected, Register, BroadcastStarts,
       BroadcastEnds, Welcome, LoopTop, ReadControl, ReadChat, ReadFails, CloseConn, Moves,
       HandlerDrops, HandlerDropped, Cleanup
<1>7. ASSUME NEW c \in Conns, Heartbeat(c), ~\E s \in Conns : BeatNotifies(c, s)
      PROVE  FALSE
  BY <1>7 DEF Heartbeat, BeatStops, BeatTicks, BeatPings, BeatMoves, BeatDrops, BeatDropped
<1> QED
  BY <1>1, <1>2, <1>3, <1>4, <1>5, <1>6, <1>7 DEF Next

(* Once r may have heard of c, that stays so.                              *)
LEMMA UnheardStep ==
  ASSUME TypeOK, [Next]_vars, NEW c \in Conns, NEW r \in Conns, Unheard(c, r)'
  PROVE  Unheard(c, r)
<1>t. /\ pc \in [Conns -> HandlerStates] /\ todo \in [Procs -> SUBSET Conns]
      /\ \A d \in Conns : /\ Main(d) \in Procs /\ Beat(d) \in Procs
                          /\ Main(c) # Beat(d) /\ (Main(c) = Main(d) => c = d)
  BY ProcsDistinct DEF TypeOK
<1> USE DEF Unheard
<1>1. CASE UNCHANGED vars
  BY <1>1 DEF vars
<1>2. CASE Server
  BY <1>2 DEF Server, Cancel, Exit, Proceeds
<1>3. ASSUME NEW d \in Conns, Accept(d) \/ PeerLeaves(d) PROVE Unheard(c, r)
  BY <1>3, <1>t DEF Accept, PeerLeaves
<1>4. ASSUME NEW d \in Conns, Handler(d) PROVE Unheard(c, r)
  <2>1. CASE NameReadFails(d) \/ NameAccepted(d) \/ NameRejected(d)
    BY <2>1, <1>t DEF NameReadFails, NameAccepted, NameRejected
  <2>2. CASE Register(d) \/ BroadcastEnds(d) \/ Welcome(d)
    BY <2>2, <1>t DEF Register, BroadcastEnds, Welcome
  <2>3. CASE LoopTop(d) \/ ReadControl(d) \/ ReadChat(d) \/ ReadFails(d) \/ CloseConn(d)
    BY <2>3, <1>t DEF LoopTop, ReadControl, ReadChat, ReadFails, CloseConn, Moves
  <2>4. CASE BroadcastStarts(d)
    BY <2>4, <1>t DEF BroadcastStarts, Others
  <2>5. CASE HandlerDrops(d)
    BY <2>5, <1>t DEF HandlerDrops, CloseStarts, Others
  <2>6. CASE HandlerDropped(d) \/ Cleanup(d)
    BY <2>6, <1>t DEF HandlerDropped, Cleanup
  <2>7. ASSUME NEW s \in Conns, BroadcastTo(d, s) \/ HandlerNotifies(d, s) PROVE Unheard(c, r)
    BY <2>7, <1>t DEF BroadcastTo, HandlerNotifies, CloseNotifies
  <2> QED
    BY <1>4, <2>1, <2>2, <2>3, <2>4, <2>5, <2>6, <2>7 DEF Handler
<1>5. ASSUME NEW d \in Conns, Heartbeat(d) PROVE Unheard(c, r)
  <2>1. CASE BeatStops(d) \/ BeatTicks(d) \/ BeatPings(d) \/ BeatDropped(d)
    BY <2>1 DEF BeatStops, BeatTicks, BeatPings, BeatMoves, BeatDropped
  <2>2. CASE BeatDrops(d)
    BY <2>2, <1>t DEF BeatDrops, CloseStarts, Others
  <2>3. ASSUME NEW s \in Conns, BeatNotifies(d, s) PROVE Unheard(c, r)
    BY <2>3, <1>t DEF BeatNotifies, CloseNotifies
  <2> QED
    BY <1>5, <2>1, <2>2, <2>3 DEF Heartbeat
<1> QED
  BY <1>1, <1>2, <1>3, <1>4, <1>5 DEF Next

(* Nobody hears that a client joined after hearing it speak or leave.      *)
THEOREM JoinsHeardFirst == Spec => JoinHeardFirst
<1>1. Init => HeardInOrder
  BY DEF Init, HeardInOrder
<1>2. TypeOK /\ LockDiscipline /\ HeardInOrder /\ [Next]_vars => HeardInOrder'
  <2> SUFFICES ASSUME TypeOK, LockDiscipline, HeardInOrder, [Next]_vars,
                      NEW c \in Conns, NEW r \in Conns, Unheard(c, r)', NEW l \in inbox'[r]
               PROVE  l.of # c
    BY DEF HeardInOrder
  <2>1. CASE l \in inbox[r]
    BY <2>1, UnheardStep DEF HeardInOrder
  <2>2. CASE l \notin inbox[r]
    BY <2>2, NewLines
  <2> QED
    BY <2>1, <2>2
<1>3. TypeOK /\ LockDiscipline /\ HeardInOrder /\ [Next]_vars
      => [\A c, r \in Conns :
           Joined(c) \in inbox'[r] \ inbox[r] => \A l \in inbox[r] : l.of # c]_vars
  <2> SUFFICES ASSUME TypeOK, LockDiscipline, HeardInOrder, [Next]_vars,
                      NEW c \in Conns, NEW r \in Conns, Joined(c) \in inbox'[r] \ inbox[r]
               PROVE  \A l \in inbox[r] : l.of # c
    OBVIOUS
  <2>1. PICK d \in Conns : Joined(c).of = d /\ (Joined(c) = Joined(d) => Unheard(d, r))
    BY NewLines
  <2>2. d = c
    BY <2>1 DEF Joined
  <2> QED
    BY <2>1, <2>2 DEF HeardInOrder
<1> QED
  BY <1>1, <1>2, <1>3, DisciplineInit, TypeStep, DisciplineStep, PTL DEF Spec, JoinHeardFirst
==============================================================================
