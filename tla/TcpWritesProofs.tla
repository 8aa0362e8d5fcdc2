--------------------------- MODULE TcpWritesProofs ---------------------------
(***************************************************************************)
(* Theorems about TcpWrites, for any set of broadcasters and leavers.      *)
(***************************************************************************)
EXTENDS TcpWrites, TLAPS

(* A step keeps every variable within its type.                            *)
LEMMA TypeStep == TypeOK /\ [Next]_vars => TypeOK'
<1> SUFFICES ASSUME TypeOK, [Next]_vars PROVE TypeOK'
  OBVIOUS
<1> USE DEF TypeOK, Goes, lockVars, Goroutines, Armers
<1>1. CASE UNCHANGED vars
  BY <1>1 DEF vars
<1>2. CASE PeerChanges \/ Expires \/ HandlerGoesOn
  BY <1>2 DEF PeerChanges, Expires, HandlerGoesOn, PeerStates, States
<1>3. ASSUME NEW g \in Goroutines, RLock(g) \/ OtherLeaves(g) \/ Lock(g) \/ WriteStarts(g)
      PROVE  TypeOK'
  BY <1>3 DEF RLock, OtherLeaves, Lock, WriteStarts, States
<1>4. ASSUME NEW g \in Goroutines, WriteEnds(g) PROVE TypeOK'
  <2>1. pingFailed' \in BOOLEAN
    BY <1>4, Zenon DEF WriteEnds
  <2> QED
    BY <1>4, <2>1 DEF WriteEnds, AfterWrite, States
<1>5. ASSUME NEW g \in Goroutines, Proceeds(g) PROVE TypeOK'
  <2>1. CASE Ranges(g) \/ PingerLooks \/ RUnlock(g)
    BY <2>1 DEF Ranges, PingerLooks, RUnlock, States
  <2>2. CASE LeaverLocked(g) \/ Removes(g) \/ Unlock(g)
    BY <2>2 DEF LeaverLocked, Removes, Unlock, States
  <2>3. CASE Arm(g) \/ Reset(g) \/ HandlerCloses
    BY <2>3 DEF Arm, Reset, HandlerCloses, States, PeerStates
  <2> QED
    BY <1>5, <2>1, <2>2, <2>3 DEF Proceeds
<1> QED
  BY <1>1, <1>2, <1>3, <1>4, <1>5 DEF Next

(* Every variable of the write model holds a value of its type.            *)
THEOREM TypeCorrect == Spec => []TypeOK
<1>1. Init => TypeOK
  BY DEF Init, TypeOK, PeerStates, States, Goroutines
<1> QED
  BY <1>1, TypeStep, PTL DEF Spec

-----------------------------------------------------------------------------
(* An uncrossed broadcast or ping is under a deadline from when it is      *)
(* armed until its write has returned; and only leavers write while they   *)
(* are the mutex's writer.                                                 *)
DeadlineGuards ==
  \A g \in Armers : pc[g] \in {"fd", "writing"} /\ g \notin crossed => deadline # "none"

WriterIsQuiet ==
  \A g \in Goroutines : writer = g /\ g \notin Leavers => pc[g] \in {"locked", "unlock"}

GuardInv == TypeOK /\ DeadlineGuards /\ WriterIsQuiet

(* A step keeps deadlines guarding.                                        *)
LEMMA DeadlineStep == TypeOK /\ DeadlineGuards /\ [Next]_vars => DeadlineGuards'
<1> SUFFICES ASSUME TypeOK, DeadlineGuards, [Next]_vars, NEW a \in Armers,
                    pc'[a] \in {"fd", "writing"}, a \notin crossed'
             PROVE  deadline' # "none"
  BY DEF DeadlineGuards
<1>t. pc \in [Goroutines -> States]
  BY DEF TypeOK
<1>a. a \in Goroutines /\ a \notin Leavers /\ a # Handler
  BY GoroutinesAssumption DEF Goroutines, Armers
<1>g. pc[a] \in {"fd", "writing"} /\ a \notin crossed => deadline # "none"
  BY DEF DeadlineGuards
<1> USE DEF Goes
<1>1. CASE UNCHANGED vars
  BY <1>1, <1>g DEF vars
<1>2. CASE PeerChanges \/ Expires \/ HandlerGoesOn
  BY <1>2, <1>a, <1>t, <1>g DEF PeerChanges, Expires, HandlerGoesOn
<1>3. ASSUME NEW g \in Goroutines, RLock(g) \/ OtherLeaves(g) \/ Lock(g) \/ WriteStarts(g)
      PROVE  deadline' # "none"
  BY <1>3, <1>a, <1>t, <1>g DEF RLock, OtherLeaves, Lock, WriteStarts
<1>4. ASSUME NEW g \in Goroutines, WriteEnds(g) PROVE deadline' # "none"
  BY <1>4, <1>a, <1>t, <1>g DEF WriteEnds, AfterWrite
<1>5. ASSUME NEW g \in Goroutines, Proceeds(g) PROVE deadline' # "none"
  <2>1. CASE Ranges(g) \/ PingerLooks \/ RUnlock(g)
    BY <2>1, <1>a, <1>t, <1>g DEF Ranges, PingerLooks, RUnlock
  <2>2. CASE LeaverLocked(g) \/ Removes(g) \/ Unlock(g)
    BY <2>2, <1>a, <1>t, <1>g DEF LeaverLocked, Removes, Unlock
  <2>3. CASE Arm(g)
    BY <2>3 DEF Arm
  <2>4. CASE Reset(g)
    BY <2>4, <1>t DEF Reset
  <2>5. CASE HandlerCloses
    BY <2>5, <1>a, <1>t, <1>g DEF HandlerCloses
  <2> QED
    BY <1>5, <2>1, <2>2, <2>3, <2>4, <2>5 DEF Proceeds
<1> QED
  BY <1>1, <1>2, <1>3, <1>4, <1>5 DEF Next

(* A step leaves no writer but a leaver with something to write.           *)
LEMMA WriterStep == TypeOK /\ WriterIsQuiet /\ [Next]_vars => WriterIsQuiet'
<1> SUFFICES ASSUME TypeOK, WriterIsQuiet, [Next]_vars, NEW w \in Goroutines, writer' = w, w \notin Leavers
             PROVE  pc'[w] \in {"locked", "unlock"}
  BY DEF WriterIsQuiet
<1>t. pc \in [Goroutines -> States]
  BY DEF TypeOK
<1>n. w # Nobody
  BY GoroutinesAssumption
<1>w. writer = w => pc[w] \in {"locked", "unlock"}
  BY DEF WriterIsQuiet
<1> USE DEF Goes
<1>1. CASE UNCHANGED vars
  BY <1>1, <1>w DEF vars, lockVars
<1>2. CASE PeerChanges \/ Expires \/ HandlerGoesOn
  BY <1>2, <1>t, <1>w DEF PeerChanges, Expires, HandlerGoesOn, lockVars
<1>3. ASSUME NEW g \in Goroutines, RLock(g) \/ OtherLeaves(g) \/ Lock(g) \/ WriteStarts(g) \/ WriteEnds(g)
      PROVE  pc'[w] \in {"locked", "unlock"}
  BY <1>3, <1>t, <1>w DEF RLock, OtherLeaves, Lock, WriteStarts, WriteEnds, lockVars
<1>4. ASSUME NEW g \in Goroutines, Proceeds(g) PROVE pc'[w] \in {"locked", "unlock"}
  <2>1. CASE Ranges(g) \/ PingerLooks \/ RUnlock(g) \/ Arm(g) \/ Reset(g) \/ HandlerCloses
    BY <2>1, <1>t, <1>w DEF Ranges, PingerLooks, RUnlock, Arm, Reset, HandlerCloses, lockVars
  <2>2. CASE LeaverLocked(g) \/ Removes(g) \/ Unlock(g)
    BY <2>2, <1>t, <1>w, <1>n DEF LeaverLocked, Removes, Unlock, lockVars
  <2> QED
    BY <1>4, <2>1, <2>2 DEF Proceeds
<1> QED
  BY <1>1, <1>2, <1>3, <1>4 DEF Next

(* With any number of broadcasts and leavers, whoever holds clientsMutex   *)
(* and may wait for ever writes a leave notice or a crossed broadcast.     *)
THEOREM GuardCorrect == Spec => []HoldersAreGuarded
<1>1. Init => GuardInv
  BY GoroutinesAssumption
  DEF Init, GuardInv, TypeOK, PeerStates, States, Goroutines, DeadlineGuards, WriterIsQuiet, Armers
<1>2. GuardInv /\ [Next]_vars => GuardInv'
  BY TypeStep, DeadlineStep, WriterStep DEF GuardInv
<1>3. GuardInv => HoldersAreGuarded
  <2> SUFFICES ASSUME GuardInv, NEW g \in Goroutines, Holds(g), pc[g] = "writing", deadline = "none",
                      g \notin Leavers
               PROVE  g \in crossed
    BY DEF HoldersAreGuarded
  <2>1. g # Handler
    BY GoroutinesAssumption DEF GuardInv, WriterIsQuiet, TypeOK, Holds
  <2>2. g \in Armers
    BY <2>1 DEF Goroutines
  <2> QED
    BY <2>2 DEF GuardInv, DeadlineGuards
<1> QED
  BY <1>1, <1>2, <1>3, PTL DEF Spec
==============================================================================
