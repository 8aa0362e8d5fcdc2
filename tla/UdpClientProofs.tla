--------------------------- MODULE UdpClientProofs ---------------------------
(***************************************************************************)
(* Proofs about UdpClient for any number of attempts and any channels: it  *)
(* is type correct, and the retries leak no socket.                        *)
(***************************************************************************)
EXTENDS UdpClient, TLAPS

(* Who waits to try again has an attempt left.                             *)
RetryLeft == main = "retry" => attempt < MaxAttempts

IInv == TypeOK /\ RetryLeft /\ SocketsClosed

LEMMA InitHolds == Init => IInv
  <1> SUFFICES ASSUME Init PROVE IInv
    OBVIOUS
  <1>1. cancelled \in BOOLEAN /\ {heard, answer, gone} \subseteq BOOLEAN
    BY Zenon DEF Init
  <1> QED
    BY <1>1, BoundsAssumption DEF Init, IInv, TypeOK, RetryLeft, SocketsClosed, MainStates

(* The signal goroutine's steps touch nothing that the invariant relates.  *)
LEMMA SignalsKeep == ASSUME IInv, Signals PROVE IInv'
  BY DEF IInv, TypeOK, RetryLeft, SocketsClosed, MainStates, Signals, SignalArrives, Cancel,
         OsExit, connecting, session

(* main: each of its steps moves the socket with where main is.            *)
LEMMA MainKeeps == ASSUME IInv, Main PROVE IInv'
  <1> USE BoundsAssumption DEF IInv, TypeOK, RetryLeft, SocketsClosed, MainStates, MainGoes,
                               connecting, session
  <1>1. CASE NicknameRead \/ AttemptCancelled
    BY <1>1 DEF NicknameRead, AttemptCancelled
  <1>2. CASE DialFails \/ Probes \/ ProbeAnswered \/ AnswerLost
    <2>1. {heard', answer', gone'} \subseteq BOOLEAN
      <3>1. (ProbeLen >= HeaderLen) \in BOOLEAN
        BY PeerAssumption
      <3>2. Answers \subseteq BOOLEAN
        BY <3>1, Zenon DEF Answers
      <3> QED
        BY <1>2, <3>2, Zenon DEF DialFails, Probes, ProbeAnswered, AnswerLost
    <2> QED
      BY <1>2, <2>1 DEF DialFails, Probes, ProbeAnswered, AnswerLost
  <1>3. CASE ProbeFails
    BY <1>3 DEF ProbeFails
  <1>4. CASE AttemptFailed \/ Retry \/ RetryCancelled
    BY <1>4 DEF AttemptFailed, Retry, RetryCancelled
  <1>5. CASE Registers \/ SessionStarts
    BY <1>5 DEF Registers, SessionStarts
  <1>6. CASE SessionFails \/ SessionCancelled \/ Leaves
    BY <1>6 DEF SessionFails, SessionCancelled, Leaves
  <1> QED
    BY <1>1, <1>2, <1>3, <1>4, <1>5, <1>6 DEF Main, MainAlone

(* The server's going away touches nothing that the invariant relates.     *)
LEMMA GoingKeeps == ASSUME IInv, ServerGoes PROVE IInv'
  <1>1. {heard', answer', gone'} \subseteq BOOLEAN
    BY Zenon DEF IInv, TypeOK, ServerGoes
  <1> QED
    BY <1>1 DEF IInv, TypeOK, RetryLeft, SocketsClosed, MainStates, ServerGoes, session

(* The reader: a line or a report goes where there is room.                *)
LEMMA ReaderKeeps == ASSUME IInv, Reader PROVE IInv'
  <1> USE BoundsAssumption DEF IInv, TypeOK, RetryLeft, SocketsClosed, MainStates, ReaderGoes,
                               connecting
  <1>1. CASE ReaderTop \/ ReaderTurns \/ ReaderFails
    BY <1>1 DEF ReaderTop, ReaderTurns, ReaderFails
  <1>2. CASE ReaderGetsLine
    BY <1>2 DEF ReaderGetsLine
  <1>3. CASE ReaderReports
    BY <1>3 DEF ReaderReports
  <1> QED
    BY <1>1, <1>2, <1>3 DEF Reader

(* The typist and the heartbeat: a report goes where there is room.        *)
LEMMA WritersKeep == ASSUME IInv, Typist \/ Beat PROVE IInv'
  <1> USE BoundsAssumption DEF IInv, TypeOK, RetryLeft, SocketsClosed, MainStates, TypistGoes,
                               BeatGoes, connecting
  <1>1. CASE TypistTop \/ EmptyLine \/ LineTyped \/ TypistStops
    BY <1>1 DEF TypistTop, EmptyLine, LineTyped, TypistStops
  <1>2. CASE TypistReports
    BY <1>2 DEF TypistReports
  <1>3. CASE BeatStops \/ BeatTicks
    BY <1>3 DEF BeatStops, BeatTicks
  <1>4. CASE BeatReports
    BY <1>4 DEF BeatReports
  <1> QED
    BY <1>1, <1>2, <1>3, <1>4 DEF Typist, Beat

LEMMA DisplayKeeps == ASSUME IInv, Display PROVE IInv'
  BY BoundsAssumption DEF IInv, TypeOK, RetryLeft, SocketsClosed, MainStates, Display, connecting

LEMMA StepKeeps == IInv /\ [Next]_vars => IInv'
  <1> SUFFICES ASSUME IInv, [Next]_vars PROVE IInv'
    OBVIOUS
  <1>1. CASE UNCHANGED vars
    BY <1>1 DEF vars, connecting, session, IInv, TypeOK, RetryLeft, SocketsClosed
  <1> QED
    BY <1>1, SignalsKeep, GoingKeeps, MainKeeps, ReaderKeeps, WritersKeep, DisplayKeeps DEF Next

LEMMA AlwaysIInv == Spec => []IInv
  BY InitHolds, StepKeeps, PTL DEF Spec

(* Every variable of the client holds a value of its type.                 *)
THEOREM TypeCorrect == Spec => []TypeOK
  <1>1. IInv => TypeOK
    BY DEF IInv
  <1> QED
    BY <1>1, AlwaysIInv, PTL

(* The retries leak no socket, however many there are and whatever the     *)
(* goroutines and a signal do meanwhile.                                   *)
THEOREM SocketsCorrect == Spec => []SocketsClosed
  <1>1. IInv => SocketsClosed
    BY DEF IInv
  <1> QED
    BY <1>1, AlwaysIInv, PTL
==============================================================================
