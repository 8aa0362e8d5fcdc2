------------------------------ MODULE UdpClient ------------------------------
(***************************************************************************)
(* The UDP chat client, udp/client/client.go: the connect loop with its    *)
(* probe, retries and waits, the goroutines that read, write, display and  *)
(* beat, the channels between them and main, and the signal goroutine.     *)
(*                                                                         *)
(* The socket is net.UDPConn from DialUDP, which is tied to the server:    *)
(* Write sends to it, and WriteToUDP, which the code uses for everything   *)
(* but the probe and the pong, fails on such a socket.                     *)
(*                                                                         *)
(* At the server's address there may be nothing, the chat server of        *)
(* udp/server, which gives a datagram shorter than its header no thought   *)
(* and answers any other, or, the client's text protocol being none that   *)
(* udp/server speaks, some other server that sends what it likes.          *)
(*                                                                         *)
(* Abstractions.  A datagram is reduced to the branch it takes, a line     *)
(* typed likewise.  Time only enters as what may happen.  The metrics are  *)
(* left out: nothing depends on them.                                      *)
(***************************************************************************)
EXTENDS Naturals

CONSTANTS
  MaxAttempts,  \* reconnectAttempts
  MsgCap,       \* capacity of the display channel
  ErrCap,       \* capacity of the error channel
  ProbeLen,     \* length of the probe
  HeaderLen,    \* of the shortest datagram udp/server looks at
  ChatServer    \* whether what is at the server's address, if anything, is udp/server

ASSUME BoundsAssumption ==
  MaxAttempts \in Nat \ {0} /\ MsgCap \in Nat /\ ErrCap \in Nat \ {0}
ASSUME PeerAssumption == ProbeLen \in Nat /\ HeaderLen \in Nat /\ ChatServer \in BOOLEAN

VARIABLES
  main,       \* where the main goroutine is
  signal,     \* the signal goroutine: "waiting", "cancelling", "exiting", "exited"
  cancelled,  \* the context is cancelled
  attempt,    \* the connect loop's counter
  open,       \* sockets open, named by the attempt that dialled them
  heard,      \* every probe so far has reached a live server, and no answer was lost
  answer,     \* an answer to the probe is on its way
  gone,       \* the server has gone away during the session, and its port refuses
  reader, typist, beat, display,   \* readFromServer, writeToServer, sendHeartbeat, display
  errs,       \* reports in errChan
  msgs        \* lines in msgChan

connecting == <<attempt, open, heard, answer, gone>>
session == <<reader, typist, beat, display, errs, msgs>>
vars == <<main, signal, cancelled, connecting, session>>

MainStates ==
  { "nickname",           \* reading the nickname
    "attempt", "probing", \* top of the connect loop; waiting for an answer to the probe
    "failed", "retry",    \* an attempt has failed; waiting to try again
    "connected", "registered",   \* about to register, to start the goroutines
    "session", "leaving", \* waiting for an error or a cancel; sending the leave
    "gaveup", "ended" }   \* main has returned, after the last attempt or otherwise

running == main \notin {"gaveup", "ended"} /\ signal # "exited"

Init ==
  /\ main = "nickname"
  /\ signal = "waiting"
  /\ cancelled = FALSE
  /\ attempt = 1 /\ open = {} /\ heard = TRUE /\ answer = FALSE /\ gone = FALSE
  /\ reader = "off" /\ typist = "off" /\ beat = "off" /\ display = "off"
  /\ errs = 0 /\ msgs = 0

MainGoes(from, to) == running /\ main = from /\ main' = to

-----------------------------------------------------------------------------
(* Go's library: WriteToUDP fails on a socket from DialUDP, whoever is     *)
(* there.                                                                  *)

(* Mutant: the session, too, writes with Write, which fails when refused.  *)
WriteToFails_WithWrite == gone

WriteToFails == TRUE

(* The server goes away.                                                   *)
ServerGoes ==
  /\ running /\ main = "session" /\ gone' = TRUE
  /\ UNCHANGED <<main, signal, cancelled, attempt, open, heard, answer, session>>

-----------------------------------------------------------------------------
(* The signal goroutine.                                                   *)

SignalArrives ==
  /\ running /\ signal = "waiting" /\ signal' = "cancelling"
  /\ UNCHANGED <<main, cancelled, connecting, session>>

Cancel ==
  /\ running /\ signal = "cancelling" /\ signal' = "exiting"
  /\ cancelled' = TRUE
  /\ UNCHANGED <<main, connecting, session>>

OsExit ==
  /\ running /\ signal = "exiting" /\ signal' = "exited"
  /\ UNCHANGED <<main, cancelled, connecting, session>>

-----------------------------------------------------------------------------
(* main and connectWithRetry.                                              *)

(* The nickname is read; the server's address resolves, or main returns.   *)
NicknameRead ==
  /\ MainGoes("nickname", "attempt") \/ MainGoes("nickname", "ended")
  /\ UNCHANGED <<signal, cancelled, connecting, session>>

AttemptCancelled ==
  /\ cancelled /\ MainGoes("attempt", "ended")
  /\ UNCHANGED <<signal, cancelled, connecting, session>>

(* Dialling fails, and nothing is sent.                                    *)
DialFails ==
  /\ ~cancelled /\ MainGoes("attempt", "failed")
  /\ heard' = FALSE
  /\ UNCHANGED <<signal, cancelled, attempt, open, answer, gone, session>>

(* The chat server answers what is long enough (any packet from a new      *)
(* address brings a name request), another server what it likes.           *)
Answers == IF ChatServer THEN {ProbeLen >= HeaderLen} ELSE BOOLEAN

(* A socket is dialled, the probe written and a read begun, with a         *)
(* deadline of five seconds.  The probe reaches a server, or none, being   *)
(* lost, refused or not written at all.                                    *)
Probes ==
  /\ ~cancelled /\ MainGoes("attempt", "probing")
  /\ open' = open \cup {attempt}
  /\ \/ answer' \in Answers /\ UNCHANGED heard
     \/ heard' = FALSE /\ UNCHANGED answer
  /\ UNCHANGED <<signal, cancelled, attempt, gone, session>>

ProbeAnswered ==
  /\ answer /\ answer' = FALSE
  /\ MainGoes("probing", "connected")
  /\ UNCHANGED <<signal, cancelled, attempt, open, heard, gone, session>>

(* The answer is lost, or will come after the deadline.                    *)
AnswerLost ==
  /\ answer /\ answer' = FALSE
  /\ MainGoes("probing", "probing") /\ heard' = FALSE
  /\ UNCHANGED <<signal, cancelled, attempt, open, gone, session>>

(* Mutant: the socket stays open.                                          *)
ProbeFails_NotClosed ==
  /\ ~answer /\ MainGoes("probing", "failed")
  /\ UNCHANGED <<signal, cancelled, connecting, session>>

(* Mutant: the read has no deadline, and fails only when it is refused.    *)
ProbeFails_NoDeadline ==
  /\ ~answer /\ ~heard /\ MainGoes("probing", "failed")
  /\ open' = open \ {attempt}
  /\ UNCHANGED <<signal, cancelled, attempt, heard, answer, gone, session>>

(* No answer is coming: the read meets its deadline or is refused, or the  *)
(* probe was not written.  The socket is closed.                           *)
ProbeFails ==
  /\ ~answer /\ MainGoes("probing", "failed")
  /\ open' = open \ {attempt}
  /\ UNCHANGED <<signal, cancelled, attempt, heard, answer, gone, session>>

(* Mutant: one attempt too many.                                           *)
AttemptFailed_OneMore ==
  /\ MainGoes("failed", IF attempt <= MaxAttempts THEN "retry" ELSE "gaveup")
  /\ UNCHANGED <<signal, cancelled, connecting, session>>

AttemptFailed ==
  /\ MainGoes("failed", IF attempt < MaxAttempts THEN "retry" ELSE "gaveup")
  /\ UNCHANGED <<signal, cancelled, connecting, session>>

Retry ==
  /\ MainGoes("retry", "attempt")
  /\ attempt' = attempt + 1
  /\ UNCHANGED <<signal, cancelled, open, heard, answer, gone, session>>

RetryCancelled ==
  /\ cancelled /\ MainGoes("retry", "ended")
  /\ UNCHANGED <<signal, cancelled, connecting, session>>

(* sendRegistration, whose failure is printed and no more.                 *)
Registers ==
  /\ MainGoes("connected", "registered")
  /\ UNCHANGED <<signal, cancelled, connecting, session>>

SessionStarts ==
  /\ MainGoes("registered", "session")
  /\ reader' = "top" /\ typist' = "top" /\ beat' = "select" /\ display' = "select"
  /\ UNCHANGED <<signal, cancelled, connecting, errs, msgs>>

(* main takes one report, prints, and returns: deferred, Close.            *)
SessionFails ==
  /\ errs > 0 /\ errs' = errs - 1
  /\ MainGoes("session", "ended")
  /\ open' = open \ {attempt}
  /\ UNCHANGED <<signal, cancelled, attempt, heard, answer, gone, reader, typist, beat, display,
                 msgs>>

SessionCancelled ==
  /\ cancelled /\ MainGoes("session", "leaving")
  /\ UNCHANGED <<signal, cancelled, connecting, session>>

(* The leave message, whose error is not looked at.                        *)
Leaves ==
  /\ MainGoes("leaving", "ended")
  /\ open' = open \ {attempt}
  /\ UNCHANGED <<signal, cancelled, attempt, heard, answer, gone, session>>

-----------------------------------------------------------------------------
(* readFromServer.                                                         *)

ReaderGoes(from, to) ==
  /\ running /\ reader = from /\ reader' = to
  /\ UNCHANGED <<main, signal, cancelled, connecting, typist, beat, display>>

ReaderTop == ReaderGoes("top", IF cancelled THEN "done" ELSE "reading") /\ UNCHANGED <<errs, msgs>>

(* Fifteen seconds without a datagram; a CMD:PING, answered by a pong; or  *)
(* another CMD:, ignored.                                                  *)
ReaderTurns == ReaderGoes("reading", "top") /\ UNCHANGED <<errs, msgs>>

(* A line for the display, dropped if the channel is full.                 *)
ReaderGetsLine ==
  /\ ReaderGoes("reading", "top")
  /\ msgs' = IF msgs < MsgCap THEN msgs + 1 ELSE msgs
  /\ UNCHANGED errs

(* What was sent to a server that has gone is refused.                     *)
ReaderFails == gone /\ ReaderGoes("reading", "report") /\ UNCHANGED <<errs, msgs>>

(* Sending on errChan blocks while it is full.                             *)
ReaderReports ==
  /\ ReaderGoes("report", "done")
  /\ errs < ErrCap /\ errs' = errs + 1
  /\ UNCHANGED msgs

-----------------------------------------------------------------------------
(* writeToServer.                                                          *)

TypistGoes(from, to) ==
  /\ running /\ typist = from /\ typist' = to
  /\ UNCHANGED <<main, signal, cancelled, connecting, reader, beat, display, msgs>>

TypistTop == TypistGoes("top", IF cancelled THEN "done" ELSE "typing") /\ UNCHANGED errs

EmptyLine == TypistGoes("typing", "top") /\ UNCHANGED errs

(* A line of chat, or a command for the server.                            *)
LineTyped == TypistGoes("typing", IF WriteToFails THEN "report" ELSE "top") /\ UNCHANGED errs

(* End of input; or /quit: the leave message, and a nil report.            *)
TypistStops == TypistGoes("typing", "report") /\ UNCHANGED errs

TypistReports ==
  /\ TypistGoes("report", "done")
  /\ errs < ErrCap /\ errs' = errs + 1

-----------------------------------------------------------------------------
(* sendHeartbeat.                                                          *)

BeatGoes(from, to) ==
  /\ running /\ beat = from /\ beat' = to
  /\ UNCHANGED <<main, signal, cancelled, connecting, reader, typist, display, msgs>>

BeatStops == cancelled /\ BeatGoes("select", "done") /\ UNCHANGED errs

BeatTicks == BeatGoes("select", IF WriteToFails THEN "report" ELSE "select") /\ UNCHANGED errs

(* Mutant: the heartbeat returns without a report.                         *)
BeatReports_Silent == BeatGoes("report", "done") /\ UNCHANGED errs

BeatReports ==
  /\ BeatGoes("report", "done")
  /\ errs < ErrCap /\ errs' = errs + 1

-----------------------------------------------------------------------------
(* The display goroutine.                                                  *)

Display ==
  /\ running /\ display = "select"
  /\ \/ msgs > 0 /\ msgs' = msgs - 1 /\ UNCHANGED display
     \/ cancelled /\ display' = "done" /\ UNCHANGED msgs
  /\ UNCHANGED <<main, signal, cancelled, connecting, reader, typist, beat, errs>>

-----------------------------------------------------------------------------
Signals == SignalArrives \/ Cancel \/ OsExit

(* What main does, whatever the user and the server do: an answer that is  *)
(* on its way comes or is lost.                                            *)
MainAlone ==
  \/ AttemptCancelled \/ DialFails \/ Probes \/ ProbeAnswered \/ AnswerLost \/ ProbeFails
  \/ AttemptFailed \/ Retry \/ RetryCancelled
  \/ Registers \/ SessionStarts \/ SessionFails \/ SessionCancelled \/ Leaves

Main == MainAlone \/ NicknameRead

Reader == ReaderTop \/ ReaderTurns \/ ReaderGetsLine \/ ReaderFails \/ ReaderReports
Typist == TypistTop \/ EmptyLine \/ LineTyped \/ TypistStops \/ TypistReports
Beat == BeatStops \/ BeatTicks \/ BeatReports

Next == Signals \/ ServerGoes \/ Main \/ Reader \/ Typist \/ Beat \/ Display

Spec == Init /\ [][Next]_vars

(* Fairness.  The user and the server owe nothing, and no signal has to    *)
(* come.  main goes on: its read has a deadline and its waits timers, but  *)
(* for the nickname.  Goroutines that have something to report report it   *)
(* when there is room, and the ticker ticks.                               *)
Fairness ==
  /\ WF_vars(MainAlone)
  /\ WF_vars(Cancel \/ OsExit)
  /\ WF_vars(ReaderReports) /\ WF_vars(TypistReports) /\ WF_vars(Beat)

FairSpec == Spec /\ Fairness

-----------------------------------------------------------------------------
(* Properties.                                                             *)

(* Every variable holds a value of its type.                               *)
TypeOK ==
  /\ main \in MainStates
  /\ signal \in {"waiting", "cancelling", "exiting", "exited"}
  /\ cancelled \in BOOLEAN
  /\ attempt \in 1..MaxAttempts
  /\ open \subseteq 1..MaxAttempts
  /\ {heard, answer, gone} \subseteq BOOLEAN
  /\ reader \in {"off", "top", "reading", "report", "done"}
  /\ typist \in {"off", "top", "typing", "report", "done"}
  /\ beat \in {"off", "select", "report", "done"}
  /\ display \in {"off", "select", "done"}
  /\ errs \in 0..ErrCap
  /\ msgs \in 0..MsgCap

(* The retries leak no socket: the client has one open from a dial to the  *)
(* end of the attempt or the session it was dialled for, and then none.    *)
SocketsClosed ==
  open = IF main \in {"probing", "connected", "registered", "session", "leaving"}
         THEN {attempt} ELSE {}

(* Connecting ends: with a session, or, after MaxAttempts, without.        *)
ConnectEnds ==
  main = "attempt" ~> main \in {"session", "gaveup"} \/ cancelled \/ ~running

(* One failure of any of the three goroutines, or a cancel, ends the       *)
(* session and with it the process: the report reaches main through the    *)
(* channel though others report at the same time.                          *)
SessionEnds ==
  main = "session" /\ (cancelled \/ "report" \in {reader, typist, beat}) ~> ~running

-----------------------------------------------------------------------------
(* What comments of the code say and the code does not do.                 *)

(* client.go:160 "Send a ping to check if server is responsive": the       *)
(* client does not give up on a server that every one of its probes has    *)
(* reached and that has not gone unheard for a lost answer.                *)
GivesUpUnheard ==
  main = "gaveup" => ~heard

(* client.go:345 "sendHeartbeat periodically sends heartbeat to the        *)
(* server": it does until the client is cancelled or the server has gone.  *)
HeartbeatsGoOn ==
  beat \in {"report", "done"} => cancelled \/ gone
==============================================================================
