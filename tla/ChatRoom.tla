------------------------------- MODULE ChatRoom -------------------------------
(***************************************************************************)
(* What the TCP chat server promises the people in its one room, with no   *)
(* connections, goroutines or locks: who comes, is announced and goes, and *)
(* who is told what, when.  TcpServer is shown to implement it.            *)
(*                                                                         *)
(* Telling a line is not atomic: its audience is fixed when it starts, and *)
(* then told one by one; each of them hears the line or misses it.         *)
(***************************************************************************)
EXTENDS FiniteSets

CONSTANT People   \* those who may come, each at most once

VARIABLES
  status,   \* where each of them is
  telling,  \* for every line, who has still to be told
  heard,    \* the lines each of them has heard
  open      \* whether the room is still open

vars == <<status, telling, heard, open>>

Lines == [kind : {"joined", "chat", "left"}, of : People]
Statuses == {"outside", "arrived", "member", "left"}

Line(kind, c) == [kind |-> kind, of |-> c]

In == {c \in People : status[c] \in {"arrived", "member"}}

(* Nobody is being told anything.                                          *)
Quiet == \A l \in Lines : telling[l] = {}

(* No leave notice is under way: it is told with nothing beside it.        *)
NobodyLeaving == \A c \in People : telling[Line("left", c)] = {}

Starts(l) == telling' = [telling EXCEPT ![l] = In \ {l.of}]

-----------------------------------------------------------------------------
Init ==
  /\ status = [c \in People |-> "outside"]
  /\ telling = [l \in Lines |-> {}]
  /\ heard = [c \in People |-> {}]
  /\ open = TRUE

(* The room does not change while anybody is being told anything, so every *)
(* audience is the room as it was and still is.                            *)
Enter(c) ==
  /\ Quiet /\ status[c] = "outside"
  /\ status' = [status EXCEPT ![c] = "arrived"]
  /\ UNCHANGED <<telling, heard, open>>

(* Everybody who comes in is announced, once.                              *)
Announce(c) ==
  /\ NobodyLeaving /\ status[c] = "arrived"
  /\ status' = [status EXCEPT ![c] = "member"]
  /\ Starts(Line("joined", c))
  /\ UNCHANGED <<heard, open>>

(* Whoever has been announced may speak, one line at a time.  The room     *)
(* does not promise that a member who was said to leave is silent after.   *)
Speak(c) ==
  /\ NobodyLeaving /\ status[c] \in {"member", "left"}
  /\ telling[Line("joined", c)] = {} /\ telling[Line("chat", c)] = {}
  /\ Starts(Line("chat", c))
  /\ UNCHANGED <<status, heard, open>>

(* Leaving is told to everybody else.                                      *)
Leave(c) ==
  /\ Quiet /\ status[c] = "member"
  /\ status' = [status EXCEPT ![c] = "left"]
  /\ Starts(Line("left", c))
  /\ UNCHANGED <<heard, open>>

Tell(l, r) ==
  /\ r \in telling[l]
  /\ telling' = [telling EXCEPT ![l] = @ \ {r}]
  /\ heard' = [heard EXCEPT ![r] = @ \cup {l}] \/ UNCHANGED heard
  /\ UNCHANGED <<status, open>>

CloseDown ==
  /\ open /\ open' = FALSE
  /\ UNCHANGED <<status, telling, heard>>

(* Once the room is closing, people may go without a word.                 *)
SlipAway(c) ==
  /\ ~open /\ Quiet /\ status[c] = "member"
  /\ status' = [status EXCEPT ![c] = "left"]
  /\ UNCHANGED <<telling, heard, open>>

Next ==
  \/ CloseDown
  \/ \E c \in People : Enter(c) \/ Announce(c) \/ Speak(c) \/ Leave(c) \/ SlipAway(c)
  \/ \E l \in Lines, r \in People : Tell(l, r)

Spec == Init /\ [][Next]_vars
==============================================================================
