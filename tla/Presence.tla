------------------------------- MODULE Presence -------------------------------
(***************************************************************************)
(* What the UDP chat server promises of who is there, with no packets,     *)
(* structs, table, sweeps or timers.  A person is there from giving a name *)
(* until leaving, or until being silent for more than Limit periods, and   *)
(* not a period longer.  Each coming and going is told once.               *)
(*                                                                         *)
(* The promise is made to each person: Step(p) is what may become of p in  *)
(* a step, whatever becomes of the others.                                 *)
(***************************************************************************)
EXTENDS Integers

CONSTANTS
  People,
  Limit     \* periods of silence that are put up with

VARIABLES
  present,   \* those who are there
  arriving,  \* those of them who are still to be announced
  silent,    \* periods since each of those present was last heard of
  told       \* the last thing everybody was told of each person

Of(p) == <<present \cap {p}, arriving \cap {p}, silent[p], told[p]>>
vars == <<present, arriving, silent, told>>

-----------------------------------------------------------------------------
Init ==
  /\ present = {} /\ arriving = {}
  /\ silent = [p \in People |-> 0]
  /\ told = [p \in People |-> "none"]

(* Any sign of life will do.                                               *)
Heard(p) ==
  /\ p \in present /\ p \in present'
  /\ p \notin arriving /\ p \notin arriving'
  /\ silent'[p] = 0
  /\ told'[p] = told[p]

(* Who is there already cannot come in again.                              *)
Comes(p) ==
  /\ p \notin present /\ p \in present'
  /\ p \notin arriving /\ p \in arriving'
  /\ silent'[p] = 0
  /\ told'[p] = told[p]

Announced(p) ==
  /\ p \in present /\ p \in present'
  /\ p \in arriving /\ p \notin arriving'
  /\ told[p] # "joined" /\ told'[p] = "joined"
  /\ silent'[p] = silent[p]

(* Who has just been heard of may leave, and who has been silent too long  *)
(* is given up; either is told.                                            *)
Goes(p) ==
  /\ p \in present /\ p \notin present'
  /\ p \notin arriving /\ p \notin arriving'
  /\ silent[p] = 0 \/ silent[p] > Limit
  /\ silent'[p] = 0
  /\ told[p] = "joined" /\ told'[p] = "left"

(* No period begins while anybody is there who has been silent too long.   *)
PeriodPasses(p) ==
  /\ p \in present /\ p \in present'
  /\ p \notin arriving /\ p \notin arriving'
  /\ silent[p] <= Limit
  /\ silent'[p] = silent[p] + 1
  /\ told'[p] = told[p]

Step(p) ==
  [Heard(p) \/ Comes(p) \/ Announced(p) \/ Goes(p) \/ PeriodPasses(p)]_(Of(p))

Spec == Init /\ [][\A p \in People : Step(p)]_vars
===============================================================================
