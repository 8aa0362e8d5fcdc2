------------------------------- MODULE Metrics -------------------------------
(***************************************************************************)
(* ServerMetrics of udp/metrics/metrics.go (that of tcp/metrics/metrics.go *)
(* has the same connection counters, touched in the same order): counters  *)
(* added to one by one by goroutines that share no lock, a maximum under a *)
(* mutex, and a report that loads one counter after another.               *)
(*                                                                         *)
(* Any goroutine may make any call at any time; nothing is assumed of who  *)
(* connects before who disconnects, which the servers do not keep to.      *)
(*                                                                         *)
(* Abstractions.  The critical section of the mutex is one step: nothing   *)
(* else writes the maximum.  Left out are the counters that no other is    *)
(* related to, and the maximum as a report sees it, which it loads without *)
(* the mutex.                                                              *)
(***************************************************************************)
EXTENDS Integers, FiniteSets

CONSTANTS
  Goroutines, \* those that call
  MaxSize,    \* of a message
  MaxCalls    \* bound: calls begun

ASSUME GoroutinesAssumption == IsFiniteSet(Goroutines)
ASSUME BoundsAssumption == MaxSize \in Nat /\ MaxCalls \in Nat

VARIABLES
  pc,       \* where each goroutine is
  current,  \* ClientConnected's `current`
  n,        \* the counters
  max,      \* MaxConcurrentClients
  reading,  \* the counter the report loads next, or "done"
  seen,     \* what it has loaded
  calls,    \* calls begun
  peak      \* history: the highest ActiveClients has been

vars == <<pc, current, n, max, reading, seen, calls, peak>>
reportVars == <<reading, seen>>

Counters == {"total", "active", "received", "disconnects", "abnormal", "size", "count"}
Places == {"idle", "counted", "raise", "dropped", "abnormal", "received", "sized"}

Init ==
  /\ pc = [g \in Goroutines |-> "idle"]
  /\ current = [g \in Goroutines |-> 0]
  /\ n = [c \in Counters |-> 0]
  /\ max = 0
  /\ reading = "done"
  /\ seen = [c \in Counters |-> 0]
  /\ calls = 0
  /\ peak = 0

(* An atomic.AddInt64, and on to the next one.                             *)
Adds(g, from, c, by, to) ==
  /\ pc[g] = from /\ pc' = [pc EXCEPT ![g] = to]
  /\ n' = [n EXCEPT ![c] = @ + by]
  /\ peak' = IF n'["active"] > peak THEN n'["active"] ELSE peak
  /\ UNCHANGED <<max, reportVars>>

Begins == calls < MaxCalls /\ calls' = calls + 1

-----------------------------------------------------------------------------
(* ClientConnected.                                                        *)

CountTotal(g) ==
  Begins /\ Adds(g, "idle", "total", 1, "counted") /\ UNCHANGED current

(* The new value is remembered.                                            *)
CountActive(g) ==
  /\ Adds(g, "counted", "active", 1, "raise")
  /\ current' = [current EXCEPT ![g] = n'["active"]]
  /\ UNCHANGED calls

(* Mutant: the maximum is compared with the counter as it is now.          *)
RaiseMax_Now(g) ==
  /\ pc[g] = "raise" /\ pc' = [pc EXCEPT ![g] = "idle"]
  /\ max' = IF n["active"] > max THEN n["active"] ELSE max
  /\ UNCHANGED <<current, n, reportVars, calls, peak>>

(* Mutant: the maximum is set without a look at it.                        *)
RaiseMax_Always(g) ==
  /\ pc[g] = "raise" /\ pc' = [pc EXCEPT ![g] = "idle"]
  /\ max' = current[g]
  /\ UNCHANGED <<current, n, reportVars, calls, peak>>

(* Under the mutex.                                                        *)
RaiseMax(g) ==
  /\ pc[g] = "raise" /\ pc' = [pc EXCEPT ![g] = "idle"]
  /\ max' = IF current[g] > max THEN current[g] ELSE max
  /\ UNCHANGED <<current, n, reportVars, calls, peak>>

(* ClientDisconnected.                                                     *)

DropActive(g) ==
  Begins /\ Adds(g, "idle", "active", -1, "dropped") /\ UNCHANGED current

(* Mutant: a client is counted as one or the other.                        *)
CountDisconnect_Either(g, abnormal) ==
  /\ Adds(g, "dropped", IF abnormal THEN "abnormal" ELSE "disconnects", 1, "idle")
  /\ UNCHANGED <<current, calls>>

CountDisconnect(g, abnormal) ==
  /\ Adds(g, "dropped", "disconnects", 1, IF abnormal THEN "abnormal" ELSE "idle")
  /\ UNCHANGED <<current, calls>>

CountAbnormal(g) ==
  Adds(g, "abnormal", "abnormal", 1, "idle") /\ UNCHANGED <<current, calls>>

(* MessageReceived.                                                        *)

CountReceived(g) ==
  Begins /\ Adds(g, "idle", "received", 1, "received") /\ UNCHANGED current

AddSize(g, size) ==
  Adds(g, "received", "size", size, "sized") /\ UNCHANGED <<current, calls>>

CountMessage(g) ==
  Adds(g, "sized", "count", 1, "idle") /\ UNCHANGED <<current, calls>>

-----------------------------------------------------------------------------
(* Report.                                                                 *)

(* Mutant: the total is loaded first.                                      *)
After_TotalFirst(c) ==
  CASE c = "done" -> "total" [] c = "total" -> "active" [] c = "active" -> "received"
    [] c = "received" -> "disconnects" [] c = "disconnects" -> "abnormal"
    [] c = "abnormal" -> "size" [] c = "size" -> "count" [] OTHER -> "done"

(* Mutant: the number of messages is loaded before their sizes.            *)
After_CountFirst(c) ==
  CASE c = "done" -> "active" [] c = "active" -> "total" [] c = "total" -> "received"
    [] c = "received" -> "disconnects" [] c = "disconnects" -> "abnormal"
    [] c = "abnormal" -> "count" [] c = "count" -> "size" [] OTHER -> "done"

(* The order of the loads.                                                 *)
After(c) ==
  CASE c = "done" -> "active" [] c = "active" -> "total" [] c = "total" -> "received"
    [] c = "received" -> "disconnects" [] c = "disconnects" -> "abnormal"
    [] c = "abnormal" -> "size" [] c = "size" -> "count" [] OTHER -> "done"

ReportStarts ==
  /\ reading = "done" /\ reading' = After("done")
  /\ UNCHANGED <<pc, current, n, max, seen, calls, peak>>

ReportLoads ==
  /\ reading # "done" /\ reading' = After(reading)
  /\ seen' = [seen EXCEPT ![reading] = n[reading]]
  /\ UNCHANGED <<pc, current, n, max, calls, peak>>

-----------------------------------------------------------------------------
Calls(g) ==
  \/ CountTotal(g) \/ CountActive(g) \/ RaiseMax(g)
  \/ DropActive(g) \/ CountAbnormal(g) \/ \E abnormal \in BOOLEAN : CountDisconnect(g, abnormal)
  \/ CountReceived(g) \/ CountMessage(g) \/ \E size \in 0..MaxSize : AddSize(g, size)

Next == ReportStarts \/ ReportLoads \/ \E g \in Goroutines : Calls(g)

Spec == Init /\ [][Next]_vars

-----------------------------------------------------------------------------
(* Properties.                                                             *)

(* Every variable holds a value of its type.                               *)
TypeOK ==
  /\ pc \in [Goroutines -> Places]
  /\ current \in [Goroutines -> Int]
  /\ n \in [Counters -> Int]
  /\ max \in Nat
  /\ reading \in Counters \cup {"done"}
  /\ seen \in [Counters -> Int]
  /\ calls \in 0..MaxCalls
  /\ peak \in Nat

(* The maximum is the highest the counter of active clients has been: when *)
(* no ClientConnected is under way it has missed no peak, whatever values  *)
(* of `current` were overtaken by other calls.                             *)
MaxIsPeak ==
  (\A g \in Goroutines : pc[g] # "raise") => max = peak

(* A report never shows more active clients than clients in total, though  *)
(* calls go on between its loads.                                          *)
ReportedActiveWithinTotal ==
  reading = "done" => seen["active"] <= seen["total"]

(* The sizes a report averages are those of the messages it divides by and *)
(* at most one more of each goroutine, however many messages come while it *)
(* loads.                                                                  *)
ReportedSizeCovered ==
  reading = "done" => seen["size"] <= MaxSize * (seen["count"] + Cardinality(Goroutines))

(* When no call is under way the counters agree: who is active has         *)
(* connected and not disconnected, an abnormal disconnect is a disconnect, *)
(* every message received has been counted.                                *)
CountersAgree ==
  (\A g \in Goroutines : pc[g] = "idle") =>
    /\ n["active"] = n["total"] - n["disconnects"]
    /\ n["abnormal"] <= n["disconnects"]
    /\ n["count"] = n["received"]
==============================================================================
