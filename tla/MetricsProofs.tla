---------------------------- MODULE MetricsProofs ----------------------------
(***************************************************************************)
(* Theorems about Metrics, for any finite set of goroutines, any number of *)
(* calls and any size of message.                                          *)
(***************************************************************************)
EXTENDS Metrics, FiniteSetTheorems, TLAPS

(* A step keeps every variable within its type.                            *)
LEMMA TypeStep == TypeOK /\ [Next]_vars => TypeOK'
<1> SUFFICES ASSUME TypeOK, [Next]_vars PROVE TypeOK'
  OBVIOUS
<1> USE BoundsAssumption DEF TypeOK, Counters, Places, Begins, reportVars
<1>1. CASE UNCHANGED vars
  BY <1>1 DEF vars
<1>2. CASE ReportStarts \/ ReportLoads
  BY <1>2 DEF ReportStarts, ReportLoads, After
<1>3. ASSUME NEW g \in Goroutines, RaiseMax(g) PROVE TypeOK'
  BY <1>3 DEF RaiseMax
<1>4. ASSUME NEW g \in Goroutines, CountTotal(g) \/ DropActive(g) \/ CountReceived(g)
      PROVE  TypeOK'
  BY <1>4 DEF CountTotal, DropActive, CountReceived, Adds
<1>5. ASSUME NEW g \in Goroutines, CountActive(g) PROVE TypeOK'
  BY <1>5 DEF CountActive, Adds
<1>6. ASSUME NEW g \in Goroutines, CountAbnormal(g) \/ CountMessage(g) PROVE TypeOK'
  BY <1>6 DEF CountAbnormal, CountMessage, Adds
<1>7. ASSUME NEW g \in Goroutines, NEW abnormal \in BOOLEAN, CountDisconnect(g, abnormal)
      PROVE  TypeOK'
  BY <1>7 DEF CountDisconnect, Adds
<1>8. ASSUME NEW g \in Goroutines, NEW size \in 0..MaxSize, AddSize(g, size) PROVE TypeOK'
  BY <1>8 DEF AddSize, Adds
<1> QED
  BY <1>1, <1>2, <1>3, <1>4, <1>5, <1>6, <1>7, <1>8 DEF Next, Calls

(* Every variable of the metrics holds a value of its type; the maximum is *)
(* never negative, though the counter of active clients may be.            *)
THEOREM TypeCorrect == Spec => []TypeOK
<1>1. Init => TypeOK
  BY BoundsAssumption DEF Init, TypeOK, Counters, Places
<1> QED
  BY <1>1, TypeStep, PTL DEF Spec

-----------------------------------------------------------------------------
(* The maximum is the peak, or somebody on the way to the mutex holds it.  *)
Raising(g) == pc[g] = "raise"

PeakInv ==
  /\ TypeOK
  /\ n["active"] <= peak /\ max <= peak
  /\ \A g \in Goroutines : Raising(g) => current[g] <= peak
  /\ max = peak \/ \E g \in Goroutines : Raising(g) /\ current[g] = peak

(* Additions that leave the counter of active clients alone, or lower it,  *)
(* and keep clear of the maximum.                                          *)
LEMMA AddsKeepPeak ==
  ASSUME PeakInv, NEW g \in Goroutines, NEW from \in Places, NEW to \in Places,
         NEW c \in Counters, NEW by \in Int, c = "active" => by <= 0,
         from # "raise", to # "raise", Adds(g, from, c, by, to), UNCHANGED current, TypeOK'
  PROVE  PeakInv'
<1>1. peak' = peak /\ max' = max /\ n'["active"] <= peak
  BY DEF PeakInv, TypeOK, Adds, Counters
<1>2. \A h \in Goroutines : Raising(h)' <=> Raising(h)
  BY DEF PeakInv, TypeOK, Adds, Raising
<1> QED
  BY <1>1, <1>2 DEF PeakInv

LEMMA PeakStep == PeakInv /\ [Next]_vars => PeakInv'
<1> SUFFICES ASSUME PeakInv, [Next]_vars PROVE PeakInv'
  OBVIOUS
<1>t. TypeOK'
  BY TypeStep DEF PeakInv
<1> USE <1>t
<1>1. CASE UNCHANGED vars
  BY <1>1 DEF vars, PeakInv, Raising
<1>2. CASE ReportStarts \/ ReportLoads
  BY <1>2 DEF ReportStarts, ReportLoads, PeakInv, Raising
<1>3. ASSUME NEW g \in Goroutines, RaiseMax(g) PROVE PeakInv'
  <2>1. \A h \in Goroutines : h # g => (Raising(h)' <=> Raising(h))
    BY <1>3 DEF RaiseMax, PeakInv, TypeOK, Raising
  <2>2. Raising(g) /\ ~Raising(g)'
    BY <1>3 DEF RaiseMax, PeakInv, TypeOK, Raising
  <2>3. max' >= max /\ max' >= current[g] /\ max' <= peak
    BY <1>3, <2>2 DEF RaiseMax, PeakInv, TypeOK
  <2>4. UNCHANGED <<n, current, peak>>
    BY <1>3 DEF RaiseMax
  <2> QED
    BY <2>1, <2>2, <2>3, <2>4 DEF PeakInv, TypeOK
<1>4. ASSUME NEW g \in Goroutines, CountActive(g) PROVE PeakInv'
  <2>1. \A h \in Goroutines : h # g => (Raising(h)' <=> Raising(h)) /\ current'[h] = current[h]
    BY <1>4 DEF CountActive, Adds, PeakInv, TypeOK, Raising
  <2>2. ~Raising(g) /\ Raising(g)' /\ current'[g] = n'["active"]
    BY <1>4 DEF CountActive, Adds, PeakInv, TypeOK, Raising
  <2>3. max' = max /\ n'["active"] \in Int
    BY <1>4, <1>t DEF CountActive, Adds, TypeOK, Counters
  <2>4. peak' = IF n'["active"] > peak THEN n'["active"] ELSE peak
    BY <1>4 DEF CountActive, Adds
  <2> QED
    BY <2>1, <2>2, <2>3, <2>4 DEF PeakInv, TypeOK
<1>5. ASSUME NEW g \in Goroutines, CountTotal(g) \/ DropActive(g) \/ CountReceived(g)
      PROVE  PeakInv'
  BY <1>5, AddsKeepPeak DEF CountTotal, DropActive, CountReceived, Counters, Places
<1>6. ASSUME NEW g \in Goroutines, CountAbnormal(g) \/ CountMessage(g) PROVE PeakInv'
  BY <1>6, AddsKeepPeak DEF CountAbnormal, CountMessage, Counters, Places
<1>7. ASSUME NEW g \in Goroutines, NEW abnormal \in BOOLEAN, CountDisconnect(g, abnormal)
      PROVE  PeakInv'
  BY <1>7, AddsKeepPeak DEF CountDisconnect, Counters, Places
<1>8. ASSUME NEW g \in Goroutines, NEW size \in 0..MaxSize, AddSize(g, size) PROVE PeakInv'
  BY <1>8, AddsKeepPeak DEF AddSize, Counters, Places
<1> QED
  BY <1>1, <1>2, <1>3, <1>4, <1>5, <1>6, <1>7, <1>8 DEF Next, Calls

(* The maximum misses no peak of the counter of active clients, whatever   *)
(* calls overtake the one that saw it.                                     *)
THEOREM PeakCorrect == Spec => []MaxIsPeak
<1>1. Init => PeakInv
  BY BoundsAssumption DEF Init, PeakInv, TypeOK, Raising, Counters, Places
<1>2. PeakInv => MaxIsPeak
  BY DEF PeakInv, MaxIsPeak, Raising
<1> QED
  BY <1>1, <1>2, PeakStep, PTL DEF Spec

-----------------------------------------------------------------------------
(* Everybody who is active, or about to be counted so, is in the total.    *)
Counted == {g \in Goroutines : pc[g] = "counted"}

TotalCovers == n["active"] + Cardinality(Counted) <= n["total"]

(* What a report has loaded: an active count once total, from then on no   *)
(* more than the total as it is, and then no more than the total loaded.   *)
LoadedInOrder ==
  /\ reading = "total" => seen["active"] <= n["total"]
  /\ reading \notin {"active", "total"} => seen["active"] <= seen["total"]

ReportInv == TypeOK /\ TotalCovers /\ LoadedInOrder

LEMMA CountedIsFinite ==
  ASSUME TypeOK PROVE IsFiniteSet(Counted) /\ Cardinality(Counted) \in Nat
BY GoroutinesAssumption, FS_Subset, FS_CardinalityType DEF Counted

(* Additions to other counters than these two, or that lower the active.   *)
LEMMA AddsKeepReport ==
  ASSUME ReportInv, NEW g \in Goroutines, NEW from \in Places, NEW to \in Places,
         NEW c \in Counters, NEW by \in Int, c # "total", c = "active" => by <= 0,
         from # "counted", to # "counted", Adds(g, from, c, by, to), TypeOK'
  PROVE  ReportInv'
<1>1. Counted' = Counted
  BY DEF ReportInv, TypeOK, Adds, Counted
<1>2. n'["total"] = n["total"] /\ n'["active"] <= n["active"]
  BY DEF ReportInv, TypeOK, Adds, Counters
<1>3. reading' = reading /\ seen' = seen
  BY DEF Adds, reportVars
<1>4. Cardinality(Counted) \in Nat
  BY CountedIsFinite DEF ReportInv
<1>5. n["active"] \in Int /\ n["total"] \in Int /\ n'["active"] \in Int
  BY DEF ReportInv, TypeOK, Counters
<1>6. TotalCovers'
  BY <1>1, <1>2, <1>4, <1>5 DEF ReportInv, TotalCovers
<1> QED
  BY <1>2, <1>3, <1>6 DEF ReportInv, LoadedInOrder

LEMMA ReportStep == ReportInv /\ [Next]_vars => ReportInv'
<1> SUFFICES ASSUME ReportInv, [Next]_vars PROVE ReportInv'
  OBVIOUS
<1>t. TypeOK'
  BY TypeStep DEF ReportInv
<1>n. n["active"] \in Int /\ n["total"] \in Int /\ IsFiniteSet(Counted)
      /\ Cardinality(Counted) \in Nat
  BY CountedIsFinite DEF ReportInv, TypeOK, Counters
<1>1. CASE UNCHANGED vars
  BY <1>1, <1>t DEF vars, ReportInv, TotalCovers, LoadedInOrder, Counted
<1>2. CASE ReportStarts \/ ReportLoads
  <2>1. UNCHANGED <<pc, n>>
    BY <1>2 DEF ReportStarts, ReportLoads
  <2>2. TotalCovers'
    BY <2>1 DEF ReportInv, TotalCovers, Counted
  <2>3. LoadedInOrder'
    BY <1>2, <1>n DEF ReportStarts, ReportLoads, ReportInv, TotalCovers, LoadedInOrder, TypeOK,
                      Counters, After
  <2> QED
    BY <2>2, <2>3, <1>t DEF ReportInv
<1>3. ASSUME NEW g \in Goroutines, RaiseMax(g) PROVE ReportInv'
  <2>1. Counted' = Counted
    BY <1>3 DEF RaiseMax, ReportInv, TypeOK, Counted
  <2> QED
    BY <1>3, <2>1, <1>t DEF RaiseMax, ReportInv, TotalCovers, LoadedInOrder, reportVars
<1>4. ASSUME NEW g \in Goroutines, CountTotal(g) PROVE ReportInv'
  <2>1. g \notin Counted /\ Counted' = Counted \cup {g}
    BY <1>4 DEF CountTotal, Adds, ReportInv, TypeOK, Counted
  <2>2. Cardinality(Counted') = Cardinality(Counted) + 1
    BY <2>1, <1>n, FS_AddElement
  <2>3. n'["total"] = n["total"] + 1 /\ n'["active"] = n["active"]
    BY <1>4 DEF CountTotal, Adds, ReportInv, TypeOK, Counters
  <2>4. reading' = reading /\ seen' = seen /\ seen["active"] \in Int
    BY <1>4 DEF CountTotal, Adds, reportVars, ReportInv, TypeOK, Counters
  <2>5. TotalCovers'
    BY <2>2, <2>3, <1>n DEF ReportInv, TotalCovers
  <2> QED
    BY <2>3, <2>4, <2>5, <1>n, <1>t DEF ReportInv, LoadedInOrder
<1>5. ASSUME NEW g \in Goroutines, CountActive(g) PROVE ReportInv'
  <2>1. g \in Counted /\ Counted' = Counted \ {g}
    BY <1>5 DEF CountActive, Adds, ReportInv, TypeOK, Counted
  <2>2. Cardinality(Counted') = Cardinality(Counted) - 1
    BY <2>1, <1>n, FS_RemoveElement
  <2>3. n'["total"] = n["total"] /\ n'["active"] = n["active"] + 1
    BY <1>5 DEF CountActive, Adds, ReportInv, TypeOK, Counters
  <2>4. reading' = reading /\ seen' = seen
    BY <1>5 DEF CountActive, Adds, reportVars
  <2>5. TotalCovers'
    BY <2>2, <2>3, <1>n DEF ReportInv, TotalCovers
  <2> QED
    BY <2>3, <2>4, <2>5, <1>t DEF ReportInv, LoadedInOrder
<1>6. ASSUME NEW g \in Goroutines, DropActive(g) \/ CountReceived(g) PROVE ReportInv'
  BY <1>6, <1>t, AddsKeepReport DEF DropActive, CountReceived, Counters, Places
<1>7. ASSUME NEW g \in Goroutines, CountAbnormal(g) \/ CountMessage(g) PROVE ReportInv'
  BY <1>7, <1>t, AddsKeepReport DEF CountAbnormal, CountMessage, Counters, Places
<1>8. ASSUME NEW g \in Goroutines, NEW abnormal \in BOOLEAN, CountDisconnect(g, abnormal)
      PROVE  ReportInv'
  BY <1>8, <1>t, AddsKeepReport DEF CountDisconnect, Counters, Places
<1>9. ASSUME NEW g \in Goroutines, NEW size \in 0..MaxSize, AddSize(g, size) PROVE ReportInv'
  BY <1>9, <1>t, AddsKeepReport DEF AddSize, Counters, Places
<1> QED
  BY <1>1, <1>2, <1>3, <1>4, <1>5, <1>6, <1>7, <1>8, <1>9 DEF Next, Calls

(* No report shows more active clients than clients in total.              *)
THEOREM ReportCorrect == Spec => []ReportedActiveWithinTotal
<1>1. Init => ReportInv
  <2>1. ASSUME Init PROVE TypeOK
    BY <2>1, BoundsAssumption DEF Init, TypeOK, Counters, Places
  <2>2. ASSUME Init PROVE Counted = {}
    BY <2>2 DEF Init, Counted
  <2> QED
    BY <2>1, <2>2, FS_EmptySet DEF Init, ReportInv, TotalCovers, LoadedInOrder, Counters
<1>2. ReportInv => ReportedActiveWithinTotal
  BY DEF ReportInv, LoadedInOrder, ReportedActiveWithinTotal
<1> QED
  BY <1>1, <1>2, ReportStep, PTL DEF Spec

-----------------------------------------------------------------------------
(* Calls under way, told by how far they have come.                        *)
At(place) == {g \in Goroutines : pc[g] = place}
HowMany(place) == Cardinality(At(place))

LEMMA HowManyType ==
  ASSUME NEW place \in Places
  PROVE  IsFiniteSet(At(place)) /\ HowMany(place) \in Nat /\ HowMany(place) <= Cardinality(Goroutines)
BY GoroutinesAssumption, FS_Subset, FS_CardinalityType DEF At, HowMany

(* A goroutine that moves on is one fewer where it was, one more where it  *)
(* comes to.                                                               *)
LEMMA MovingOn ==
  ASSUME TypeOK, NEW g \in Goroutines, NEW from \in Places, NEW to \in Places, from # to,
         pc[g] = from, pc' = [pc EXCEPT ![g] = to]
  PROVE  /\ HowMany(from)' = HowMany(from) - 1
         /\ HowMany(to)' = HowMany(to) + 1
         /\ \A place \in Places \ {from, to} : HowMany(place)' = HowMany(place)
<1>1. /\ g \in At(from) /\ At(from)' = At(from) \ {g}
      /\ g \notin At(to) /\ At(to)' = At(to) \cup {g}
      /\ \A place \in Places \ {from, to} : At(place)' = At(place)
  BY DEF TypeOK, At
<1>2. IsFiniteSet(At(from)) /\ IsFiniteSet(At(to))
  BY HowManyType
<1>3. Cardinality(At(from)') = Cardinality(At(from)) - 1
  BY <1>1, <1>2, FS_RemoveElement
<1>4. Cardinality(At(to)') = Cardinality(At(to)) + 1
  BY <1>1, <1>2, FS_AddElement
<1> QED
  BY <1>1, <1>3, <1>4 DEF HowMany

-----------------------------------------------------------------------------
(* The counters agree but for the calls under way, each of which is owed   *)
(* what it has still to add.                                               *)
ConnectionsOwed ==
  n["active"] = n["total"] - HowMany("counted") - (n["disconnects"] + HowMany("dropped"))
AbnormalOwed == n["abnormal"] + HowMany("abnormal") <= n["disconnects"]
MessagesOwed == n["received"] = n["count"] + HowMany("received") + HowMany("sized")

OwedInv == TypeOK /\ ConnectionsOwed /\ AbnormalOwed /\ MessagesOwed

(* Steps that touch no counter and no call that is owed something.         *)
LEMMA OwedKept ==
  ASSUME OwedInv, TypeOK', n' = n, \A place \in Places \ {"idle", "raise"} : At(place)' = At(place)
  PROVE  OwedInv'
BY DEF OwedInv, ConnectionsOwed, AbnormalOwed, MessagesOwed, HowMany, Places

LEMMA OwedStep == OwedInv /\ [Next]_vars => OwedInv'
<1> SUFFICES ASSUME OwedInv, [Next]_vars PROVE OwedInv'
  OBVIOUS
<1>t. TypeOK'
  BY TypeStep DEF OwedInv
<1>p. /\ pc \in [Goroutines -> Places] /\ n \in [Counters -> Int]
      /\ \A place \in Places : HowMany(place) \in Nat
  BY HowManyType DEF OwedInv, TypeOK
<1>1. CASE UNCHANGED vars
  BY <1>1, <1>t, OwedKept DEF vars, At
<1>2. CASE ReportStarts \/ ReportLoads
  BY <1>2, <1>t, OwedKept DEF ReportStarts, ReportLoads, At
<1>3. ASSUME NEW g \in Goroutines, RaiseMax(g) PROVE OwedInv'
  BY <1>3, <1>t, <1>p, OwedKept DEF RaiseMax, At, Places
<1>4. ASSUME NEW g \in Goroutines, Calls(g), ~RaiseMax(g)
      PROVE  ConnectionsOwed' /\ AbnormalOwed' /\ MessagesOwed'
  <2>m. ASSUME NEW from \in Places, NEW c \in Counters, NEW by \in Int, NEW to \in Places,
               from # to, Adds(g, from, c, by, to)
        PROVE  /\ n' = [n EXCEPT ![c] = @ + by]
               /\ HowMany(from)' = HowMany(from) - 1
               /\ HowMany(to)' = HowMany(to) + 1
               /\ \A place \in Places \ {from, to} : HowMany(place)' = HowMany(place)
    BY <2>m, MovingOn DEF Adds, OwedInv
  <2> USE DEF OwedInv, ConnectionsOwed, AbnormalOwed, MessagesOwed, Places, Counters
  <2>1. CASE CountTotal(g)
    BY <2>1, <2>m, <1>p DEF CountTotal
  <2>2. CASE CountActive(g)
    BY <2>2, <2>m, <1>p DEF CountActive
  <2>3. CASE DropActive(g)
    BY <2>3, <2>m, <1>p DEF DropActive
  <2>4. CASE CountAbnormal(g)
    BY <2>4, <2>m, <1>p DEF CountAbnormal
  <2>5. ASSUME NEW abnormal \in BOOLEAN, CountDisconnect(g, abnormal)
        PROVE  ConnectionsOwed' /\ AbnormalOwed' /\ MessagesOwed'
    <3>1. CASE abnormal
      <4>1. Adds(g, "dropped", "disconnects", 1, "abnormal")
        BY <2>5, <3>1 DEF CountDisconnect
      <4>2. /\ n' = [n EXCEPT !["disconnects"] = @ + 1]
            /\ HowMany("dropped")' = HowMany("dropped") - 1
            /\ HowMany("abnormal")' = HowMany("abnormal") + 1
            /\ \A place \in Places \ {"dropped", "abnormal"} : HowMany(place)' = HowMany(place)
        BY <4>1, <2>m
      <4> QED
        BY <4>2, <1>p
    <3>2. CASE ~abnormal
      <4>1. Adds(g, "dropped", "disconnects", 1, "idle")
        BY <2>5, <3>2 DEF CountDisconnect
      <4> QED
        BY <4>1, <2>m, <1>p
    <3> QED
      BY <3>1, <3>2
  <2>6. CASE CountReceived(g)
    BY <2>6, <2>m, <1>p DEF CountReceived
  <2>7. CASE CountMessage(g)
    BY <2>7, <2>m, <1>p DEF CountMessage
  <2>8. ASSUME NEW size \in 0..MaxSize, AddSize(g, size)
        PROVE  ConnectionsOwed' /\ AbnormalOwed' /\ MessagesOwed'
    <3>1. size \in Int /\ Adds(g, "received", "size", size, "sized")
      BY <2>8, BoundsAssumption DEF AddSize
    <3>2. /\ n' = [n EXCEPT !["size"] = @ + size]
          /\ HowMany("received")' = HowMany("received") - 1
          /\ HowMany("sized")' = HowMany("sized") + 1
          /\ \A place \in Places \ {"received", "sized"} : HowMany(place)' = HowMany(place)
      BY <3>1, <2>m
    <3> QED
      BY <3>2, <1>p
  <2> QED
    BY <1>4, <2>1, <2>2, <2>3, <2>4, <2>5, <2>6, <2>7, <2>8 DEF Calls
<1> QED
  BY <1>1, <1>2, <1>3, <1>4, <1>t DEF Next, OwedInv

(* When no call is under way the counters agree (ClientConnected,          *)
(* ClientDisconnected and MessageReceived, called in any interleaving).    *)
THEOREM CountersCorrect == Spec => []CountersAgree
<1>1. Init => OwedInv
  <2> SUFFICES ASSUME Init PROVE OwedInv
    OBVIOUS
  <2>1. TypeOK
    BY BoundsAssumption DEF Init, TypeOK, Counters, Places
  <2>2. \A place \in Places \ {"idle"} : HowMany(place) = 0
    BY FS_EmptySet DEF Init, HowMany, At
  <2> QED
    BY <2>1, <2>2 DEF Init, OwedInv, ConnectionsOwed, AbnormalOwed, MessagesOwed, Counters, Places
<1>2. OwedInv => CountersAgree
  <2> SUFFICES ASSUME OwedInv, \A g \in Goroutines : pc[g] = "idle" PROVE CountersAgree
    BY DEF CountersAgree
  <2>1. \A place \in Places \ {"idle"} : HowMany(place) = 0
    BY FS_EmptySet DEF HowMany, At
  <2>2. n \in [Counters -> Int]
    BY DEF OwedInv, TypeOK
  <2> QED
    BY <2>1, <2>2 DEF OwedInv, ConnectionsOwed, AbnormalOwed, MessagesOwed, CountersAgree, Counters, Places
<1> QED
  BY <1>1, <1>2, OwedStep, PTL DEF Spec

-----------------------------------------------------------------------------
(* The sizes are those of the messages counted and of the calls that have  *)
(* added a size and not yet counted the message; a report that has loaded  *)
(* the sizes has them covered by the count it is about to load.            *)
SizesCovered == n["size"] <= MaxSize * (n["count"] + HowMany("sized"))

SizesLoaded ==
  reading = "count" => seen["size"] <= MaxSize * (n["count"] + Cardinality(Goroutines))

SizeInv == TypeOK /\ SizesCovered /\ SizesLoaded /\ ReportedSizeCovered

LEMMA Scaled ==
  ASSUME NEW m \in Nat, NEW x \in Int, NEW y \in Int, x <= y
  PROVE  m * x \in Int /\ m * x <= m * y /\ m * (x + 1) = m * x + m
OBVIOUS

(* Steps that touch neither sizes nor count, nor a call between the two.   *)
LEMMA SizesKept ==
  ASSUME SizeInv, TypeOK', UNCHANGED <<reading, seen, n["size"], n["count"], HowMany("sized")>>
  PROVE  SizeInv'
BY DEF SizeInv, SizesCovered, SizesLoaded, ReportedSizeCovered

LEMMA SizeStep == SizeInv /\ [Next]_vars => SizeInv'
<1> SUFFICES ASSUME SizeInv, [Next]_vars PROVE SizeInv'
  OBVIOUS
<1>t. TypeOK'
  BY TypeStep DEF SizeInv
<1>g. /\ Cardinality(Goroutines) \in Nat
      /\ HowMany("sized") \in Nat /\ HowMany("sized") <= Cardinality(Goroutines)
  BY HowManyType, GoroutinesAssumption, FS_CardinalityType DEF SizeInv, Places
<1>n. /\ n["size"] \in Int /\ n["count"] \in Int /\ seen["size"] \in Int /\ MaxSize \in Nat
      /\ n \in [Counters -> Int] /\ pc \in [Goroutines -> Places]
  BY BoundsAssumption DEF SizeInv, TypeOK, Counters
<1>1. CASE UNCHANGED vars
  BY <1>1, <1>t, SizesKept DEF vars, HowMany, At
<1>2. CASE ReportStarts \/ ReportLoads
  <2>1. UNCHANGED <<n, HowMany("sized")>>
    BY <1>2 DEF ReportStarts, ReportLoads, HowMany, At
  <2>2. SizesCovered'
    BY <2>1 DEF SizeInv, SizesCovered
  <2>3. CASE reading \notin {"size", "count"}
    BY <1>2, <1>t, <2>2, <2>3 DEF ReportStarts, ReportLoads, After, SizeInv, SizesLoaded,
                                  ReportedSizeCovered, TypeOK, Counters
  <2>4. CASE reading = "size"
    <3>1. reading' = "count" /\ seen'["size"] = n["size"] /\ n' = n
      BY <1>2, <2>4 DEF ReportStarts, ReportLoads, After, SizeInv, TypeOK, Counters
    <3>2. MaxSize * (n["count"] + HowMany("sized")) <= MaxSize * (n["count"] + Cardinality(Goroutines))
      BY <1>g, <1>n, Scaled
    <3>3. seen'["size"] <= MaxSize * (n'["count"] + Cardinality(Goroutines))
      <4>1. n["count"] + HowMany("sized") \in Int /\ n["count"] + Cardinality(Goroutines) \in Int
        BY <1>g, <1>n
      <4>2. /\ MaxSize * (n["count"] + HowMany("sized")) \in Int
            /\ MaxSize * (n["count"] + Cardinality(Goroutines)) \in Int
        BY <4>1, <1>n, Scaled
      <4> QED
        BY <3>1, <3>2, <4>2, <1>n DEF SizeInv, SizesCovered
    <3> QED
      BY <3>1, <3>3, <2>2, <1>t DEF SizeInv, SizesLoaded, ReportedSizeCovered
  <2>5. CASE reading = "count"
    <3>1. /\ reading' = "done" /\ seen'["size"] = seen["size"] /\ seen'["count"] = n["count"]
      BY <1>2, <2>5 DEF ReportStarts, ReportLoads, After, SizeInv, TypeOK, Counters
    <3> QED
      BY <2>5, <3>1, <2>2, <1>t DEF SizeInv, SizesLoaded, ReportedSizeCovered
  <2> QED
    BY <2>3, <2>4, <2>5
<1>3. ASSUME NEW g \in Goroutines, RaiseMax(g) PROVE SizeInv'
  <2>1. HowMany("sized")' = HowMany("sized")
    BY <1>3, <1>n DEF RaiseMax, HowMany, At, Places
  <2> QED
    BY <1>3, <1>t, <2>1, SizesKept DEF RaiseMax, reportVars
<1>m. ASSUME NEW g \in Goroutines, NEW from \in Places, NEW c \in Counters, NEW by \in Int,
             NEW to \in Places, from # to, Adds(g, from, c, by, to)
      PROVE  /\ UNCHANGED <<reading, seen>> /\ n' = [n EXCEPT ![c] = @ + by]
             /\ HowMany(from)' = HowMany(from) - 1
             /\ HowMany(to)' = HowMany(to) + 1
             /\ \A place \in Places \ {from, to} : HowMany(place)' = HowMany(place)
  BY <1>m, MovingOn DEF Adds, reportVars, SizeInv
<1>k. ASSUME NEW g \in Goroutines, NEW from \in Places, NEW c \in Counters, NEW by \in Int,
             NEW to \in Places, from # to, Adds(g, from, c, by, to),
             c \notin {"size", "count"}, "sized" \notin {from, to}
      PROVE  SizeInv'
  <2>1. UNCHANGED <<reading, seen, n["size"], n["count"], HowMany("sized")>>
    BY <1>k, <1>m, <1>n DEF Places, Counters
  <2> QED
    BY <1>t, <2>1, SizesKept
<1>4. ASSUME NEW g \in Goroutines, CountTotal(g) \/ CountActive(g) \/ DropActive(g) \/ CountReceived(g)
      PROVE  SizeInv'
  BY <1>4, <1>k DEF CountTotal, CountActive, DropActive, CountReceived, Places, Counters
<1>5. ASSUME NEW g \in Goroutines, CountAbnormal(g) PROVE SizeInv'
  BY <1>5, <1>k DEF CountAbnormal, Places, Counters
<1>6. ASSUME NEW g \in Goroutines, NEW abnormal \in BOOLEAN, CountDisconnect(g, abnormal)
      PROVE  SizeInv'
  BY <1>6, <1>k DEF CountDisconnect, Places, Counters
<1>7. ASSUME NEW g \in Goroutines, NEW size \in 0..MaxSize, AddSize(g, size) PROVE SizeInv'
  <2>1. size \in Int /\ size <= MaxSize /\ Adds(g, "received", "size", size, "sized")
    BY <1>7, <1>n DEF AddSize
  <2>2. /\ UNCHANGED <<reading, seen>> /\ n' = [n EXCEPT !["size"] = @ + size]
        /\ HowMany("sized")' = HowMany("sized") + 1
    BY <2>1, <1>m DEF Places, Counters
  <2>3. n'["size"] = n["size"] + size /\ n'["count"] = n["count"]
    BY <2>2, <1>n DEF Counters
  <2>4. SizesCovered'
    <3> DEFINE k == n["count"] + HowMany("sized")
    <3>1. k \in Int /\ n'["count"] + HowMany("sized")' = k + 1
      BY <2>2, <2>3, <1>g, <1>n
    <3>2. MaxSize * k \in Int /\ MaxSize * (k + 1) = MaxSize * k + MaxSize
      BY <3>1, <1>n, Scaled
    <3>3. n["size"] <= MaxSize * k
      BY DEF SizeInv, SizesCovered
    <3> HIDE DEF k
    <3>4. n'["size"] <= MaxSize * (k + 1)
      BY <2>1, <2>3, <3>2, <3>3, <1>n
    <3> QED
      BY <3>1, <3>4 DEF SizesCovered
  <2>5. SizesLoaded' /\ ReportedSizeCovered'
    BY <2>2, <2>3 DEF SizeInv, SizesLoaded, ReportedSizeCovered
  <2> QED
    BY <1>t, <2>4, <2>5 DEF SizeInv
<1>8. ASSUME NEW g \in Goroutines, CountMessage(g) PROVE SizeInv'
  <2>1. /\ UNCHANGED <<reading, seen>> /\ n' = [n EXCEPT !["count"] = @ + 1]
        /\ HowMany("sized")' = HowMany("sized") - 1
    BY <1>8, <1>m DEF CountMessage, Places, Counters
  <2>2. n'["size"] = n["size"] /\ n'["count"] = n["count"] + 1
    BY <2>1, <1>n DEF Counters
  <2>3. SizesCovered'
    <3>1. n'["count"] + HowMany("sized")' = n["count"] + HowMany("sized")
      BY <2>1, <2>2, <1>g, <1>n
    <3> QED
      BY <2>2, <3>1 DEF SizeInv, SizesCovered
  <2>4. SizesLoaded'
    <3> DEFINE k == n["count"] + Cardinality(Goroutines)
    <3>1. k \in Int /\ n'["count"] + Cardinality(Goroutines) = k + 1
      BY <2>2, <1>g, <1>n
    <3>2. MaxSize * k \in Int /\ MaxSize * (k + 1) = MaxSize * k + MaxSize
      BY <3>1, <1>n, Scaled
    <3>3. reading = "count" => seen["size"] <= MaxSize * k
      BY DEF SizeInv, SizesLoaded
    <3> HIDE DEF k
    <3>4. reading = "count" => seen["size"] <= MaxSize * (k + 1)
      BY <3>2, <3>3, <1>n
    <3> QED
      BY <2>1, <3>1, <3>4 DEF SizesLoaded
  <2>5. ReportedSizeCovered'
    BY <2>1 DEF SizeInv, ReportedSizeCovered
  <2> QED
    BY <1>t, <2>3, <2>4, <2>5 DEF SizeInv
<1> QED
  BY <1>1, <1>2, <1>3, <1>4, <1>5, <1>6, <1>7, <1>8 DEF Next, Calls

(* The sizes a report averages are those of the messages it divides by and *)
(* at most one more of each goroutine (Report loads the sizes first).      *)
THEOREM SizesCorrect == Spec => []ReportedSizeCovered
<1>1. Init => SizeInv
  <2> SUFFICES ASSUME Init PROVE SizeInv
    OBVIOUS
  <2>1. TypeOK
    BY BoundsAssumption DEF Init, TypeOK, Counters, Places
  <2>2. n["size"] = 0 /\ n["count"] = 0 /\ seen["size"] = 0 /\ seen["count"] = 0 /\ reading = "done"
    BY DEF Init, Counters
  <2>3. HowMany("sized") \in Nat /\ Cardinality(Goroutines) \in Nat
    BY <2>1, HowManyType, GoroutinesAssumption, FS_CardinalityType DEF Places
  <2>4. 0 <= MaxSize * HowMany("sized") /\ 0 <= MaxSize * Cardinality(Goroutines)
    BY <2>3, BoundsAssumption
  <2> QED
    BY <2>1, <2>2, <2>3, <2>4 DEF SizeInv, SizesCovered, SizesLoaded, ReportedSizeCovered
<1>2. SizeInv => ReportedSizeCovered
  BY DEF SizeInv
<1> QED
  BY <1>1, <1>2, SizeStep, PTL DEF Spec
==============================================================================
