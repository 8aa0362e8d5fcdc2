--------------------------- MODULE UdpServerProofs ---------------------------
(***************************************************************************)
(* Theorems about UdpServer, for any number of addresses and structs and   *)
(* any timeout and delay.                                                  *)
(***************************************************************************)
EXTENDS UdpServer, FiniteSetTheorems, TLAPS

(* The table's entries, the receiver's struct, and the sweep's are held.   *)
LEMMA HeldStructs ==
  ASSUME TypeOK
  PROVE  /\ \A a \in Addrs : clients[a] # None => clients[a] \in Held
         /\ cur # None => cur \in Held
         /\ target # None => target \in Held
         /\ sweep \subseteq Held
  BY DEF TypeOK, Held, Entries

(* A timer more in a row of timers.                                        *)
LEMMA CountUp ==
  ASSUME NEW S, NEW t \in [S -> Nat], NEW k \in S
  PROVE  [t EXCEPT ![k] = @ + 1] \in [S -> Nat]
<1>1. t[k] + 1 \in Nat
  OBVIOUS
<1> QED
  BY <1>1

(* A timer less.                                                           *)
LEMMA CountDown ==
  ASSUME NEW S, NEW t \in [S -> Nat], NEW k \in S, t[k] > 0
  PROVE  [t EXCEPT ![k] = @ - 1] \in [S -> Nat]
<1>1. t[k] - 1 \in Nat
  OBVIOUS
<1> QED
  BY <1>1

(* HandleClientDisconnect writes values of the right types.                *)
LEMMA DisconnectType ==
  ASSUME TypeOK, NEW o \in Objs, addr[o] \in Addrs, Disconnect(o)
  PROVE  /\ connected' \in [Objs -> BOOLEAN]
         /\ timers' \in [Addrs -> [0..Delay -> Nat]]
         /\ notice' \in [Addrs -> {"none", "joined", "left"}]
         /\ active' \in Int
<1> USE TimesAssumption DEF TypeOK, Disconnect
<1>1. CASE clients[addr[o]] # None /\ connected[o]
  <2>1. timers' = [timers EXCEPT ![addr[o]] = [timers[addr[o]] EXCEPT ![Delay] = @ + 1]]
    BY <1>1
  <2>2. Delay \in 0..Delay /\ timers[addr[o]] \in [0..Delay -> Nat]
    OBVIOUS
  <2>3. [timers[addr[o]] EXCEPT ![Delay] = @ + 1] \in [0..Delay -> Nat]
    BY <2>2, CountUp
  <2>4. timers' \in [Addrs -> [0..Delay -> Nat]]
    BY <2>1, <2>3
  <2>5. connected' \in [Objs -> BOOLEAN] /\ notice' \in [Addrs -> {"none", "joined", "left"}]
    BY <1>1
  <2>6. active' \in Int
    BY <1>1
  <2> QED
    BY <2>4, <2>5, <2>6
<1>2. CASE ~(clients[addr[o]] # None /\ connected[o])
  BY <1>2
<1> QED
  BY <1>1, <1>2

(* The record of crossings holds addresses and a number.                   *)
LEMMA RecordType ==
  ASSUME crossed \in SUBSET Addrs, crossings \in Nat, NEW a \in Addrs,
         Crosses(a) \/ UNCHANGED record
  PROVE  crossed' \in SUBSET Addrs /\ crossings' \in Nat
BY DEF Crosses, record

(* A step keeps every variable within its type.                            *)
LEMMA TypeStep == TypeOK /\ [Next]_vars => TypeOK'
<1> SUFFICES ASSUME TypeOK, [Next]_vars PROVE TypeOK'
  OBVIOUS
<1>h. /\ \A a \in Addrs : clients[a] # None => clients[a] \in Held
      /\ cur # None => cur \in Held
      /\ target # None => target \in Held
      /\ sweep \subseteq Held
  BY HeldStructs
<1> USE NoneAssumption, TimesAssumption DEF TypeOK, RxStates, record
<1>1. CASE UNCHANGED vars
  BY <1>1 DEF vars, tableVars, fields, Held, Entries
<1>2. ASSUME NEW a \in Addrs, PeerGoes(a) PROVE TypeOK'
  BY <1>2 DEF PeerGoes, tableVars, fields, Held, Entries
<1>3. ASSUME NEW a \in Addrs, TimerFires(a) PROVE TypeOK'
  <2>1. timers' \in [Addrs -> [0..Delay -> Nat]]
    <3>1. timers' = [timers EXCEPT ![a] = [timers[a] EXCEPT ![0] = @ - 1]]
      BY <1>3 DEF TimerFires
    <3>2. timers[a] \in [0..Delay -> Nat] /\ timers[a][0] > 0 /\ 0 \in 0..Delay
      BY <1>3 DEF TimerFires
    <3>3. [timers[a] EXCEPT ![0] = @ - 1] \in [0..Delay -> Nat]
      BY <3>2, CountDown
    <3> QED
      BY <3>1, <3>3
  <2>2. clients' \in [Addrs -> Objs \cup {None}] /\ Held' \subseteq Held
    BY <1>3 DEF TimerFires, Held, Entries
  <2>3. \A b \in Addrs : clients'[b] # None => clients'[b] = clients[b]
    BY <1>3 DEF TimerFires
  <2>4. crossed' \in SUBSET Addrs /\ crossings' \in Nat
    BY <1>3, RecordType DEF TimerFires
  <2> QED
    BY <1>3, <2>1, <2>2, <2>3, <2>4 DEF TimerFires, fields
<1>4. ASSUME NEW a \in Addrs, ReceiveKnown(a) PROVE TypeOK'
  BY <1>4, <1>h DEF ReceiveKnown, tableVars, fields, Held, Entries
<1>5. ASSUME NEW a \in Addrs, NEW o \in Objs, ReceiveNew(a, o) PROVE TypeOK'
  <2>1. Held' \subseteq Held \cup {o} /\ addr'[o] = a /\ o \notin Held
    BY <1>5 DEF ReceiveNew, Held, Entries
  <2>2. \A p \in Objs : p # o => addr'[p] = addr[p]
    BY <1>5 DEF ReceiveNew
  <2>3. \A b \in Addrs : clients'[b] # None => addr'[clients'[b]] = b
    BY <1>5, <1>h, <2>1, <2>2 DEF ReceiveNew
  <2>4. Held \subseteq Objs
    BY DEF Held, Entries
  <2>5. \A p \in Held' : addr'[p] \in Addrs
    BY <2>1, <2>2, <2>4
  <2> QED
    BY <1>5, <2>3, <2>5 DEF ReceiveNew
<1>6. CASE Touch
  BY <1>6 DEF Touch, tableVars, Held, Entries
<1>7. ASSUME NEW from, NEW to \in RxStates, from # "idle", Moves(from, to),
             notice' \in [Addrs -> {"none", "joined", "left"}], active' \in Int
      PROVE  TypeOK'
  <2>1. rx' = to /\ cur # None /\ cur' = (IF to = "idle" THEN None ELSE cur)
    BY <1>7 DEF Moves
  <2>2. Held' \subseteq Held
    BY <1>7, <2>1 DEF Moves, tableVars, Held, Entries
  <2> QED
    BY <1>7, <2>1, <2>2 DEF Moves, tableVars, fields
<1>8. CASE Ignore \/ Chat \/ Speak \/ NameResponse \/ Announce \/ Welcome
  <2>1. \/ Moves("dispatch", "idle") \/ Moves("dispatch", "speak") \/ Moves("speak", "idle")
        \/ Moves("dispatch", "rename") \/ Moves("dispatch", "join")
        \/ Moves("announce", "welcome") \/ Moves("welcome", "idle")
    BY <1>8 DEF Ignore, Chat, Speak, NameResponse, Announce, Welcome
  <2>2. \/ UNCHANGED <<notice, active>>
        \/ notice' = [notice EXCEPT ![addr[cur]] = "joined"] /\ active' = active + 1
    BY <1>8 DEF Ignore, Chat, Speak, NameResponse, Announce, Welcome
  <2>3. notice' \in [Addrs -> {"none", "joined", "left"}]
    BY <2>2
  <2>4. active' \in Int
    BY <2>2
  <2> QED
    BY <1>7, <2>1, <2>3, <2>4
<1>9. CASE Leave
  <2>1. cur \in Objs /\ addr[cur] \in Addrs
    BY <1>9, <1>h DEF Leave
  <2> QED
    BY <1>9, <2>1, DisconnectType DEF Leave, Held, Entries
<1>10. CASE SetName
  BY <1>10 DEF SetName, tableVars, Held, Entries
<1>11. CASE Tick
  <2>1. timers' \in [Addrs -> [0..Delay -> Nat]]
    BY <1>11 DEF Tick
  <2>2. Held' = Entries /\ Entries \subseteq Held
    BY <1>11 DEF Tick, Held, Entries, Quiet
  <2>3. addr' \in [Objs -> Addrs \cup {None}] /\ connected' \in [Objs -> BOOLEAN]
        /\ named' \in [Objs -> BOOLEAN]
    BY <1>11 DEF Tick
  <2>4. age' \in [Objs -> 0..(Timeout + 1)]
    BY <1>11 DEF Tick
  <2>5. \A o \in Entries : addr'[o] = addr[o] /\ o \in Objs
    BY <1>11 DEF Tick, Entries
  <2>6. \A a \in Addrs : clients'[a] # None => addr'[clients'[a]] = a
    BY <1>11, <2>5 DEF Tick, Entries
  <2>7. \A o \in Held' : addr'[o] \in Addrs
    BY <2>2, <2>5
  <2>8. sweep' \in SUBSET Objs
    BY <1>11 DEF Tick, Entries
  <2>9. /\ gone' = gone /\ server' = server /\ clients' = clients /\ rx' = rx
        /\ cur' = cur /\ target' = target /\ notice' = notice /\ active' = active
        /\ crossed' = crossed /\ crossings' = crossings
    BY <1>11 DEF Tick
  <2> QED
    BY <2>1, <2>3, <2>4, <2>6, <2>7, <2>8, <2>9
<1>12. ASSUME NEW o \in Objs, SweepPings(o) \/ SweepFinds(o) PROVE TypeOK'
  BY <1>12 DEF SweepPings, SweepFinds, tableVars, fields, Held, Entries
<1>13. CASE SweepDrops
  <2>1. target \in Objs /\ addr[target] \in Addrs
    BY <1>13, <1>h DEF SweepDrops
  <2>2. crossed' \in SUBSET Addrs /\ crossings' \in Nat
    BY <1>13, <2>1, RecordType DEF SweepDrops
  <2> QED
    BY <1>13, <2>1, <2>2, DisconnectType DEF SweepDrops, Held, Entries
<1>14. CASE Notify \/ Exit
  BY <1>14 DEF Notify, Exit, tableVars, fields, Held, Entries
<1> QED
  BY <1>1, <1>2, <1>3, <1>4, <1>5, <1>6, <1>8, <1>9, <1>10, <1>11, <1>12, <1>13, <1>14
  DEF Next, Receiver, Sweep

(* Every variable of the UDP server holds a value of its type.             *)
THEOREM TypeCorrect == Spec => []TypeOK
<1>1. Init => TypeOK
  BY NoneAssumption, TimesAssumption DEF Init, TypeOK, RxStates, Held, Entries
<1> QED
  BY <1>1, TypeStep, PTL DEF Spec

-----------------------------------------------------------------------------
(* A row of timers of which one more is armed has one with Delay to run.   *)
LEMMA RowArmed ==
  ASSUME NEW t \in [0..Delay -> Nat]
  PROVE  [t EXCEPT ![Delay] = @ + 1][Delay] > 0
<1>1. Delay \in 0..Delay /\ t[Delay] \in Nat
  BY TimesAssumption
<1> QED
  BY <1>1

(* HandleClientDisconnect arms a timer for whom it disconnects.            *)
LEMMA DisconnectArms ==
  ASSUME TypeOK, RemovalScheduled, NEW o \in Objs, addr[o] \in Addrs, Disconnect(o),
         UNCHANGED <<clients, named>>
  PROVE  RemovalScheduled'
<1> DEFINE d == addr[o]
<1>1. CASE clients[d] # None /\ connected[o]
  <2>1. timers' = [timers EXCEPT ![d] = [timers[d] EXCEPT ![Delay] = @ + 1]]
    BY <1>1 DEF Disconnect
  <2>2. connected' = [connected EXCEPT ![o] = FALSE]
    BY <1>1 DEF Disconnect
  <2>3. timers \in [Addrs -> [0..Delay -> Nat]] /\ Delay \in 0..Delay
    BY TimesAssumption DEF TypeOK
  <2>4. timers'[d] = [timers[d] EXCEPT ![Delay] = @ + 1] /\ timers[d] \in [0..Delay -> Nat]
    BY <2>1, <2>3
  <2>5. timers'[d][Delay] > 0
    BY <2>4, RowArmed
  <2>6. \A a \in Addrs : a # d => timers'[a] = timers[a]
    BY <2>1, <2>3
  <2>7. \A a \in Addrs : clients[a] # None /\ a # d => connected'[clients[a]] = connected[clients[a]]
    BY <2>2 DEF TypeOK
  <2> QED
    BY <2>3, <2>5, <2>6, <2>7 DEF RemovalScheduled
<1>2. CASE ~(clients[d] # None /\ connected[o])
  BY <1>2 DEF Disconnect, RemovalScheduled
<1> QED
  BY <1>1, <1>2

(* Every step keeps a timer pending for every client that has left.        *)
LEMMA RemovalStep == TypeOK /\ RemovalScheduled /\ [Next]_vars => RemovalScheduled'
<1> SUFFICES ASSUME TypeOK, RemovalScheduled, [Next]_vars PROVE RemovalScheduled'
  OBVIOUS
<1>h. /\ \A a \in Addrs : clients[a] # None => clients[a] \in Held
      /\ cur # None => cur \in Held
      /\ target # None => target \in Held
  BY HeldStructs
<1>1. CASE UNCHANGED <<clients, timers, named, connected>>
  BY <1>1 DEF RemovalScheduled
<1>2. ASSUME NEW a \in Addrs, TimerFires(a) PROVE RemovalScheduled'
  <2>1. CASE IsMember(a)
    <3>1. \A b \in Addrs : b # a => timers'[b] = timers[b]
      BY <1>2 DEF TimerFires, TypeOK
    <3> QED
      BY <1>2, <2>1, <3>1 DEF TimerFires, IsMember, fields, RemovalScheduled
  <2>2. CASE ~IsMember(a)
    <3>1. \A b \in Addrs : b # a => timers'[b] = timers[b] /\ clients'[b] = clients[b]
      BY <1>2 DEF TimerFires, TypeOK
    <3>2. clients'[a] = None
      BY <1>2, <2>2 DEF TimerFires, TypeOK
    <3> QED
      BY <1>2, <3>1, <3>2 DEF TimerFires, fields, RemovalScheduled
  <2> QED
    BY <2>1, <2>2
<1>3. ASSUME NEW a \in Addrs, NEW o \in Objs, ReceiveNew(a, o) PROVE RemovalScheduled'
  <2>1. o \notin Held /\ timers' = timers /\ clients'[a] = o /\ named'[o] = FALSE
    BY <1>3 DEF ReceiveNew, TypeOK
  <2>2. \A b \in Addrs : b # a => clients'[b] = clients[b]
    BY <1>3 DEF ReceiveNew, TypeOK
  <2>3. \A p \in Objs : p # o => named'[p] = named[p] /\ connected'[p] = connected[p]
    BY <1>3 DEF ReceiveNew, TypeOK
  <2> QED
    BY <1>h, <2>1, <2>2, <2>3 DEF RemovalScheduled, TypeOK
<1>4. CASE SetName
  BY <1>4 DEF SetName, tableVars, RemovalScheduled, TypeOK
<1>5. CASE Leave
  <2>1. cur \in Objs /\ addr[cur] \in Addrs
    BY <1>5, <1>h DEF Leave, TypeOK
  <2> QED
    BY <1>5, <2>1, DisconnectArms DEF Leave
<1>6. CASE SweepDrops
  <2>1. target \in Objs /\ addr[target] \in Addrs
    BY <1>6, <1>h DEF SweepDrops, TypeOK
  <2> QED
    BY <1>6, <2>1, DisconnectArms DEF SweepDrops
<1>7. CASE Tick
  <2>1. SUFFICES ASSUME NEW a \in Addrs, clients'[a] # None,
                        named'[clients'[a]], ~connected'[clients'[a]]
                 PROVE  \E k \in 0..Delay : timers'[a][k] > 0
    BY DEF RemovalScheduled
  <2>2. clients[a] \in Entries /\ clients'[a] = clients[a] /\ clients[a] \in Objs
    BY <1>7, <2>1 DEF Tick, Entries, TypeOK
  <2>3. named[clients[a]] /\ ~connected[clients[a]]
    BY <1>7, <2>1, <2>2 DEF Tick
  <2>4. PICK k \in 0..Delay : timers[a][k] > 0
    BY <2>1, <2>2, <2>3 DEF RemovalScheduled
  <2>5. k - 1 \in 0..Delay /\ k - 1 # Delay
    BY <1>7, <2>4, TimesAssumption DEF Tick
  <2>6. timers'[a] = [j \in 0..Delay |-> IF j = Delay THEN 0 ELSE timers[a][j + 1]]
    BY <1>7 DEF Tick
  <2>7. timers'[a][k - 1] = timers[a][k]
    BY <2>4, <2>5, <2>6, TimesAssumption
  <2> QED
    BY <2>4, <2>5, <2>7
<1> QED
  BY <1>1, <1>2, <1>3, <1>4, <1>5, <1>6, <1>7
  DEF Next, Receiver, Sweep, vars, tableVars, fields, PeerGoes, ReceiveKnown, Touch, Ignore, Chat,
      Speak, NameResponse, Announce, Welcome, Moves, SweepPings, SweepFinds, Notify, Exit

(* As long as a client that has left or timed out is in the table, a       *)
(* removal timer is pending for its address (handler.go:318).              *)
THEOREM RemovalCorrect == Spec => []RemovalScheduled
<1>1. Init => RemovalScheduled
  BY DEF Init, RemovalScheduled
<1> QED
  BY <1>1, TypeCorrect, RemovalStep, PTL DEF Spec

-----------------------------------------------------------------------------
(* Silence is found, whatever comes in between.                            *)

(* Past its first step, a packet has had LastSeen written.                 *)
FreshWhileHandled == rx \notin {"idle", "touch"} => age[cur] = 0

(* A member that has been silent too long is on the list of the sweep, or  *)
(* is the one the sweep is about to disconnect.                            *)
OverdueSwept ==
  \A o \in Entries : connected[o] /\ age[o] > Timeout => o \in sweep \/ o = target

AgeInv == TypeOK /\ FreshWhileHandled /\ OverdueSwept

LEMMA AgeStep == AgeInv /\ [Next]_vars => AgeInv'
<1> SUFFICES ASSUME AgeInv, [Next]_vars PROVE AgeInv'
  OBVIOUS
<1>t. TypeOK /\ TypeOK'
  BY TypeStep DEF AgeInv
<1>k. ASSUME UNCHANGED <<connected, age, sweep, target>>, Entries' \subseteq Entries,
             rx' \in {"idle", "touch"} \/ (rx \notin {"idle", "touch"} /\ cur' = cur)
      PROVE  AgeInv'
  BY <1>k, <1>t DEF AgeInv, FreshWhileHandled, OverdueSwept
<1>1. CASE UNCHANGED vars \/ Notify \/ Exit \/ \E a \in Addrs : PeerGoes(a)
  <2>1. UNCHANGED <<clients, connected, age, sweep, target, rx, cur>>
    BY <1>1 DEF vars, tableVars, fields, Notify, Exit, PeerGoes
  <2> QED
    BY <2>1, <1>t DEF AgeInv, FreshWhileHandled, OverdueSwept, Entries
<1>2. ASSUME NEW a \in Addrs, TimerFires(a) PROVE AgeInv'
  <2>1. \A b \in Addrs : clients'[b] \in {clients[b], None}
    BY <1>2, <1>t DEF TimerFires, TypeOK
  <2>2. Entries' \subseteq Entries
    BY <2>1, NoneAssumption DEF Entries
  <2>3. UNCHANGED <<connected, age, sweep, target, rx, cur>>
    BY <1>2 DEF TimerFires, fields
  <2> QED
    BY <2>2, <2>3, <1>t DEF AgeInv, FreshWhileHandled, OverdueSwept
<1>3. ASSUME NEW a \in Addrs, ReceiveKnown(a) PROVE AgeInv'
  BY <1>3, <1>k DEF ReceiveKnown, tableVars, fields, Entries
<1>4. ASSUME NEW a \in Addrs, NEW o \in Objs, ReceiveNew(a, o) PROVE AgeInv'
  <2>1. /\ clients' = [clients EXCEPT ![a] = o] /\ connected' = [connected EXCEPT ![o] = FALSE]
        /\ age' = [age EXCEPT ![o] = 0] /\ rx' = "touch" /\ UNCHANGED <<sweep, target>>
    BY <1>4 DEF ReceiveNew
  <2>2. Entries' \subseteq Entries \cup {o}
    BY <2>1, <1>t DEF Entries, TypeOK
  <2>3. age'[o] = 0 /\ \A p \in Objs : p # o => age'[p] = age[p] /\ connected'[p] = connected[p]
    BY <2>1, <1>t DEF TypeOK
  <2>4. OverdueSwept'
    BY <2>1, <2>2, <2>3, TimesAssumption DEF AgeInv, OverdueSwept, Entries
  <2> QED
    BY <2>1, <2>4, <1>t DEF AgeInv, FreshWhileHandled
<1>5. CASE Touch
  <2>1. age' = [age EXCEPT ![cur] = 0] /\ UNCHANGED <<clients, connected, cur, sweep, target>>
    BY <1>5 DEF Touch, tableVars
  <2>2. cur \in Objs
    BY <1>5, <1>t DEF Touch, TypeOK
  <2>3. age'[cur] = 0 /\ \A p \in Objs : p # cur => age'[p] = age[p]
    BY <2>1, <2>2, <1>t DEF TypeOK
  <2>4. OverdueSwept'
    BY <2>1, <2>3, TimesAssumption DEF AgeInv, OverdueSwept, Entries
  <2> QED
    BY <2>1, <2>3, <2>4, <1>t DEF AgeInv, FreshWhileHandled
<1>6. CASE Ignore \/ Chat \/ Speak \/ NameResponse \/ Announce \/ Welcome
  <2>1. /\ rx \notin {"idle", "touch"} /\ (rx' = "idle" \/ cur' = cur)
        /\ UNCHANGED <<tableVars, fields, sweep, target>>
    BY <1>6 DEF Ignore, Chat, Speak, NameResponse, Announce, Welcome, Moves
  <2> QED
    BY <2>1, <1>k DEF tableVars, fields, Entries
<1>7. CASE SetName
  <2>1. /\ rx \in {"join", "rename"} /\ connected' = [connected EXCEPT ![cur] = TRUE]
        /\ (rx' = "idle" \/ cur' = cur) /\ UNCHANGED <<clients, age, sweep, target>>
    BY <1>7 DEF SetName, tableVars
  <2>2. age[cur] = 0
    BY <2>1 DEF AgeInv, FreshWhileHandled
  <2>3. \A p \in Objs : p # cur => connected'[p] = connected[p]
    BY <2>1, <1>t DEF TypeOK
  <2>4. OverdueSwept'
    BY <2>1, <2>2, <2>3, TimesAssumption DEF AgeInv, OverdueSwept, Entries
  <2> QED
    BY <2>1, <2>2, <2>4, <1>t DEF AgeInv, FreshWhileHandled
<1>8. ASSUME NEW o \in Held, Disconnect(o), UNCHANGED <<clients, age, sweep>>,
             rx' = "idle" \/ UNCHANGED <<rx, cur>>, target' = target \/ (target = o /\ target' = None)
      PROVE  AgeInv'
  <2>o. o \in Objs /\ addr[o] \in Addrs
    BY <1>t DEF TypeOK, Held, Entries
  <2>1. \A p \in Objs : p # o => connected'[p] = connected[p]
    BY <1>8, <2>o, <1>t DEF Disconnect, TypeOK
  <2>2. o \in Entries => ~connected'[o]
    <3>1. o \in Entries => clients[addr[o]] # None
      BY <1>t, NoneAssumption DEF TypeOK, Entries
    <3> QED
      BY <1>8, <3>1, <2>o, <1>t DEF Disconnect, TypeOK
  <2>3. OverdueSwept'
    BY <1>8, <2>1, <2>2 DEF AgeInv, OverdueSwept, Entries
  <2> QED
    BY <1>8, <2>3, <1>t DEF AgeInv, FreshWhileHandled
<1>9. CASE Leave
  <2>1. cur \in Held
    BY <1>9, <1>t, HeldStructs DEF Leave, TypeOK
  <2> QED
    BY <1>9, <2>1, <1>8 DEF Leave
<1>10. CASE SweepDrops
  <2>1. target \in Held
    BY <1>10, <1>t, HeldStructs DEF SweepDrops
  <2> QED
    BY <1>10, <2>1, <1>8 DEF SweepDrops
<1>11. CASE Tick
  <2>1. Entries' = Entries /\ sweep' = Entries /\ rx = "idle" /\ UNCHANGED <<rx, cur>>
    BY <1>11 DEF Tick, Entries
  <2> QED
    BY <2>1, <1>t DEF AgeInv, FreshWhileHandled, OverdueSwept
<1>12. ASSUME NEW o \in Objs, SweepPings(o) \/ SweepFinds(o) PROVE AgeInv'
  <2>1. /\ target = None /\ sweep' = sweep \ {o} /\ (age[o] > Timeout => target' = o)
        /\ UNCHANGED <<clients, connected, age, rx, cur>>
    BY <1>12, <1>t, TimesAssumption DEF SweepPings, SweepFinds, tableVars, fields, TypeOK
  <2>2. \A p \in Entries : p # target
    BY <2>1, NoneAssumption DEF Entries
  <2>3. OverdueSwept'
    BY <2>1, <2>2 DEF AgeInv, OverdueSwept, Entries
  <2> QED
    BY <2>1, <2>3, <1>t DEF AgeInv, FreshWhileHandled
<1> QED
  BY <1>1, <1>2, <1>3, <1>4, <1>5, <1>6, <1>7, <1>9, <1>10, <1>11, <1>12 DEF Next, Receiver, Sweep

LEMMA AgeInvariant == Spec => []AgeInv
<1>1. Init => AgeInv
  BY NoneAssumption, TimesAssumption
  DEF Init, AgeInv, TypeOK, RxStates, Held, FreshWhileHandled, OverdueSwept, Entries
<1> QED
  BY <1>1, AgeStep, PTL DEF Spec

(* Under any interleaving of packets, sweeps and timers: when no sweep is  *)
(* under way, no member has been silent for more than the timeout          *)
(* (server.go sendHeartbeats).                                             *)
THEOREM SilenceFound == Spec => []SilentAreFound
<1>1. AgeInv => SilentAreFound
  <2> SUFFICES ASSUME AgeInv, Quiet, NEW a \in Members PROVE age[clients[a]] <= Timeout
    BY DEF SilentAreFound
  <2>1. clients[a] \in Entries /\ connected[clients[a]]
    BY DEF AgeInv, TypeOK, Members, IsMember, Entries
  <2>2. ~(age[clients[a]] > Timeout)
    BY <2>1, NoneAssumption DEF AgeInv, OverdueSwept, Quiet, Entries
  <2> QED
    BY <2>1, <2>2, TimesAssumption DEF AgeInv, TypeOK, Entries
<1> QED
  BY <1>1, AgeInvariant, PTL

-----------------------------------------------------------------------------
(* Who is a member, before and after each step.                            *)

LEMMA MembersFinite == IsFiniteSet(Members) /\ Cardinality(Members) \in Nat
BY AddrsAssumption, FS_Subset, FS_CardinalityType DEF Members

(* The table files each struct under its own address only.                 *)
LEMMA FiledOnce ==
  ASSUME TypeOK, NEW a \in Addrs, NEW o \in Objs, clients[a] = o PROVE a = addr[o]
BY NoneAssumption DEF TypeOK

(* HandleClientDisconnect takes the struct's address out of the room if    *)
(* the struct is filed there, and nobody if it is not.                     *)
LEMMA DisconnectTakes ==
  ASSUME TypeOK, NEW o \in Held, Disconnect(o), clients' = clients,
         clients[addr[o]] # None, connected[o]
  PROVE  /\ \A a \in Addrs : IsMember(a)' <=> IsMember(a) /\ clients[a] # o
         /\ Cardinality(Members') =
              IF clients[addr[o]] = o THEN Cardinality(Members) - 1 ELSE Cardinality(Members)
<1>o. o \in Objs /\ o # None /\ addr[o] \in Addrs
  BY NoneAssumption DEF TypeOK, Held, Entries
<1>1. connected' = [connected EXCEPT ![o] = FALSE]
  BY DEF Disconnect
<1>2. connected \in [Objs -> BOOLEAN] /\ clients \in [Addrs -> Objs \cup {None}]
  BY DEF TypeOK
<1>3. ~connected'[o]
  BY <1>o, <1>1, <1>2
<1>4. \A p \in Objs : p # o => connected'[p] = connected[p]
  BY <1>o, <1>1, <1>2
<1>5. \A a \in Addrs : IsMember(a)' <=> IsMember(a) /\ clients[a] # o
  BY <1>2, <1>3, <1>4 DEF IsMember
<1>6. CASE clients[addr[o]] = o
  <2>1. addr[o] \in Members
    BY <1>o, <1>6 DEF Members, IsMember
  <2>2. Members' = Members \ {addr[o]}
    BY <1>o, <1>5, <1>6, FiledOnce DEF Members
  <2> QED
    BY <1>5, <1>6, <2>1, <2>2, MembersFinite, FS_RemoveElement
<1>7. CASE clients[addr[o]] # o
  <2>1. \A a \in Addrs : clients[a] # o
    BY <1>o, <1>7, FiledOnce
  <2>2. Members' = Members
    BY <1>5, <2>1 DEF Members
  <2> QED
    BY <1>5, <1>7, <2>2
<1> QED
  BY <1>6, <1>7

(* A name brings the client that gives it into the room if its struct is   *)
(* filed, and nobody if it is not.                                         *)
LEMMA NameBrings ==
  ASSUME TypeOK, rx # "idle", clients' = clients, connected' = [connected EXCEPT ![cur] = TRUE]
  PROVE  /\ \A a \in Addrs : IsMember(a)' <=> IsMember(a) \/ clients[a] = cur
         /\ Cardinality(Members') =
              IF clients[addr[cur]] = cur /\ ~connected[cur]
                THEN Cardinality(Members) + 1 ELSE Cardinality(Members)
<1>o. cur \in Objs /\ cur # None /\ addr[cur] \in Addrs
  BY HeldStructs DEF TypeOK
<1>2. connected \in [Objs -> BOOLEAN] /\ clients \in [Addrs -> Objs \cup {None}]
  BY DEF TypeOK
<1>3. connected'[cur]
  BY <1>o, <1>2
<1>4. \A p \in Objs : p # cur => connected'[p] = connected[p]
  BY <1>o, <1>2
<1>5. \A a \in Addrs : IsMember(a)' <=> IsMember(a) \/ clients[a] = cur
  BY <1>o, <1>2, <1>3, <1>4 DEF IsMember
<1>6. CASE clients[addr[cur]] = cur /\ ~connected[cur]
  <2>1. addr[cur] \notin Members
    BY <1>6 DEF Members, IsMember
  <2>2. Members' = Members \cup {addr[cur]}
    BY <1>o, <1>5, <1>6, FiledOnce DEF Members
  <2> QED
    BY <1>5, <1>6, <2>1, <2>2, MembersFinite, FS_AddElement
<1>7. CASE ~(clients[addr[cur]] = cur /\ ~connected[cur])
  <2>1. \A a \in Addrs : clients[a] = cur => IsMember(a)
    BY <1>o, <1>7, FiledOnce DEF IsMember
  <2>2. Members' = Members
    BY <1>5, <2>1 DEF Members
  <2> QED
    BY <1>5, <1>7, <2>2
<1> QED
  BY <1>6, <1>7

(* Timers, new entries and ticks take nobody in or out.                    *)
LEMMA TimerTakesNone ==
  ASSUME TypeOK, NEW a \in Addrs, TimerFires(a)
  PROVE  /\ \A b \in Addrs : IsMember(b)' <=> IsMember(b)
         /\ \A b \in Addrs : IsMember(b) => clients'[b] = clients[b]
<1>1. /\ clients' = IF IsMember(a) THEN clients ELSE [clients EXCEPT ![a] = None]
      /\ connected' = connected
  BY DEF TimerFires, fields
<1> QED
  BY <1>1 DEF IsMember, TypeOK

LEMMA NewBringsNone ==
  ASSUME TypeOK, NEW a \in Addrs, NEW o \in Objs, ReceiveNew(a, o)
  PROVE  /\ \A b \in Addrs : IsMember(b)' <=> IsMember(b)
         /\ \A b \in Addrs : IsMember(b) => clients'[b] = clients[b] /\ clients[b] # o
<1>1. /\ clients[a] = None /\ o \notin Held /\ clients' = [clients EXCEPT ![a] = o]
      /\ connected' = [connected EXCEPT ![o] = FALSE]
  BY DEF ReceiveNew
<1>2. /\ clients \in [Addrs -> Objs \cup {None}] /\ connected \in [Objs -> BOOLEAN]
  BY DEF TypeOK
<1>3. /\ clients'[a] = o /\ \A b \in Addrs : b # a => clients'[b] = clients[b]
      /\ \A p \in Objs : p # o => connected'[p] = connected[p]
  BY <1>1, <1>2
<1>4. ~connected'[o]
  BY <1>1, <1>2
<1>5. \A b \in Addrs : clients[b] # o
  BY <1>1 DEF Held, Entries
<1>6. ~IsMember(a) /\ ~IsMember(a)'
  BY <1>1, <1>3, <1>4 DEF IsMember
<1>7. ASSUME NEW b \in Addrs, b # a PROVE IsMember(b)' <=> IsMember(b)
  BY <1>2, <1>3, <1>5, <1>7 DEF IsMember
<1> QED
  BY <1>3, <1>5, <1>6, <1>7

LEMMA TickTakesNone ==
  ASSUME TypeOK, Tick
  PROVE  \A a \in Addrs : IsMember(a)' <=> IsMember(a)
<1>1. clients' = clients /\ connected' = [o \in Objs |-> o \in Entries /\ connected[o]]
  BY DEF Tick
<1>2. \A a \in Addrs : clients[a] # None => clients[a] \in Entries
  BY DEF Entries, TypeOK
<1>3. \A o \in Entries : connected'[o] <=> connected[o]
  BY <1>1 DEF Entries
<1> QED
  BY <1>1, <1>2, <1>3 DEF IsMember

-----------------------------------------------------------------------------
(* What the receiver knows of the struct it works on, and what a crossing  *)
(* leaves of it.                                                           *)

(* Without a crossing the struct is the entry of its address; it is in any *)
(* case while it is connected and handleNameResponse has not written it.   *)
Filed ==
  /\ rx # "idle" /\ addr[cur] \notin crossed => clients[addr[cur]] = cur
  /\ rx \in {"touch", "dispatch", "rename"} /\ connected[cur] => clients[addr[cur]] = cur

(* What handleNameResponse has read of Connected is still so, or is crossed. *)
ReadStillTrue ==
  /\ rx = "join" => ~connected[cur]
  /\ rx \in {"rename", "announce"} /\ addr[cur] \notin crossed => connected[cur]

(* By how much the counter is ahead, the client still to be counted taken  *)
(* for counted; who may yet be counted without being a member; and who may *)
(* yet be a member without being counted.                                  *)
Drift == active - Cardinality(Members) + (IF rx = "announce" THEN 1 ELSE 0)
Stray == IF rx \in {"touch", "dispatch", "join"} /\ clients[addr[cur]] # cur THEN 1 ELSE 0
Undone == IF rx = "rename" /\ ~connected[cur] THEN 1 ELSE 0
CountBounded == Drift + Stray <= crossings /\ Undone - crossings <= Drift

(* The notices lag behind for the client being announced only.             *)
NoticesOwed ==
  \A a \in Addrs \ crossed : notice[a] = "joined" <=> IsMember(a) /\ a \notin Arriving

HandledInv == TypeOK /\ Filed /\ ReadStillTrue

LEMMA HandledStep == HandledInv /\ [Next]_vars => HandledInv'
<1> SUFFICES ASSUME HandledInv, [Next]_vars PROVE Filed' /\ ReadStillTrue'
  BY TypeStep DEF HandledInv
<1>t. TypeOK
  BY DEF HandledInv
<1>h. /\ \A a \in Addrs : clients[a] # None => clients[a] \in Held
      /\ cur # None => cur \in Held
      /\ target # None => target \in Held
  BY <1>t, HeldStructs
<1>1. CASE rx' = "idle"
  BY <1>1 DEF Filed, ReadStillTrue
<1>2. CASE UNCHANGED <<clients, addr, connected, rx, cur, crossed>>
  BY <1>2 DEF HandledInv, Filed, ReadStillTrue
<1>3. ASSUME NEW a \in Addrs, TimerFires(a) PROVE Filed' /\ ReadStillTrue'
  <2>1. /\ UNCHANGED <<addr, connected, rx, cur>> /\ crossed \subseteq crossed'
        /\ clients' = IF IsMember(a) THEN clients ELSE [clients EXCEPT ![a] = None]
        /\ TimerCrosses(a) => a \in crossed'
    BY <1>3 DEF TimerFires, fields, Crosses, record
  <2>2. ReadStillTrue'
    BY <2>1 DEF HandledInv, ReadStillTrue
  <2>3. CASE rx # "idle" /\ clients[addr[cur]] = cur
    <3>1. cur # None /\ addr[cur] \in Addrs
      BY <1>h, <1>t, <2>3 DEF TypeOK
    <3>2. clients'[addr[cur]] = cur \/ (a = addr[cur] /\ ~connected[cur] /\ TimerCrosses(a))
      BY <1>t, <2>1, <2>3, <3>1 DEF TypeOK, IsMember, TimerCrosses
    <3> QED
      BY <2>1, <2>2, <3>2 DEF Filed
  <2> QED
    BY <1>1, <2>1, <2>2, <2>3 DEF HandledInv, Filed
<1>4. ASSUME NEW a \in Addrs, ReceiveKnown(a) PROVE Filed' /\ ReadStillTrue'
  <2>1. /\ clients[a] # None /\ cur' = clients[a] /\ rx' = "touch"
        /\ UNCHANGED <<clients, addr>>
    BY <1>4 DEF ReceiveKnown, tableVars, fields
  <2> QED
    BY <1>t, <2>1 DEF Filed, ReadStillTrue, TypeOK
<1>5. ASSUME NEW a \in Addrs, NEW o \in Objs, ReceiveNew(a, o) PROVE Filed' /\ ReadStillTrue'
  <2>1. /\ clients'[a] = o /\ addr'[o] = a /\ cur' = o /\ rx' = "touch"
    BY <1>5, <1>t DEF ReceiveNew, TypeOK
  <2> QED
    BY <2>1 DEF Filed, ReadStillTrue
<1>6. CASE Touch \/ Ignore \/ Chat \/ Speak \/ NameResponse \/ Announce \/ Welcome
  <2>1. UNCHANGED <<clients, addr, connected, crossed>> /\ (rx' = "idle" \/ cur' = cur)
    BY <1>6 DEF Touch, Ignore, Chat, Speak, NameResponse, Announce, Welcome, Moves, tableVars,
                fields, record
  <2>2. /\ rx' \in {"dispatch", "rename"} => rx \in {"touch", "dispatch"}
        /\ rx' = "join" => ~connected[cur]
        /\ rx' = "rename" => connected[cur]
        /\ rx # "idle" /\ rx' \notin {"touch", "announce"}
    BY <1>6 DEF Touch, Ignore, Chat, Speak, NameResponse, Announce, Welcome, Moves
  <2> QED
    BY <1>1, <2>1, <2>2 DEF HandledInv, Filed, ReadStillTrue
<1>7. CASE SetName
  <2>1. /\ rx # "idle" /\ rx' \in {"announce", "idle"} /\ (rx' = "idle" \/ cur' = cur)
        /\ UNCHANGED <<clients, addr, crossed>>
        /\ connected' = [connected EXCEPT ![cur] = TRUE]
    BY <1>7 DEF SetName, tableVars, record
  <2>2. connected'[cur]
    BY <1>t, <2>1 DEF TypeOK
  <2> QED
    BY <1>1, <2>1, <2>2 DEF HandledInv, Filed, ReadStillTrue
<1>8. CASE SweepDrops
  <2>1. /\ target # None /\ Disconnect(target) /\ UNCHANGED <<clients, addr, rx, cur>>
        /\ crossed \subseteq crossed' /\ (DropCrosses => addr[target] \in crossed')
    BY <1>8 DEF SweepDrops, Crosses, record
  <2>2. target \in Objs /\ connected \in [Objs -> BOOLEAN]
    BY <1>t, <2>1 DEF TypeOK
  <2>3. \A p \in Objs : connected'[p] => connected[p]
    BY <2>1, <2>2 DEF Disconnect
  <2>4. cur # None => cur \in Objs
    BY <1>t DEF TypeOK
  <2>5. rx # "idle" => cur # None
    BY <1>t DEF TypeOK
  <2>6. Filed'
    BY <2>1, <2>3, <2>4, <2>5 DEF HandledInv, Filed
  <2>7. rx \in {"rename", "announce"} /\ connected[cur] => connected'[cur] \/ DropCrosses
    BY <2>1, <2>2, <2>4, <2>5 DEF Disconnect, DropCrosses
  <2>8. rx \in {"rename", "announce"} /\ connected[cur] /\ ~connected'[cur] => cur = target
    BY <2>1, <2>2, <2>4, <2>5 DEF Disconnect
  <2> QED
    BY <2>1, <2>3, <2>4, <2>5, <2>6, <2>7, <2>8 DEF HandledInv, ReadStillTrue
<1> QED
  BY <1>1, <1>2, <1>3, <1>4, <1>5, <1>6, <1>7, <1>8
  DEF Next, Receiver, Sweep, vars, tableVars, fields, record, PeerGoes, Leave, Tick, SweepPings,
      SweepFinds, Notify, Exit

-----------------------------------------------------------------------------
(* The counter.                                                            *)

(* One crossing more makes room for one more in either correction.         *)
LEMMA Slack ==
  ASSUME NEW d \in Int, NEW c \in Nat, NEW s \in {0, 1}, NEW u \in {0, 1},
         NEW s1 \in {0, 1}, NEW u1 \in {0, 1}, d + s <= c, u - c <= d
  PROVE  /\ d + s1 <= c + 1 /\ u1 - (c + 1) <= d
         /\ s1 <= s => d + s1 <= c
         /\ u1 <= u => u1 - c <= d
OBVIOUS

(* Crossings are numbered, and each one counts.                            *)
LEMMA DropRecorded ==
  ASSUME TypeOK, SweepDrops
  PROVE  crossings' = IF DropCrosses THEN crossings + 1 ELSE crossings
BY DEF SweepDrops, Crosses, record

LEMMA TimerRecorded ==
  ASSUME TypeOK, NEW a \in Addrs, TimerFires(a)
  PROVE  crossings' = IF TimerCrosses(a) THEN crossings + 1 ELSE crossings
BY DEF TimerFires, Crosses, record

(* A disconnect by the sweep: of the entry, which is then counted out with *)
(* its member, or of another struct, which is a crossing.                  *)
LEMMA DropCounted ==
  ASSUME HandledInv, CountBounded, SweepDrops PROVE CountBounded'
<1>t. TypeOK
  BY DEF HandledInv
<1>1. /\ target # None /\ Disconnect(target) /\ UNCHANGED <<clients, addr, rx, cur>>
  BY DEF SweepDrops
<1>2. target \in Held /\ target \in Objs /\ connected \in [Objs -> BOOLEAN]
  BY <1>1, <1>t, HeldStructs DEF TypeOK
<1>3. /\ active \in Int /\ crossings \in Nat /\ Cardinality(Members) \in Int
  BY <1>t, MembersFinite DEF TypeOK
<1>4. Stray' = Stray /\ (rx' = "announce" <=> rx = "announce")
  BY <1>1 DEF Stray
<1>5. CASE ~(clients[addr[target]] # None /\ connected[target])
  <2>1. UNCHANGED <<connected, active>> /\ ~DropCrosses
    BY <1>1, <1>5 DEF Disconnect, DropCrosses
  <2>2. Members' = Members
    BY <1>1, <2>1 DEF Members, IsMember
  <2>3. crossings' = crossings
    BY <1>t, <2>1, DropRecorded
  <2>4. Drift' = Drift /\ Undone' = Undone
    BY <1>1, <2>1, <2>2 DEF Drift, Undone
  <2> QED
    BY <1>4, <2>3, <2>4 DEF CountBounded
<1>6. CASE clients[addr[target]] # None /\ connected[target]
  <2>1. /\ active' = active - 1
        /\ connected' = [connected EXCEPT ![target] = FALSE]
    BY <1>1, <1>6 DEF Disconnect
  <2>2. Cardinality(Members') =
          IF clients[addr[target]] = target THEN Cardinality(Members) - 1 ELSE Cardinality(Members)
    BY <1>1, <1>2, <1>6, <1>t, DisconnectTakes
  <2>3. Drift' = IF clients[addr[target]] = target THEN Drift ELSE Drift - 1
    BY <1>3, <1>4, <2>1, <2>2 DEF Drift
  <2>4. Drift \in Int /\ Stray \in {0, 1} /\ Undone \in {0, 1} /\ Undone' \in {0, 1}
    BY <1>3 DEF Drift, Stray, Undone
  <2>5. DropCrosses <=> \/ clients[addr[target]] # target
                        \/ target = cur /\ rx \in {"rename", "announce"}
    BY <1>6 DEF DropCrosses
  <2>6. CASE clients[addr[target]] # target
    <3>1. crossings' = crossings + 1 /\ Drift' = Drift - 1
      BY <1>t, <2>3, <2>5, <2>6, DropRecorded
    <3>2. ~(rx = "rename" /\ cur = target)
      BY <1>6, <2>6 DEF HandledInv, Filed
    <3>3. Undone' = Undone
      <4>1. rx = "rename" => cur \in Objs /\ cur # target
        BY <1>t, <3>2 DEF TypeOK
      <4> QED
        BY <1>1, <1>2, <2>1, <4>1 DEF Undone
    <3> QED
      BY <1>3, <1>4, <2>4, <3>1, <3>3 DEF CountBounded
  <2>7. CASE clients[addr[target]] = target /\ target = cur /\ rx \in {"rename", "announce"}
    <3>1. crossings' = crossings + 1 /\ Drift' = Drift
      BY <1>t, <2>3, <2>5, <2>7, DropRecorded
    <3> QED
      BY <1>3, <1>4, <2>4, <3>1, Slack DEF CountBounded
  <2>8. CASE clients[addr[target]] = target /\ ~(target = cur /\ rx \in {"rename", "announce"})
    <3>1. crossings' = crossings /\ Drift' = Drift
      BY <1>t, <2>3, <2>5, <2>8, DropRecorded
    <3>2. Undone' = Undone
      <4>1. rx = "rename" => cur \in Objs /\ cur # target
        BY <1>t, <2>8 DEF TypeOK
      <4> QED
        BY <1>1, <1>2, <2>1, <4>1 DEF Undone
    <3> QED
      BY <1>4, <3>1, <3>2 DEF CountBounded
  <2> QED
    BY <2>6, <2>7, <2>8
<1> QED
  BY <1>5, <1>6

(* A removal: of the entry the receiver works on, which is a crossing, or  *)
(* of one that concerns nobody.                                            *)
LEMMA TimerCounted ==
  ASSUME HandledInv, CountBounded, NEW a \in Addrs, TimerFires(a) PROVE CountBounded'
<1>t. TypeOK
  BY DEF HandledInv
<1>1. /\ UNCHANGED <<addr, connected, active, rx, cur>>
      /\ clients' = IF IsMember(a) THEN clients ELSE [clients EXCEPT ![a] = None]
  BY DEF TimerFires, fields
<1>2. Members' = Members
  BY <1>t, TimerTakesNone DEF Members
<1>3. Drift' = Drift /\ Undone' = Undone
  BY <1>1, <1>2 DEF Drift, Undone
<1>4. /\ Drift \in Int /\ crossings \in Nat /\ Undone \in {0, 1}
      /\ Stray \in {0, 1} /\ Stray' \in {0, 1}
  BY <1>t, MembersFinite DEF Drift, Stray, Undone, TypeOK
<1>5. CASE TimerCrosses(a)
  <2>1. crossings' = crossings + 1
    BY <1>t, <1>5, TimerRecorded
  <2> QED
    BY <1>3, <1>4, <2>1, Slack DEF CountBounded
<1>6. CASE ~TimerCrosses(a)
  <2>1. crossings' = crossings
    BY <1>t, <1>6, TimerRecorded
  <2>2. Stray' <= Stray
    <3>1. SUFFICES ASSUME rx # "idle", clients[addr[cur]] = cur PROVE clients'[addr[cur]] = cur
      BY <1>1, <1>4 DEF Stray
    <3>2. cur \in Objs /\ cur # None /\ addr[cur] \in Addrs
      BY <1>t, <3>1, HeldStructs DEF TypeOK
    <3>3. addr[cur] = a => IsMember(a)
      BY <1>6, <3>1, <3>2 DEF TimerCrosses, IsMember
    <3> QED
      BY <1>t, <1>1, <3>1, <3>2, <3>3 DEF TypeOK
  <2> QED
    BY <1>3, <1>4, <2>1, <2>2, Slack DEF CountBounded
<1> QED
  BY <1>5, <1>6

(* A leave packet: the struct is the entry of its address, if connected.   *)
LEMMA LeaveCounted == ASSUME HandledInv, CountBounded, Leave PROVE CountBounded'
<1>t. TypeOK
  BY DEF HandledInv
<1>1. /\ rx = "dispatch" /\ rx' = "idle" /\ Disconnect(cur) /\ UNCHANGED <<clients, crossings>>
  BY DEF Leave, record
<1>2. cur \in Held
  BY <1>1, <1>t, HeldStructs DEF TypeOK
<1>3. active \in Int /\ crossings \in Nat /\ Cardinality(Members) \in Int
  BY <1>t, MembersFinite DEF TypeOK
<1>4. Stray' = 0 /\ Undone' = 0 /\ Undone = 0 /\ Stray \in {0, 1}
  BY <1>1 DEF Stray, Undone
<1>5. Drift' = Drift
  <2>1. CASE ~(clients[addr[cur]] # None /\ connected[cur])
    <3>1. UNCHANGED <<connected, active>>
      BY <1>1, <2>1 DEF Disconnect
    <3>2. Members' = Members
      BY <1>1, <3>1 DEF Members, IsMember
    <3> QED
      BY <1>1, <3>1, <3>2 DEF Drift
  <2>2. CASE clients[addr[cur]] # None /\ connected[cur]
    <3>1. active' = active - 1 /\ clients[addr[cur]] = cur
      BY <1>1, <2>2 DEF Disconnect, HandledInv, Filed
    <3>2. Cardinality(Members') = Cardinality(Members) - 1
      BY <1>1, <1>2, <1>t, <2>2, <3>1, DisconnectTakes
    <3> QED
      BY <1>1, <1>3, <3>1, <3>2 DEF Drift
  <2> QED
    BY <2>1, <2>2
<1>6. Drift \in Int
  BY <1>3 DEF Drift
<1> QED
  BY <1>1, <1>3, <1>4, <1>5, <1>6 DEF CountBounded

(* A name: a stray becomes one too many, an undone member one too few.     *)
LEMMA NameCounted == ASSUME HandledInv, CountBounded, SetName PROVE CountBounded'
<1>t. TypeOK
  BY DEF HandledInv
<1>1. /\ rx \in {"join", "rename"} /\ connected' = [connected EXCEPT ![cur] = TRUE]
      /\ UNCHANGED <<clients, active, crossings>>
      /\ rx' = IF rx = "join" THEN "announce" ELSE "idle"
  BY DEF SetName, tableVars, record
<1>2. Cardinality(Members') =
        IF clients[addr[cur]] = cur /\ ~connected[cur]
          THEN Cardinality(Members) + 1 ELSE Cardinality(Members)
  BY <1>1, <1>t, NameBrings
<1>3. active \in Int /\ crossings \in Nat /\ Cardinality(Members) \in Int
  BY <1>t, MembersFinite DEF TypeOK
<1>4. Stray' = 0 /\ Undone' = 0
  BY <1>1 DEF Stray, Undone
<1>5. CASE rx = "join"
  <2>1. ~connected[cur] /\ Undone = 0
    BY <1>5 DEF HandledInv, ReadStillTrue, Undone
  <2>2. Stray = IF clients[addr[cur]] = cur THEN 0 ELSE 1
    BY <1>5 DEF Stray
  <2> QED
    BY <1>1, <1>2, <1>3, <1>4, <1>5, <2>1, <2>2 DEF CountBounded, Drift
<1>6. CASE rx = "rename"
  <2>1. Stray = 0 /\ Undone = IF connected[cur] THEN 0 ELSE 1
    BY <1>6 DEF Stray, Undone
  <2> QED
    BY <1>1, <1>2, <1>3, <1>4, <1>6, <2>1 DEF CountBounded, Drift
<1> QED
  BY <1>1, <1>5, <1>6

LEMMA CountStep == HandledInv /\ CountBounded /\ [Next]_vars => CountBounded'
<1> SUFFICES ASSUME HandledInv, CountBounded, [Next]_vars PROVE CountBounded'
  OBVIOUS
<1>t. TypeOK
  BY DEF HandledInv
<1>b. active \in Int /\ crossings \in Nat /\ Cardinality(Members) \in Int
  BY <1>t, MembersFinite DEF TypeOK
<1>k. ASSUME \A a \in Addrs : IsMember(a)' <=> IsMember(a), UNCHANGED <<active, crossings>>,
             rx' = "announce" <=> rx = "announce", Stray' <= Stray, Undone' <= Undone
      PROVE  CountBounded'
  <2>1. Members' = Members
    BY <1>k DEF Members
  <2>2. Drift' = Drift /\ Drift \in Int
    BY <1>b, <1>k, <2>1 DEF Drift
  <2>3. Stray \in {0, 1} /\ Stray' \in {0, 1} /\ Undone \in {0, 1} /\ Undone' \in {0, 1}
    BY DEF Stray, Undone
  <2> QED
    BY <1>b, <1>k, <2>2, <2>3, Slack DEF CountBounded
<1>1. CASE UNCHANGED <<clients, addr, connected, active, crossings, rx, cur>>
  BY <1>1, <1>k DEF IsMember, Stray, Undone
<1>2. ASSUME NEW a \in Addrs, ReceiveKnown(a) PROVE CountBounded'
  <2>1. /\ rx = "idle" /\ rx' = "touch" /\ cur' = clients[a] /\ clients[a] # None
        /\ UNCHANGED <<clients, addr, connected, active, crossings>>
    BY <1>2 DEF ReceiveKnown, CanReceive, tableVars, fields, record
  <2>2. Stray' = 0 /\ Stray = 0 /\ Undone' = 0 /\ Undone = 0
    BY <1>t, <2>1 DEF Stray, Undone, TypeOK
  <2> QED
    BY <1>k, <2>1, <2>2 DEF IsMember
<1>3. ASSUME NEW a \in Addrs, NEW o \in Objs, ReceiveNew(a, o) PROVE CountBounded'
  <2>1. /\ rx = "idle" /\ rx' = "touch" /\ cur' = o /\ UNCHANGED <<active, crossings>>
        /\ clients'[a] = o /\ addr'[o] = a
    BY <1>3, <1>t DEF ReceiveNew, CanReceive, record, TypeOK
  <2>2. Stray' = 0 /\ Stray = 0 /\ Undone' = 0 /\ Undone = 0
    BY <2>1 DEF Stray, Undone
  <2> QED
    BY <1>3, <1>k, <1>t, <2>1, <2>2, NewBringsNone
<1>4. CASE Touch \/ Ignore \/ Chat \/ Speak \/ NameResponse \/ Welcome
  <2>1. UNCHANGED <<clients, addr, connected, active, crossings>> /\ (rx' = "idle" \/ cur' = cur)
    BY <1>4 DEF Touch, Ignore, Chat, Speak, NameResponse, Welcome, Moves, tableVars, fields, record
  <2>2. /\ rx # "announce" /\ rx' # "announce"
        /\ rx' \in {"touch", "dispatch", "join"} => rx \in {"touch", "dispatch"}
        /\ rx' = "rename" => connected[cur] /\ cur' = cur
    BY <1>4 DEF Touch, Ignore, Chat, Speak, NameResponse, Welcome, Moves
  <2>3. Stray' <= Stray
    BY <2>1, <2>2 DEF Stray
  <2>4. Undone' <= Undone
    BY <2>1, <2>2 DEF Undone
  <2> QED
    BY <1>k, <2>1, <2>2, <2>3, <2>4 DEF IsMember
<1>5. CASE Announce
  <2>1. /\ rx = "announce" /\ rx' = "welcome" /\ active' = active + 1
        /\ UNCHANGED <<clients, connected, crossings>>
    BY <1>5 DEF Announce, Moves, tableVars, fields, record
  <2>2. Members' = Members
    BY <2>1 DEF Members, IsMember
  <2>3. Drift' = Drift
    BY <1>b, <2>1, <2>2 DEF Drift
  <2>4. Stray = 0 /\ Stray' = 0 /\ Undone = 0 /\ Undone' = 0
    BY <2>1 DEF Stray, Undone
  <2> QED
    BY <2>1, <2>3, <2>4 DEF CountBounded
<1>6. CASE Tick
  <2>1. rx = "idle" /\ UNCHANGED <<rx, active, crossings>>
    BY <1>6 DEF Tick, record
  <2>2. Stray' = 0 /\ Stray = 0 /\ Undone' = 0 /\ Undone = 0
    BY <2>1 DEF Stray, Undone
  <2> QED
    BY <1>6, <1>k, <1>t, <2>1, <2>2, TickTakesNone
<1>7. CASE SetName
  BY <1>7, NameCounted
<1>8. CASE Leave
  BY <1>8, LeaveCounted
<1>9. CASE SweepDrops
  BY <1>9, DropCounted
<1>10. ASSUME NEW a \in Addrs, TimerFires(a) PROVE CountBounded'
  BY <1>10, TimerCounted
<1> QED
  BY <1>1, <1>2, <1>3, <1>4, <1>5, <1>6, <1>7, <1>8, <1>9, <1>10
  DEF Next, Receiver, Sweep, vars, tableVars, fields, record, PeerGoes, SweepPings, SweepFinds,
      Notify, Exit

-----------------------------------------------------------------------------
(* Presence, for one address that has met no crossing.                     *)

(* Whom the sweep is about to disconnect is still as silent as it was, or  *)
(* has just been heard of.                                                 *)
TargetAge == target # None => age[target] = 0 \/ age[target] > Timeout

PresenceInv == HandledInv /\ AgeInv /\ TargetAge /\ NoticesOwed

LEMMA TargetStep == AgeInv /\ TargetAge /\ [Next]_vars => TargetAge'
<1> SUFFICES ASSUME AgeInv, TargetAge, [Next]_vars PROVE TargetAge'
  OBVIOUS
<1>t. TypeOK
  BY DEF AgeInv
<1>1. CASE UNCHANGED <<age, target>> \/ target' = None
  BY <1>1 DEF TargetAge
<1>2. ASSUME NEW a \in Addrs, NEW o \in Objs, ReceiveNew(a, o) PROVE TargetAge'
  <2>1. target # None => target # o
    BY <1>2, <1>t, HeldStructs DEF ReceiveNew
  <2>2. target' = target /\ age' = [age EXCEPT ![o] = 0]
    BY <1>2 DEF ReceiveNew
  <2> QED
    BY <1>t, <2>1, <2>2 DEF TargetAge, TypeOK
<1>3. CASE Touch
  BY <1>3, <1>t DEF Touch, TargetAge, TypeOK
<1>4. CASE Tick
  BY <1>1, <1>4 DEF Tick, Quiet
<1>5. ASSUME NEW o \in Objs, SweepFinds(o) PROVE TargetAge'
  BY <1>5 DEF SweepFinds, fields, TargetAge
<1> QED
  BY <1>1, <1>2, <1>3, <1>4, <1>5
  DEF Next, Receiver, Sweep, vars, fields, PeerGoes, TimerFires, ReceiveKnown, Ignore, Leave, Chat,
      Speak, NameResponse, SetName, Announce, Welcome, Moves, SweepPings, SweepDrops, Notify, Exit

(* Crossings are not forgotten.                                            *)
LEMMA CrossedGrows == [Next]_vars => crossed \subseteq crossed'
BY DEF Next, Receiver, Sweep, vars, record, PeerGoes, TimerFires, Crosses, ReceiveKnown, ReceiveNew,
       Touch, Ignore, Leave, Chat, Speak, NameResponse, SetName, Announce, Welcome, Moves, Tick,
       SweepPings, SweepFinds, SweepDrops, Notify, Exit

(* Steps of which Presence sees nothing at an address.                     *)
LEMMA Unseen ==
  ASSUME NEW a \in Addrs, IsMember(a)' <=> IsMember(a),
         (a \in Arriving)' <=> a \in Arriving, notice'[a] = notice[a],
         Silence(a)' = Silence(a)
  PROVE  Presence!Step(a)
<1>1. Members' \cap {a} = Members \cap {a}
  BY DEF Members
<1>2. Arriving' \cap {a} = Arriving \cap {a}
  OBVIOUS
<1> QED
  BY <1>1, <1>2 DEF Presence!Step, Presence!Of

(* HandleClientDisconnect: the going of the client whose entry it is.      *)
LEMMA DisconnectIsGoing ==
  ASSUME PresenceInv, NEW a \in Addrs \ crossed, NEW o \in Held, Disconnect(o),
         UNCHANGED <<clients, age>>, age[o] = 0 \/ age[o] > Timeout,
         addr[o] = a /\ connected[o] => clients[a] = o /\ a \notin Arriving,
         (a \in Arriving)' <=> a \in Arriving
  PROVE  Presence!Step(a)
<1>t. TypeOK
  BY DEF PresenceInv, HandledInv
<1>o. o \in Objs /\ o # None /\ addr[o] \in Addrs
  BY <1>t, NoneAssumption DEF TypeOK, Held, Entries
<1>1. CASE clients[addr[o]] # None /\ connected[o]
  <2>1. /\ connected' = [connected EXCEPT ![o] = FALSE]
        /\ notice' = [notice EXCEPT ![addr[o]] = "left"]
    BY <1>1 DEF Disconnect
  <2>2. \A b \in Addrs : IsMember(b)' <=> IsMember(b) /\ clients[b] # o
    BY <1>1, <1>t, DisconnectTakes
  <2>3. CASE addr[o] = a
    <3>1. /\ clients[a] = o /\ a \notin Arriving /\ a \notin Arriving'
          /\ IsMember(a) /\ ~IsMember(a)'
      BY <1>1, <1>o, <2>2, <2>3 DEF IsMember
    <3>2. notice[a] = "joined"
      BY <3>1 DEF PresenceInv, NoticesOwed
    <3>3. notice'[a] = "left"
      BY <1>t, <2>1, <2>3 DEF TypeOK
    <3>4. Silence(a) = age[o] /\ Silence(a)' = 0
      BY <3>1 DEF Silence
    <3>5. a \in Members /\ a \notin Members'
      BY <3>1 DEF Members
    <3>6. Presence!Goes(a)
      BY <3>1, <3>2, <3>3, <3>4, <3>5 DEF Presence!Goes
    <3> QED
      BY <3>6 DEF Presence!Step
  <2>4. CASE addr[o] # a
    <3>1. clients[a] # o
      BY <1>t, <1>o, <2>4, FiledOnce
    <3>2. IsMember(a)' <=> IsMember(a)
      BY <2>2, <3>1
    <3>3. notice'[a] = notice[a] /\ Silence(a)' = Silence(a)
      BY <1>t, <1>o, <2>1, <2>4, <3>2 DEF Silence, TypeOK
    <3> QED
      BY <3>2, <3>3, Unseen
  <2> QED
    BY <2>3, <2>4
<1>2. CASE ~(clients[addr[o]] # None /\ connected[o])
  <2>1. UNCHANGED <<connected, notice>>
    BY <1>2 DEF Disconnect
  <2> QED
    BY <2>1, Unseen DEF IsMember, Silence
<1> QED
  BY <1>1, <1>2

(* LastSeen is written: a sign of life.                                    *)
LEMMA TouchIsHeard ==
  ASSUME PresenceInv, NEW a \in Addrs \ crossed, Touch PROVE Presence!Step(a)
<1>t. TypeOK
  BY DEF PresenceInv, HandledInv
<1>1. /\ rx = "touch" /\ rx' = "dispatch" /\ age' = [age EXCEPT ![cur] = 0]
      /\ UNCHANGED <<clients, connected, notice>>
  BY DEF Touch, tableVars
<1>2. cur \in Objs /\ age'[cur] = 0 /\ \A p \in Objs : p # cur => age'[p] = age[p]
  BY <1>1, <1>t DEF TypeOK
<1>3. /\ IsMember(a)' <=> IsMember(a)
      /\ a \notin Arriving /\ a \notin Arriving'
  BY <1>1 DEF IsMember, Arriving
<1>4. CASE IsMember(a) /\ clients[a] = cur
  <2>1. Silence(a)' = 0 /\ a \in Members /\ a \in Members'
    BY <1>1, <1>2, <1>3, <1>4 DEF Silence, Members
  <2>2. Presence!Heard(a)
    BY <1>1, <1>3, <2>1 DEF Presence!Heard
  <2> QED
    BY <2>2 DEF Presence!Step
<1>5. CASE ~(IsMember(a) /\ clients[a] = cur)
  <2>1. Silence(a)' = Silence(a)
    BY <1>1, <1>2, <1>3, <1>5, <1>t DEF Silence, IsMember, TypeOK
  <2> QED
    BY <1>1, <1>3, <2>1, Unseen
<1> QED
  BY <1>4, <1>5

(* A name is the coming of one who was not there, or nothing new.          *)
LEMMA NameIsComing ==
  ASSUME PresenceInv, NEW a \in Addrs \ crossed, SetName PROVE Presence!Step(a)
<1>t. TypeOK
  BY DEF PresenceInv, HandledInv
<1>1. /\ rx \in {"join", "rename"} /\ connected' = [connected EXCEPT ![cur] = TRUE]
      /\ UNCHANGED <<clients, addr, age, notice>>
      /\ IF rx = "join" THEN rx' = "announce" /\ cur' = cur ELSE rx' = "idle"
  BY DEF SetName, tableVars
<1>2. cur \in Objs /\ cur # None /\ age[cur] = 0
  BY <1>1, <1>t DEF PresenceInv, AgeInv, FreshWhileHandled, TypeOK
<1>3. addr[cur] = a <=> clients[a] = cur
  BY <1>t, <1>1, <1>2, FiledOnce DEF PresenceInv, HandledInv, Filed
<1>4. IsMember(a)' <=> IsMember(a) \/ clients[a] = cur
  BY <1>1, <1>t, NameBrings
<1>5. a \notin Arriving /\ (a \in Arriving' <=> rx = "join" /\ addr[cur] = a)
  BY <1>1 DEF Arriving
<1>6. CASE rx = "join" /\ clients[a] = cur
  <2>1. ~IsMember(a) /\ IsMember(a)' /\ a \in Arriving'
    BY <1>3, <1>4, <1>5, <1>6 DEF PresenceInv, HandledInv, ReadStillTrue, IsMember
  <2>2. Silence(a)' = 0 /\ a \notin Members /\ a \in Members'
    BY <1>1, <1>2, <1>6, <2>1 DEF Silence, Members
  <2>3. Presence!Comes(a)
    BY <1>1, <1>5, <2>1, <2>2 DEF Presence!Comes
  <2> QED
    BY <2>3 DEF Presence!Step
<1>7. CASE ~(rx = "join" /\ clients[a] = cur)
  <2>1. clients[a] = cur => IsMember(a)
    BY <1>1, <1>2, <1>3, <1>7 DEF PresenceInv, HandledInv, ReadStillTrue, IsMember
  <2>2. (IsMember(a)' <=> IsMember(a)) /\ a \notin Arriving'
    BY <1>3, <1>4, <1>5, <1>7, <2>1
  <2>3. Silence(a)' = Silence(a)
    BY <1>1, <2>2 DEF Silence
  <2> QED
    BY <1>1, <1>5, <2>2, <2>3, Unseen
<1> QED
  BY <1>6, <1>7

LEMMA AnnounceIsAnnounced ==
  ASSUME PresenceInv, NEW a \in Addrs \ crossed, Announce PROVE Presence!Step(a)
<1>t. TypeOK
  BY DEF PresenceInv, HandledInv
<1>1. /\ rx = "announce" /\ rx' = "welcome" /\ notice' = [notice EXCEPT ![addr[cur]] = "joined"]
      /\ UNCHANGED <<clients, connected, age>>
  BY DEF Announce, Moves, tableVars, fields
<1>2. cur \in Objs /\ cur # None /\ addr[cur] \in Addrs
  BY <1>1, <1>t, HeldStructs DEF TypeOK
<1>3. /\ IsMember(a)' <=> IsMember(a)
      /\ Silence(a)' = Silence(a) /\ a \notin Arriving'
  BY <1>1 DEF IsMember, Silence, Arriving
<1>4. CASE addr[cur] = a
  <2>1. IsMember(a) /\ a \in Arriving
    BY <1>1, <1>2, <1>4
    DEF PresenceInv, HandledInv, Filed, ReadStillTrue, IsMember, Arriving
  <2>2. notice[a] # "joined" /\ notice'[a] = "joined"
    BY <1>1, <1>4, <1>t, <2>1 DEF PresenceInv, NoticesOwed, TypeOK
  <2>3. a \in Members /\ a \in Members'
    BY <1>3, <2>1 DEF Members
  <2>4. Presence!Announced(a)
    BY <1>3, <2>1, <2>2, <2>3 DEF Presence!Announced
  <2> QED
    BY <2>4 DEF Presence!Step
<1>5. CASE addr[cur] # a
  <2>1. notice'[a] = notice[a] /\ a \notin Arriving
    BY <1>1, <1>2, <1>5, <1>t DEF Arriving, TypeOK
  <2> QED
    BY <1>3, <2>1, Unseen
<1> QED
  BY <1>4, <1>5

(* A period passes, and nobody who is there has been silent too long.      *)
LEMMA TickIsPeriod ==
  ASSUME PresenceInv, NEW a \in Addrs \ crossed, Tick PROVE Presence!Step(a)
<1>t. TypeOK
  BY DEF PresenceInv, HandledInv
<1>1. /\ rx = "idle" /\ Quiet /\ UNCHANGED <<clients, rx, notice>>
      /\ age' = [o \in Objs |-> IF o \notin Entries THEN 0
                                ELSE IF age[o] > Timeout THEN age[o] ELSE age[o] + 1]
  BY DEF Tick
<1>2. IsMember(a)' <=> IsMember(a)
  BY <1>t, TickTakesNone
<1>3. a \notin Arriving /\ a \notin Arriving'
  BY <1>1 DEF Arriving
<1>4. CASE IsMember(a)
  <2>1. clients[a] \in Entries /\ clients[a] \in Objs /\ connected[clients[a]]
    BY <1>t, <1>4 DEF IsMember, Entries, TypeOK
  <2>2. ~(age[clients[a]] > Timeout)
    BY <1>1, <2>1, NoneAssumption DEF PresenceInv, AgeInv, OverdueSwept, Quiet
  <2>3. age[clients[a]] \in 0..(Timeout + 1)
    BY <1>t, <2>1 DEF TypeOK
  <2>4. age'[clients'[a]] = age[clients[a]] + 1
    BY <1>1, <2>1, <2>2
  <2>5. Silence(a) <= Timeout /\ Silence(a)' = Silence(a) + 1
    BY <1>2, <1>4, <2>2, <2>3, <2>4, TimesAssumption DEF Silence
  <2>6. a \in Members /\ a \in Members'
    BY <1>2, <1>4 DEF Members
  <2>7. Presence!PeriodPasses(a)
    BY <1>1, <1>3, <2>5, <2>6 DEF Presence!PeriodPasses
  <2> QED
    BY <2>7 DEF Presence!Step
<1>5. CASE ~IsMember(a)
  <2>1. Silence(a)' = Silence(a)
    BY <1>2, <1>5 DEF Silence
  <2> QED
    BY <1>1, <1>2, <1>3, <2>1, Unseen
<1> QED
  BY <1>4, <1>5

(* Every step, for an address without a crossing, is one of Presence.      *)
LEMMA PresenceStep ==
  PresenceInv /\ [Next]_vars => \A a \in Addrs \ crossed' : Presence!Step(a)
<1> SUFFICES ASSUME PresenceInv, [Next]_vars, NEW a \in Addrs \ crossed' PROVE Presence!Step(a)
  OBVIOUS
<1>t. TypeOK
  BY DEF PresenceInv, HandledInv
<1>a. a \in Addrs \ crossed
  BY CrossedGrows
<1>u. ASSUME UNCHANGED <<clients, connected, age, notice>>, (a \in Arriving)' <=> a \in Arriving
      PROVE  Presence!Step(a)
  BY <1>u, Unseen DEF IsMember, Silence
<1>1. CASE UNCHANGED <<clients, addr, connected, age, notice, rx, cur>>
  BY <1>1, <1>u DEF Arriving
<1>2. ASSUME NEW b \in Addrs, TimerFires(b) PROVE Presence!Step(a)
  <2>1. UNCHANGED <<addr, age, rx, cur, notice>>
    BY <1>2 DEF TimerFires, fields
  <2>2. /\ IsMember(a)' <=> IsMember(a)
        /\ IsMember(a) => clients'[a] = clients[a]
    BY <1>2, <1>t, TimerTakesNone
  <2>3. Silence(a)' = Silence(a) /\ Arriving' = Arriving
    BY <2>1, <2>2 DEF Silence, Arriving
  <2> QED
    BY <2>1, <2>2, <2>3, Unseen
<1>3. ASSUME NEW b \in Addrs, ReceiveKnown(b) PROVE Presence!Step(a)
  BY <1>3, <1>u DEF ReceiveKnown, CanReceive, tableVars, fields, Arriving
<1>4. ASSUME NEW b \in Addrs, NEW o \in Objs, ReceiveNew(b, o) PROVE Presence!Step(a)
  <2>1. /\ rx = "idle" /\ rx' = "touch" /\ age' = [age EXCEPT ![o] = 0] /\ UNCHANGED notice
    BY <1>4 DEF ReceiveNew, CanReceive
  <2>2. /\ IsMember(a)' <=> IsMember(a)
        /\ IsMember(a) => clients'[a] = clients[a] /\ clients[a] # o
    BY <1>4, <1>t, NewBringsNone
  <2>3. IsMember(a) => clients[a] \in Objs
    BY <1>t DEF TypeOK, IsMember
  <2>4. \A p \in Objs : p # o => age'[p] = age[p]
    BY <2>1, <1>t DEF TypeOK
  <2>5. Silence(a)' = Silence(a) /\ a \notin Arriving /\ a \notin Arriving'
    BY <2>1, <2>2, <2>3, <2>4 DEF Silence, Arriving
  <2> QED
    BY <2>1, <2>2, <2>5, Unseen
<1>5. CASE Touch
  BY <1>5, <1>a, TouchIsHeard
<1>6. CASE Ignore \/ Chat \/ Speak \/ NameResponse \/ Welcome
  <2>1. /\ rx # "announce" /\ rx' # "announce"
        /\ UNCHANGED <<clients, connected, age, notice>>
    BY <1>6 DEF Ignore, Chat, Speak, NameResponse, Welcome, Moves, tableVars, fields
  <2> QED
    BY <2>1, <1>u DEF Arriving
<1>7. CASE Leave
  <2>1. rx = "dispatch" /\ rx' = "idle" /\ Disconnect(cur) /\ UNCHANGED <<clients, age>>
    BY <1>7 DEF Leave
  <2>2. cur \in Held /\ age[cur] = 0 /\ a \notin Arriving /\ a \notin Arriving'
    BY <2>1, <1>t, HeldStructs DEF PresenceInv, AgeInv, FreshWhileHandled, TypeOK, Arriving
  <2>3. addr[cur] = a => clients[a] = cur
    BY <1>a, <2>1 DEF PresenceInv, HandledInv, Filed
  <2> QED
    BY <1>a, <2>1, <2>2, <2>3, DisconnectIsGoing
<1>8. CASE SetName
  BY <1>8, <1>a, NameIsComing
<1>9. CASE Announce
  BY <1>9, <1>a, AnnounceIsAnnounced
<1>10. CASE Tick
  BY <1>10, <1>a, TickIsPeriod
<1>11. CASE SweepDrops
  <2>1. /\ target # None /\ Disconnect(target) /\ UNCHANGED <<clients, addr, age, rx, cur>>
        /\ DropCrosses => addr[target] \in crossed'
    BY <1>11 DEF SweepDrops, Crosses
  <2>2. target \in Held /\ (age[target] = 0 \/ age[target] > Timeout)
    BY <1>t, <2>1, HeldStructs DEF PresenceInv, TargetAge
  <2>3. ASSUME addr[target] = a, connected[target], clients[a] # None
        PROVE  clients[a] = target /\ a \notin Arriving
    <3>1. clients[a] = target /\ ~(target = cur /\ rx = "announce")
      BY <2>1, <2>3 DEF DropCrosses
    <3>2. rx = "announce" /\ addr[cur] = a => cur = target
      BY <1>a, <3>1 DEF PresenceInv, HandledInv, Filed
    <3> QED
      BY <3>1, <3>2 DEF Arriving
  <2>4. Arriving' = Arriving
    BY <2>1 DEF Arriving
  <2>5. CASE addr[target] = a /\ clients[a] = None
    <3>1. UNCHANGED <<connected, notice>>
      BY <2>1, <2>5 DEF Disconnect
    <3> QED
      BY <1>u, <2>1, <2>4, <3>1
  <2> QED
    BY <1>a, <2>1, <2>2, <2>3, <2>4, <2>5, DisconnectIsGoing
<1> QED
  BY <1>1, <1>2, <1>3, <1>4, <1>5, <1>6, <1>7, <1>8, <1>9, <1>10, <1>11
  DEF Next, Receiver, Sweep, vars, tableVars, fields, PeerGoes, SweepPings, SweepFinds, Notify, Exit

(* What Presence allows keeps the notices true.                            *)
LEMMA NoticesStep == PresenceInv /\ [Next]_vars => NoticesOwed'
<1> SUFFICES ASSUME PresenceInv, [Next]_vars, NEW a \in Addrs \ crossed'
             PROVE  notice'[a] = "joined" <=> IsMember(a)' /\ a \notin Arriving'
  BY DEF NoticesOwed
<1>1. Presence!Step(a)
  BY PresenceStep
<1>2. notice[a] = "joined" <=> a \in Members /\ a \notin Arriving
  BY CrossedGrows DEF PresenceInv, NoticesOwed, Members
<1>3. notice'[a] = "joined" <=> a \in Members' /\ a \notin Arriving'
  <2>1. CASE Presence!Heard(a) \/ Presence!PeriodPasses(a)
    BY <1>2, <2>1 DEF Presence!Heard, Presence!PeriodPasses
  <2>2. CASE Presence!Comes(a)
    BY <1>2, <2>2 DEF Presence!Comes
  <2>3. CASE Presence!Announced(a)
    BY <2>3 DEF Presence!Announced
  <2>4. CASE Presence!Goes(a)
    BY <2>4 DEF Presence!Goes
  <2>5. CASE UNCHANGED Presence!Of(a)
    BY <1>2, <2>5 DEF Presence!Of
  <2> QED
    BY <1>1, <2>1, <2>2, <2>3, <2>4, <2>5 DEF Presence!Step
<1> QED
  BY <1>3 DEF Members

-----------------------------------------------------------------------------
(* All of it, always.                                                      *)

LEMMA PresenceInvariant == Spec => [](PresenceInv /\ CountBounded)
<1>1. Init => PresenceInv /\ CountBounded
  <2> SUFFICES ASSUME Init PROVE PresenceInv /\ CountBounded
    OBVIOUS
  <2>1. TypeOK
    BY NoneAssumption, TimesAssumption DEF Init, TypeOK, RxStates, Held, Entries
  <2>2. \A a \in Addrs : ~IsMember(a)
    BY DEF Init, IsMember
  <2>3. Cardinality(Members) = 0
    BY <2>2, FS_EmptySet DEF Members
  <2>4. Entries = {}
    BY NoneAssumption DEF Init, Entries
  <2>5. HandledInv /\ AgeInv /\ TargetAge /\ NoticesOwed
    BY <2>1, <2>2, <2>4
    DEF Init, HandledInv, Filed, ReadStillTrue, AgeInv, FreshWhileHandled, OverdueSwept, TargetAge,
        NoticesOwed
  <2>6. CountBounded
    BY <2>3 DEF Init, CountBounded, Drift, Stray, Undone
  <2> QED
    BY <2>5, <2>6 DEF PresenceInv
<1>2. PresenceInv /\ CountBounded /\ [Next]_vars => (PresenceInv /\ CountBounded)'
  BY HandledStep, AgeStep, TargetStep, NoticesStep, CountStep DEF PresenceInv
<1> QED
  BY <1>1, <1>2, PTL DEF Spec

(* Under any interleaving of packets, sweeps and timers: whenever no       *)
(* packet is being handled, ActiveClients is off from the number of        *)
(* connected clients by at most one for each crossing.                     *)
THEOREM CountCorrect == Spec => []ActiveCountsMembers
<1>1. PresenceInv /\ CountBounded => ActiveCountsMembers
  <2> SUFFICES ASSUME PresenceInv, CountBounded, rx = "idle"
               PROVE  active - Cardinality(Members) \in -crossings..crossings
    BY DEF ActiveCountsMembers
  <2>1. active \in Int /\ crossings \in Nat /\ Cardinality(Members) \in Int
    BY MembersFinite DEF PresenceInv, HandledInv, TypeOK
  <2>2. Stray = 0 /\ Undone = 0 /\ Drift = active - Cardinality(Members) + 0
    BY DEF Stray, Undone, Drift
  <2> QED
    BY <2>1, <2>2 DEF CountBounded
<1> QED
  BY <1>1, PresenceInvariant, PTL

(* Under any interleaving: whenever no packet is being handled, the last   *)
(* line broadcast about a client that has met no crossing says that it     *)
(* joined exactly while it is connected.                                   *)
THEOREM NoticesCorrect == Spec => []NoticesAreTrue
<1>1. PresenceInv => NoticesAreTrue
  BY DEF PresenceInv, NoticesOwed, NoticesAreTrue, Arriving
<1> QED
  BY <1>1, PresenceInvariant, PTL

(* Under any interleaving the server keeps the promise of Presence to      *)
(* every client that has met no crossing, for any addresses, structs and   *)
(* timeout: when it is a member, when silence ends it, and what is         *)
(* broadcast of it.                                                        *)
THEOREM PresenceKept == Spec => ImplementsPresence
<1>1. Init => Presence!Init
  <2> SUFFICES ASSUME Init PROVE Presence!Init
    OBVIOUS
  <2>1. \A a \in Addrs : ~IsMember(a)
    BY DEF Init, IsMember
  <2>2. Members = {} /\ Arriving = {} /\ \A a \in Addrs : Silence(a) = 0
    BY <2>1 DEF Init, Members, Arriving, Silence
  <2> QED
    BY <2>2 DEF Init, Presence!Init
<1>2. PresenceInv /\ [Next]_vars => [\A a \in Addrs \ crossed' : Presence!Step(a)]_vars
  BY PresenceStep
<1> QED
  BY <1>1, <1>2, PresenceInvariant, PTL DEF Spec, ImplementsPresence
==============================================================================
