--------------------------- MODULE TcpSessionProofs ---------------------------
(***************************************************************************)
(* Theorems about TcpSession, for any number of attempts and all periods,  *)
(* deadlines, latencies and stalls.                                        *)
(***************************************************************************)
EXTENDS TcpSession, TLAPS

(* What is left to be read on a link that has been cut has arrived, and    *)
(* is no more than the backlog.                                            *)
Leftovers ==
  /\ link \in {"none", "up"} => late = 0
  /\ link = "cut" =>
       /\ \A m \in down : m.age = MaxLatency
       /\ \A m \in up : m.age = MaxLatency
       /\ late < MaxBacklog \/ \A m \in up : m.kind # "line"

(* TypeOK with what it needs to be inductive: a pause comes before another *)
(* attempt, and there is no link before a dial.                            *)
Typed ==
  /\ TypeOK
  /\ main = "pausing" => attempt < MaxAttempts
  /\ main \in {"prompt", "dialing", "pausing"} => link = "none"

(* Ages, and lines sent or grown older, stay within their types.           *)
LEMMA AgesTyped ==
  ASSUME NEW Kinds, NEW S \in SUBSET [kind : Kinds, age : Ages]
  PROVE  /\ Older(S) \in SUBSET [kind : Kinds, age : Ages]
         /\ \A K \in SUBSET S : /\ Arrived(K) \in SUBSET [kind : Kinds, age : Ages]
                               /\ \A m \in Arrived(K) : m.age = MaxLatency
         /\ \A k \in Kinds : S \cup {Fresh(k)} \in SUBSET [kind : Kinds, age : Ages]
<1>1. \A m \in S : [m EXCEPT !.age = IF @ < MaxLatency THEN @ + 1 ELSE @] \in [kind : Kinds, age : Ages]
  BY PeriodsAssumption DEF Ages
<1>2. \A k \in Kinds : Fresh(k) \in [kind : Kinds, age : Ages]
  BY PeriodsAssumption DEF Fresh, Ages
<1>3. \A m \in S : [m EXCEPT !.age = MaxLatency] \in [kind : Kinds, age : {MaxLatency}]
  OBVIOUS
<1>4. MaxLatency \in Ages
  BY PeriodsAssumption DEF Ages
<1> QED
  BY <1>1, <1>2, <1>3, <1>4 DEF Older, Arrived

(* A line that had time left is a unit older after a tick.                 *)
LEMMA OlderBy ==
  ASSUME NEW Kinds, NEW S \in SUBSET [kind : Kinds, age : Ages], NEW m \in S, m.age < MaxLatency
  PROVE  \E n \in Older(S) : n.kind = m.kind /\ n.age = m.age + 1
<1>1. [m EXCEPT !.age = IF @ < MaxLatency THEN @ + 1 ELSE @] \in Older(S)
  BY DEF Older
<1>2. m \in [kind : Kinds, age : Ages]
  OBVIOUS
<1> QED
  BY <1>1, <1>2

(* What has arrived grows no older.                                        *)
LEMMA ArrivedStays ==
  ASSUME NEW Kinds, NEW S \in SUBSET [kind : Kinds, age : Ages], \A m \in S : m.age = MaxLatency
  PROVE  Older(S) = S
<1>1. \A m \in S : [m EXCEPT !.age = IF @ < MaxLatency THEN @ + 1 ELSE @] = m
  BY PeriodsAssumption DEF Ages
<1> QED
  BY <1>1 DEF Older

(* What the handler spends on n broadcasts.                                *)
Backlog(n) == n * ChatBound

LEMMA Times ==
  ASSUME NEW c \in Nat
  PROVE  \A n \in Nat : n * c \in Nat /\ (n + 1) * c = n * c + c
  OBVIOUS

LEMMA Backlogs ==
  /\ \A n \in Nat : Backlog(n) \in Nat
  /\ \A n \in Nat : Backlog(n + 1) = Backlog(n) + ChatBound
<1>1. ChatBound \in Nat
  BY PeriodsAssumption DEF ChatBound
<1> QED
  BY <1>1, Times DEF Backlog

(* The bounds on the handler's absence are numbers.                        *)
LEMMA Bounds ==
  /\ JoinBound \in Nat /\ ChatBound \in Nat /\ LostBound \in Nat
  /\ ChatBound <= JoinBound
<1>1. JoinBound \in Nat /\ ChatBound \in Nat /\ ChatBound <= JoinBound
  BY PeriodsAssumption DEF JoinBound, ChatBound
<1>2. MaxBacklog * ChatBound \in Nat
  BY <1>1, Backlogs, PeriodsAssumption DEF Backlog
<1> QED
  BY <1>1, <1>2, PeriodsAssumption DEF LostBound

(* Away is JoinBound and the late lines' broadcasts.                       *)
LEMMA AwayIs == Away = JoinBound + Backlog(late)
  BY DEF Away, Backlog

(* What is sent is of the right type.                                      *)
LEMMA SentTyped ==
  ASSUME TypeOK
  PROVE  /\ \A k \in {"ping", "line"} : SendDown(k) => down' \in SUBSET ToClient
         /\ \A k \in {"name", "pong", "line"} : SendUp(k) => up' \in SUBSET ToServer
         /\ ClientCloses \/ ServerCloses => down' \in SUBSET ToClient /\ up' \in SUBSET ToServer
         /\ Closes => link' \in {"none", "up", "cut", "closed"} /\ (link = "none" => link' = "none")
  BY AgesTyped DEF TypeOK, SendDown, SendUp, ClientCloses, ServerCloses, Closes, ToClient, ToServer

(* Nothing more is sent on a link that has been cut.                       *)
LEMMA CutSends ==
  /\ \A k : SendDown(k) => (link # "up" => down' = down)
  /\ \A k : SendUp(k) => (link # "up" => up' = up)
  BY DEF SendDown, SendUp

-----------------------------------------------------------------------------
(* A step keeps Leftovers: only what had arrived is read after a cut.      *)
LEMMA LeftoversStep == Typed /\ Leftovers /\ [Next]_vars => Leftovers'
<1> SUFFICES ASSUME Typed, Leftovers, [Next]_vars PROVE Leftovers'
  OBVIOUS
<1> USE DEF Leftovers, Typed
<1>1. CASE UNCHANGED <<link, down, up, late>>
  BY <1>1
<1>2. CASE UNCHANGED <<link, late>> /\ down' \subseteq down /\ up' \subseteq up
  BY <1>2
<1>3. CASE UNCHANGED vars \/ Prompted \/ DialFails \/ Retries \/ Signalled \/ ReaderFails
             \/ ReaderReports \/ WriterFails \/ WriterReports \/ BroadcastDone
  BY <1>1, <1>3 DEF vars, clocks, client, Prompted, DialFails, Retries, Signalled, ReaderFails,
     ReaderReports, WriterFails, WriterReports, BroadcastDone
<1>4. CASE Dials
  BY <1>4 DEF Dials
<1>5. CASE SendsName \/ Pongs \/ Types \/ Welcomes \/ RoomSpeaks
  BY <1>5, CutSends DEF SendsName, Pongs, Types, Welcomes, RoomSpeaks, client, clocks
<1>6. CASE Heartbeat
  BY <1>6, CutSends DEF Heartbeat, TickerFires, BeatWakes, BeatPings, BeatStops, client
<1>7. CASE Ends \/ HandlerFails \/ ServerEnds
  BY <1>7 DEF Ends, HandlerFails, ServerEnds, ClientCloses, ServerCloses, Closes, clocks
<1>8. ASSUME NEW m \in ToClient, Receives(m) PROVE Leftovers'
  BY <1>2, <1>8 DEF Receives
<1>9. ASSUME NEW m \in ToServer, NameArrives(m) \/ PongArrives(m) PROVE Leftovers'
  BY <1>2, <1>9 DEF NameArrives, PongArrives
<1>10. ASSUME NEW m \in ToServer, LineArrives(m) PROVE Leftovers'
  <2>1. CASE link # "cut"
    BY <1>10, <2>1 DEF LineArrives
  <2>2. CASE link = "cut"
    <3>1. late' = late + 1 /\ link' = link /\ down' = down /\ up' \subseteq up
      BY <1>10, <2>2 DEF LineArrives
    <3>2. CASE up' = up \ {m}
      <4>1. \A n \in up' : n.kind # "line"
        BY <1>10, <2>2, <3>2 DEF LineArrives, Oldest, TypeOK, ToServer
      <4> QED
        BY <2>2, <3>1, <4>1
    <3>3. CASE late + 1 < MaxBacklog
      BY <2>2, <3>1, <3>3
    <3> QED
      BY <1>10, <2>2, <3>2, <3>3 DEF LineArrives, MoreLines
  <2> QED
    BY <2>1, <2>2
<1>11. CASE Cut
  <2>1. link = "up" /\ link' = "cut" /\ late' = late
    BY <1>11 DEF Cut, clocks
  <2>2. \A m \in down' : m.age = MaxLatency
    <3>1. PICK K \in SUBSET down : down' = Arrived(K)
      BY <1>11 DEF Cut
    <3> QED
      BY <3>1, AgesTyped DEF TypeOK, ToClient
  <2>3. \A m \in up' : m.age = MaxLatency
    <3>1. PICK K \in SUBSET up : up' = Arrived(K)
      BY <1>11 DEF Cut
    <3>2. up \in SUBSET [kind : {"name", "pong", "line"}, age : Ages]
      BY DEF TypeOK, ToServer
    <3>3. ASSUME NEW m \in Arrived(K) PROVE m.age = MaxLatency
      <4>1. PICK k \in K : m = [k EXCEPT !.age = MaxLatency]
        BY <3>3 DEF Arrived
      <4>2. k \in [kind : {"name", "pong", "line"}, age : Ages]
        BY <3>2
      <4> QED
        BY <4>1, <4>2
    <3> QED
      BY <3>1, <3>3
  <2> QED
    BY <2>1, <2>2, <2>3, PeriodsAssumption
<1>12. CASE Tick
  <2>1. UNCHANGED <<link, late>> /\ down' = Older(down) /\ up' = Older(up)
    BY <1>12 DEF Tick
  <2>2. link = "cut" => down' = down /\ up' = up
    BY <2>1, ArrivedStays DEF TypeOK, ToClient, ToServer
  <2> QED
    BY <2>1, <2>2
<1> QED
  BY <1>3, <1>4, <1>5, <1>6, <1>7, <1>8, <1>9, <1>10, <1>11, <1>12
  DEF Next, Main, Reader, Writer, Handler

(* A step keeps every variable within its type.                            *)
LEMMA TypedStep == Typed /\ Leftovers /\ [Next]_vars => Typed'
<1> SUFFICES ASSUME Typed, Leftovers, [Next]_vars PROVE Typed'
  OBVIOUS
<1> USE AttemptsAssumption, PeriodsAssumption, Bounds, SentTyped
    DEF Typed, TypeOK, MainStates, ReaderStates, WriterStates, HandlerStates, BeatStates
<1>1. CASE UNCHANGED vars
  BY <1>1 DEF vars, client, clocks
<1>2. CASE Prompted \/ Dials \/ DialFails \/ Retries
  BY <1>2 DEF Prompted, Dials, DialFails, Retries, clocks, client
<1>17. CASE Cut
  <2>1. down' \in SUBSET ToClient /\ up' \in SUBSET ToServer
    BY <1>17, AgesTyped DEF Cut, ToClient, ToServer
  <2> QED
    BY <1>17, <2>1 DEF Cut, clocks, client
<1>16. CASE Signalled
  <2>1. cancelled' \in BOOLEAN
    BY <1>16, Zenon DEF Signalled
  <2> QED
    BY <1>16, <2>1 DEF Signalled, clocks
<1>3. CASE SendsName
  BY <1>3 DEF SendsName
<1>4. CASE Ends
  BY <1>4 DEF Ends, ClientCloses
<1>5. ASSUME NEW m \in ToClient, Receives(m) PROVE Typed'
  BY <1>5 DEF Receives, Again
<1>6. CASE Pongs
  BY <1>6 DEF Pongs, Again
<1>7. CASE ReaderFails \/ ReaderReports \/ WriterFails \/ WriterReports
  BY <1>7 DEF ReaderFails, ReaderReports, WriterFails, WriterReports, clocks
<1>8. CASE Types
  BY <1>8 DEF Types, clocks
<1>9. ASSUME NEW m \in ToServer, NameArrives(m) \/ PongArrives(m) PROVE Typed'
  BY <1>9 DEF NameArrives, PongArrives, client
<1>18. ASSUME NEW m \in ToServer, LineArrives(m) PROVE Typed'
  <2>1. late' \in 0..MaxBacklog
    BY <1>18 DEF LineArrives, Oldest, Leftovers
  <2>2. up' \in SUBSET ToServer
    BY <1>18 DEF LineArrives
  <2> QED
    BY <1>18, <2>1, <2>2 DEF LineArrives, client
<1>10. CASE Welcomes
  <2>1. due' \in BOOLEAN
    BY <1>10, Zenon DEF Welcomes
  <2>2. down' \in SUBSET ToClient
    BY <1>10 DEF Welcomes
  <2> QED
    BY <1>10, <2>1, <2>2 DEF Welcomes, client
<1>11. CASE BroadcastDone \/ RoomSpeaks
  BY <1>11 DEF BroadcastDone, RoomSpeaks, client, clocks
<1>12. CASE HandlerFails
  BY <1>12 DEF HandlerFails, ServerCloses, client
<1>19. CASE ServerEnds
  <2>1. due' \in BOOLEAN
    BY <1>19, Zenon DEF ServerEnds, TickerStops
  <2> QED
    BY <1>19, <2>1 DEF ServerEnds, ServerCloses, TickerStops, client
<1>13. CASE TickerFires \/ BeatWakes \/ BeatStops
  <2>1. due' \in BOOLEAN
    BY <1>13, Zenon DEF TickerFires, BeatWakes, BeatStops, TickerStops
  <2> QED
    BY <1>13, <2>1 DEF TickerFires, BeatWakes, BeatStops, TickerStops, client
<1>14. CASE BeatPings
  BY <1>14 DEF BeatPings, client
<1>15. CASE Tick
  <2>1. down' \in SUBSET ToClient /\ up' \in SUBSET ToServer
    BY <1>15, AgesTyped DEF Tick, ToClient, ToServer
  <2>2. clock' \in 0..Period /\ wait' \in 0..MaxStall
    BY <1>15 DEF Tick, NothingDue
  <2>3. busy' \in 0..JoinBound
    BY <1>15 DEF Tick, NothingDue
  <2>4. cidle' \in 0..ClientTimeout /\ sidle' \in 0..ServerTimeout
    BY <1>15 DEF Tick, NothingDue
  <2>5. lost' \in 0..LostBound
    BY <1>15 DEF Tick
  <2> QED
    BY <1>15, <2>1, <2>2, <2>3, <2>4, <2>5 DEF Tick, client
<1> QED
  BY <1>1, <1>2, <1>3, <1>4, <1>5, <1>6, <1>7, <1>8, <1>9, <1>10, <1>11, <1>12, <1>13, <1>14, <1>15, <1>16,
     <1>17, <1>18, <1>19
  DEF Next, Main, Reader, Writer, Handler, Heartbeat

(* The initial state is typed.                                             *)
LEMMA TypedInit == Init => Typed
<1> SUFFICES ASSUME Init PROVE Typed
  OBVIOUS
<1>1. cancelled \in BOOLEAN /\ due \in BOOLEAN
  BY Zenon DEF Init
<1> QED
  BY <1>1, AttemptsAssumption, PeriodsAssumption, Bounds
  DEF Init, Typed, TypeOK, MainStates, ReaderStates, WriterStates, HandlerStates, BeatStates

(* Every variable of a session holds a value of its type, however slow the *)
(* network and the other clients.                                          *)
LEMMA TypedAlways == Spec => [](TypeOK /\ Leftovers)
<1>1. Typed => TypeOK
  BY DEF Typed
<1>2. Init => Leftovers
  BY DEF Init, Leftovers
<1> QED
  BY <1>1, <1>2, TypedInit, TypedStep, LeftoversStep, PTL DEF Spec

THEOREM TypeCorrect == Spec => []TypeOK
  BY TypedAlways, PTL
-----------------------------------------------------------------------------
(* A lost link.  Whoever still waits on its read has waited since the cut, *)
(* but for what the handler was busy with; what had arrived is read before *)
(* any time passes.                                                        *)
ClientSince ==
  /\ main # "ended" => lost <= ClientTimeout
  /\ main = "naming" \/ reader = "ponging" => lost = 0
  /\ reader = "scanning" => lost <= cidle
  /\ main # "ended" /\ down # {} => lost = 0

ServerSince ==
  /\ handler # "none"
  /\ handler = "naming" => lost <= sidle /\ (up # {} => lost = 0)
  /\ handler = "joining" => lost <= busy
  /\ handler = "reading" => lost <= Away + sidle /\ (up # {} => lost <= Away)
  /\ handler = "broadcasting" =>
       lost <= busy \/ (late > 0 /\ lost <= JoinBound + Backlog(late - 1) + busy)

Since ==
  /\ main \in {"prompt", "dialing", "pausing"} => link = "none"
  /\ link \in {"none", "up"} => lost = 0
  /\ link = "up" => handler # "none"
  /\ main # "session" => reader \in {"off", "ended"}
  /\ main = "session" => reader # "off" /\ (reader = "ended" => errs > 0 \/ cancelled)
  /\ handler = "broadcasting" => busy <= ChatBound
  /\ link = "cut" => ClientSince /\ ServerSince

(* A step keeps Since.                                                     *)
LEMMA SinceStep == TypeOK /\ Leftovers /\ Since /\ [Next]_vars => Since'
<1> SUFFICES ASSUME TypeOK, Leftovers, Since, [Next]_vars PROVE Since'
  OBVIOUS
<1> USE AttemptsAssumption, PeriodsAssumption, Bounds, Backlogs, AwayIs
    DEF TypeOK, MainStates, ReaderStates, HandlerStates, Since, ClientSince, ServerSince
<1>20. late' = late => Away' = Away /\ Backlog(late - 1)' = Backlog(late - 1)
  BY DEF Away, Backlog
<1>1. CASE UNCHANGED vars
  BY <1>1, <1>20 DEF vars, client, clocks
<1>2. CASE Prompted \/ Dials \/ DialFails \/ Retries
  <2>1. main \in {"prompt", "dialing", "pausing"} /\ link = "none"
    BY <1>2 DEF Prompted, Dials, DialFails, Retries
  <2>2. CASE Dials
    BY <2>1, <2>2 DEF Dials
  <2>3. CASE Prompted \/ Retries
    BY <2>1, <2>3 DEF Prompted, Retries, clocks
  <2>4. CASE DialFails
    BY <2>1, <2>4 DEF DialFails, clocks
  <2> QED
    BY <1>2, <2>2, <2>3, <2>4
<1>16. CASE SendsName
  BY <1>16, <1>20, CutSends DEF SendsName
<1>3. CASE Signalled
  BY <1>3, <1>20 DEF Signalled, clocks
<1>4. CASE Ends
  BY <1>4, <1>20 DEF Ends, ClientCloses, Closes
<1>5. ASSUME NEW m \in ToClient, Receives(m) PROVE Since'
  <2>1. UNCHANGED <<main, cancelled, errs, handler, link, up, busy, sidle, lost, late>>
    BY <1>5 DEF Receives
  <2>2. m \in down /\ reader = "scanning" /\ cidle' = 0
    BY <1>5 DEF Receives, Again, Oldest
  <2>3. reader' \in {"ponging", "scanning", "ended"} /\ (reader' = "ended" => cancelled)
    BY <1>5 DEF Receives, Again
  <2>4. link = "cut" => lost = 0
    BY <2>2
  <2>5. link' = "cut" => ClientSince'
    BY <2>1, <2>2, <2>3, <2>4
  <2>6. link' = "cut" => ServerSince'
    BY <1>20, <2>1
  <2> QED
    BY <2>1, <2>2, <2>3, <2>5, <2>6
<1>6. CASE Pongs
  BY <1>6, <1>20, CutSends DEF Pongs, Again
<1>7. CASE ReaderFails \/ ReaderReports
  BY <1>7, <1>20 DEF ReaderFails, ReaderReports, clocks
<1>8. CASE Types \/ WriterFails \/ WriterReports
  BY <1>8, <1>20, CutSends DEF Types, WriterFails, WriterReports, clocks
<1>9. ASSUME NEW m \in ToServer, NameArrives(m) \/ PongArrives(m) PROVE Since'
  BY <1>9, <1>20 DEF NameArrives, PongArrives, Oldest, client
<1>17. ASSUME NEW m \in ToServer, LineArrives(m) PROVE Since'
  BY <1>17 DEF LineArrives, Oldest, client
<1>10. CASE Welcomes
  BY <1>10, <1>20, CutSends DEF Welcomes, client
<1>11. CASE BroadcastDone \/ RoomSpeaks
  BY <1>11, <1>20, CutSends DEF BroadcastDone, RoomSpeaks, client, clocks
<1>12. CASE HandlerFails \/ ServerEnds
  BY <1>12, <1>20 DEF HandlerFails, ServerEnds, ServerCloses, Closes, client
<1>13. CASE Heartbeat
  BY <1>13, <1>20, CutSends DEF Heartbeat, TickerFires, BeatWakes, BeatPings, BeatStops, client
<1>14. CASE Cut
  BY <1>14, <1>20 DEF Cut, client, clocks
<1>15. CASE Tick
  <2>1. link' = "cut" => UNCHANGED <<down, up>>
    BY <1>15, ArrivedStays DEF Tick, Leftovers, ToClient, ToServer
  <2>2. link' = "cut" => lost' <= lost + 1 /\ late' = late
    BY <1>15 DEF Tick
  <2>3. link' = "cut" => ClientSince'
    BY <1>15, <2>1, <2>2 DEF Tick, NothingDue, Leftovers, client
  <2>4. link' = "cut" => ServerSince'
    BY <1>15, <1>20, <2>1, <2>2 DEF Tick, NothingDue, Leftovers, client
  <2> QED
    BY <1>15, <2>3, <2>4 DEF Tick, NothingDue, client
<1> QED
  BY <1>1, <1>2, <1>3, <1>4, <1>5, <1>6, <1>7, <1>8, <1>9, <1>10, <1>11, <1>12, <1>13, <1>14, <1>15,
     <1>16, <1>17
  DEF Next, Main, Reader, Writer, Handler

(* A link that is silently lost is noticed by both sides, whatever they go *)
(* on writing: within its read deadline by the client, within its own, the *)
(* longest it was away from its read then and a broadcast for each chat    *)
(* line that had already arrived by the server.                            *)
THEOREM LossNoticed == Spec => []CutNoticed
<1>1. Init => Since
  BY DEF Init, Since
<1>2. TypeOK /\ Since => CutNoticed
  <2> SUFFICES ASSUME TypeOK, Since, link = "cut", handler # "dropped", lost > ServerTimeout + Away
               PROVE  FALSE
    BY PeriodsAssumption DEF TypeOK, Since, ClientSince, CutNoticed
  <2>1. late > 0 => Backlog(late) = Backlog(late - 1) + ChatBound
    <3>1. late > 0 => late - 1 \in Nat /\ (late - 1) + 1 = late
      BY DEF TypeOK
    <3> QED
      BY <3>1, Backlogs
  <2> QED
    BY <2>1, PeriodsAssumption, Bounds, Backlogs, AwayIs DEF TypeOK, HandlerStates, Since, ServerSince
<1> QED
  BY <1>1, <1>2, SinceStep, TypedAlways, PTL DEF Spec

-----------------------------------------------------------------------------
(* A live link, under Margin.  Where each side and the heartbeat are.      *)
Shape ==
  /\ main \in {"prompt", "dialing", "pausing"} => link = "none"
  /\ link = "none" => down = {} /\ up = {}
  /\ link = "up" => main \in {"naming", "session"} /\ handler \notin {"none", "dropped"}
  /\ reader \in {"scanning", "ponging", "failed"} \/ writer = "typing" => main = "session"
  /\ main = "session" => reader # "off" /\ (reader = "ended" => errs > 0 \/ cancelled)
  /\ link = "up" /\ main = "naming" => handler = "naming" /\ sidle = 0 /\ up = {}
  /\ link = "up" /\ handler \in {"reading", "broadcasting"} => beat \in {"select", "locking"}
  /\ beat = "select" /\ due => clock = 0
  /\ beat = "locking" => ~due /\ clock = wait

(* A wait of t is no longer than the heartbeat's work on its next ping.    *)
Pinging(t) ==
  \/ beat = "select" /\ ~due /\ t <= clock
  \/ beat = "select" /\ due /\ t <= Period
  \/ beat = "locking" /\ t <= Period + clock

(* What will end the client's wait: a line under way, the ping to come,    *)
(* the answer to its name.                                                 *)
ClientFed ==
  \/ \E m \in down : cidle <= Period + MaxStall + m.age
  \/ Pinging(cidle)
  \/ handler = "naming" /\ \E m \in up : m.kind = "name" /\ cidle <= m.age
  \/ handler = "joining" /\ cidle <= MaxLatency + busy

(* What will end the server's: a line or pong under way, the pong about to *)
(* be sent, a ping under way, the ping to come.                            *)
ServerFed ==
  \/ \E m \in up : sidle <= Period + MaxStall + MaxLatency + m.age
  \/ reader = "ponging" /\ sidle <= Period + MaxStall + MaxLatency
  \/ \E m \in down : m.kind = "ping" /\ sidle <= Period + MaxStall + m.age
  \/ Pinging(sidle)

Fed ==
  link = "up" =>
    /\ reader = "scanning" => ClientFed
    /\ handler = "reading" => ServerFed
    /\ handler = "naming" /\ main = "session" => \E m \in up : m.kind = "name" /\ sidle <= m.age

(* A step under Margin keeps the shape of a session.                       *)
LEMMA ShapeStep ==
  ASSUME Margin, TypeOK, Shape, [Next]_vars
  PROVE  Shape'
<1> USE AttemptsAssumption, PeriodsAssumption, Bounds
    DEF TypeOK, MainStates, ReaderStates, WriterStates, HandlerStates, BeatStates, Margin, Shape
<1>1. CASE UNCHANGED vars
  BY <1>1 DEF vars, client, clocks
<1>2. CASE Prompted \/ Dials \/ DialFails \/ Retries \/ SendsName
  BY <1>2 DEF Prompted, Dials, DialFails, Retries, SendsName, SendUp, clocks
<1>3. CASE Signalled
  BY <1>3 DEF Signalled, clocks
<1>4. CASE Ends
  BY <1>4 DEF Ends, ClientCloses, Closes
<1>5. ASSUME NEW m \in ToClient, Receives(m) PROVE Shape'
  BY <1>5 DEF Receives, Again
<1>6. CASE Pongs \/ ReaderFails \/ ReaderReports
  BY <1>6 DEF Pongs, ReaderFails, ReaderReports, Again, SendUp, clocks
<1>7. CASE Types \/ WriterFails \/ WriterReports
  BY <1>7 DEF Types, WriterFails, WriterReports, SendUp, clocks
<1>8. ASSUME NEW m \in ToServer, NameArrives(m) \/ PongArrives(m) \/ LineArrives(m) PROVE Shape'
  BY <1>8 DEF NameArrives, PongArrives, LineArrives, Oldest, client
<1>9. CASE Welcomes
  BY <1>9 DEF Welcomes, SendDown, client
<1>10. CASE BroadcastDone \/ RoomSpeaks
  BY <1>10 DEF BroadcastDone, RoomSpeaks, SendDown, client, clocks
<1>11. CASE HandlerFails \/ ServerEnds
  BY <1>11 DEF HandlerFails, ServerEnds, ServerCloses, Closes, TickerStops, client
<1>12. CASE Heartbeat
  BY <1>12 DEF Heartbeat, TickerFires, BeatWakes, BeatPings, BeatStops, TickerStops, SendDown, client
<1>13. CASE Cut
  BY <1>13 DEF Cut, client, clocks
<1>14. CASE Tick
  BY <1>14 DEF Tick, NothingDue, Older, client
<1> QED
  BY <1>1, <1>2, <1>3, <1>4, <1>5, <1>6, <1>7, <1>8, <1>9, <1>10, <1>11, <1>12, <1>13, <1>14
  DEF Next, Main, Reader, Writer, Handler

-----------------------------------------------------------------------------
(* What is sent on a live link is under way, and nothing else is lost.     *)
LEMMA Sent ==
  ASSUME link = "up"
  PROVE  /\ \A k : SendUp(k) => up' = up \cup {Fresh(k)}
         /\ \A k : SendDown(k) => down' = down \cup {Fresh(k)}
         /\ \A k : Fresh(k).kind = k /\ Fresh(k).age = 0
  BY DEF SendUp, SendDown, Fresh

(* While time passes no line has reached the longest latency, if its       *)
(* receiver reads.                                                         *)
LEMMA UnderWay ==
  ASSUME TypeOK, Tick
  PROVE  /\ reader = "scanning" =>
              \A m \in down : \E n \in down' : n.kind = m.kind /\ n.age = m.age + 1
         /\ handler \in {"naming", "reading"} =>
              \A m \in up : \E n \in up' : n.kind = m.kind /\ n.age = m.age + 1
<1>1. ASSUME reader = "scanning", NEW m \in down
      PROVE  \E n \in down' : n.kind = m.kind /\ n.age = m.age + 1
  BY <1>1, OlderBy DEF Tick, NothingDue, TypeOK, ToClient
<1>2. ASSUME handler \in {"naming", "reading"}, NEW m \in up
      PROVE  \E n \in up' : n.kind = m.kind /\ n.age = m.age + 1
  BY <1>2, OlderBy DEF Tick, NothingDue, TypeOK, ToServer
<1> QED
  BY <1>1, <1>2

(* While the handler reads, a wait that has just begun is no longer than   *)
(* the heartbeat's work.                                                   *)
LEMMA PingingAnew ==
  ASSUME TypeOK, Shape, link = "up", handler \in {"reading", "broadcasting"}
  PROVE  Pinging(0)
  BY PeriodsAssumption DEF TypeOK, Shape, Pinging

(* A wait covered by the heartbeat's work stays covered, or a ping is sent *)
(* that covers it.                                                         *)
LEMMA PingingStep ==
  ASSUME Margin, TypeOK, Shape, link = "up", NEW t \in Nat, Pinging(t)
  PROVE  /\ Tick => Pinging(t + 1)'
         /\ Heartbeat \/ UNCHANGED <<beat, due, clock>> =>
              Pinging(t)' \/ (t <= Period + MaxStall /\ Fresh("ping") \in down')
<1> USE PeriodsAssumption DEF TypeOK, Shape, Margin, Pinging
<1>1. CASE Tick
  BY <1>1 DEF Tick, NothingDue
<1>2. ASSUME TickerFires PROVE Pinging(t)'
  BY <1>2 DEF TickerFires
<1>3. ASSUME BeatWakes PROVE Pinging(t)'
  BY <1>3 DEF BeatWakes
<1>4. ASSUME BeatPings PROVE t <= Period + MaxStall /\ Fresh("ping") \in down'
  BY <1>4, Sent DEF BeatPings
<1>5. ~BeatStops
  BY DEF BeatStops
<1>6. ASSUME UNCHANGED <<beat, due, clock>> PROVE Pinging(t)'
  BY <1>6
<1> QED
  BY <1>1, <1>2, <1>3, <1>4, <1>5, <1>6 DEF Heartbeat


(* A read of the client that has just begun is fed.                        *)
LEMMA FedAnew ==
  ASSUME TypeOK, Shape, Fed, link = "up", main = "session", cidle' = 0,
         UNCHANGED <<handler, beat, due, clock, busy>>, up \subseteq up'
  PROVE  ClientFed'
<1>1. handler \in {"naming", "joining", "reading", "broadcasting"}
  BY DEF TypeOK, HandlerStates, Shape
<1>2. CASE handler \in {"reading", "broadcasting"}
  BY <1>2, PingingAnew DEF ClientFed, Pinging
<1>3. CASE handler = "naming"
  <2>1. PICK m \in up : m.kind = "name" /\ sidle <= m.age
    BY <1>3 DEF Fed
  <2>2. m.age \in Nat
    BY PeriodsAssumption DEF TypeOK, ToServer, Ages
  <2> QED
    BY <1>3, <2>1, <2>2 DEF ClientFed
<1>4. CASE handler = "joining"
  BY <1>4, PeriodsAssumption, Bounds DEF ClientFed, TypeOK
<1> QED
  BY <1>1, <1>2, <1>3, <1>4

(* While the client's read goes on, it stays fed.                          *)
LEMMA ClientFedStep ==
  ASSUME Margin, TypeOK, Shape, Fed, [Next]_vars, link' = "up", reader' = "scanning"
  PROVE  ClientFed'
<1> USE DEF TypeOK, Shape
<1>1. link = "up" => Fed /\ (reader = "scanning" => ClientFed)
  BY DEF Fed
<1>2. ASSUME reader = "scanning", UNCHANGED <<link, handler, beat, due, clock, busy, cidle>>,
             down \subseteq down', up \subseteq up'
      PROVE  ClientFed'
  BY <1>1, <1>2 DEF ClientFed, Pinging
<1>3. CASE Prompted \/ DialFails \/ Retries \/ Signalled \/ ReaderFails \/ ReaderReports \/ UNCHANGED vars
  BY <1>2, <1>3 DEF Prompted, DialFails, Retries, Signalled, ReaderFails, ReaderReports, vars, clocks, client
<1>4. CASE Types \/ WriterFails \/ WriterReports \/ RoomSpeaks
  BY <1>2, <1>4, Sent DEF Types, WriterFails, WriterReports, RoomSpeaks, clocks, client
<1>5. ~Dials /\ ~Ends /\ ~HandlerFails /\ ~ServerEnds /\ ~Cut
  BY DEF Dials, Ends, HandlerFails, ServerEnds, Cut, ClientCloses, ServerCloses, Closes
<1>6. CASE SendsName
  BY <1>6, Sent, PeriodsAssumption DEF SendsName, ClientFed
<1>7. ASSUME NEW m \in ToClient, Receives(m) PROVE ClientFed'
  BY <1>1, <1>7, FedAnew DEF Receives, Again
<1>8. CASE Pongs
  BY <1>1, <1>8, FedAnew, Sent DEF Pongs, Again
<1>9. ASSUME NEW m \in ToServer, NameArrives(m) PROVE ClientFed'
  BY <1>1, <1>9, PeriodsAssumption DEF NameArrives, client, ClientFed, Pinging, ToServer, Ages
<1>10. ASSUME NEW m \in ToServer, PongArrives(m) \/ LineArrives(m) PROVE ClientFed'
  BY <1>1, <1>10 DEF PongArrives, LineArrives, client, ClientFed, Pinging
<1>11. CASE Welcomes
  <2>1. link = "up" /\ reader = "scanning" /\ handler = "joining" /\ cidle' = cidle
    BY <1>11 DEF Welcomes, client
  <2>2. Fresh("line") \in down' /\ Fresh("line").age = 0 /\ down \subseteq down'
    BY <1>11, <2>1, Sent DEF Welcomes
  <2>3. CASE \E m \in down : cidle <= Period + MaxStall + m.age
    BY <2>1, <2>2, <2>3 DEF ClientFed
  <2>4. CASE Pinging(cidle) \/ cidle <= MaxLatency + busy
    <3>1. cidle <= Period + MaxStall
      BY <2>4, PeriodsAssumption DEF Pinging, Margin, JoinBound
    <3> QED
      BY <2>1, <2>2, <3>1, PeriodsAssumption DEF ClientFed
  <2> QED
    BY <1>1, <2>1, <2>3, <2>4 DEF ClientFed
<1>12. CASE BroadcastDone
  BY <1>1, <1>12 DEF BroadcastDone, client, ClientFed, Pinging
<1>13. CASE Heartbeat
  <2>1. UNCHANGED <<link, reader, handler, up, busy, cidle>> /\ (link = "up" => down \subseteq down')
    BY <1>13, Sent DEF Heartbeat, TickerFires, BeatWakes, BeatPings, BeatStops, client
  <2>2. CASE Pinging(cidle)
    BY <1>13, <2>1, <2>2, PingingStep, Sent, PeriodsAssumption DEF Pinging, ClientFed
  <2> QED
    BY <1>1, <2>1, <2>2 DEF ClientFed
<1>14. CASE Tick
  <2>1. UNCHANGED <<link, reader, handler>> /\ cidle' = cidle + 1
    BY <1>14 DEF Tick, client
  <2>2. CASE \E m \in down : cidle <= Period + MaxStall + m.age
    <3>1. PICK m \in down : cidle <= Period + MaxStall + m.age
      BY <2>2
    <3>2. PICK n \in down' : n.age = m.age + 1
      BY <1>14, <2>1, <3>1, UnderWay
    <3>3. m.age \in Nat
      BY <3>1 DEF ToClient, Ages
    <3> QED
      BY <2>1, <3>1, <3>2, <3>3, PeriodsAssumption DEF ClientFed
  <2>3. CASE Pinging(cidle)
    BY <1>14, <2>1, <2>3, PingingStep DEF Pinging, ClientFed
  <2>4. CASE handler = "naming" /\ \E m \in up : m.kind = "name" /\ cidle <= m.age
    <3>1. PICK m \in up : m.kind = "name" /\ cidle <= m.age
      BY <2>4
    <3>2. PICK n \in up' : n.kind = m.kind /\ n.age = m.age + 1
      BY <1>14, <2>4, <3>1, UnderWay
    <3>3. m.age \in Nat
      BY <3>1 DEF ToServer, Ages
    <3> QED
      BY <2>1, <2>4, <3>1, <3>2, <3>3 DEF ClientFed
  <2>5. CASE handler = "joining" /\ cidle <= MaxLatency + busy
    BY <1>14, <2>1, <2>5, PeriodsAssumption, Bounds DEF Tick, ClientFed
  <2> QED
    BY <1>1, <2>1, <2>2, <2>3, <2>4, <2>5 DEF ClientFed
<1> QED
  BY <1>3, <1>4, <1>5, <1>6, <1>7, <1>8, <1>9, <1>10, <1>11, <1>12, <1>13, <1>14
  DEF Next, Main, Reader, Writer, Handler

(* While the server waits for the name, it is under way.                   *)
LEMMA NameFedStep ==
  ASSUME TypeOK, Shape, Fed, [Next]_vars, link' = "up", handler' = "naming", main' = "session"
  PROVE  \E m \in up' : m.kind = "name" /\ sidle' <= m.age
<1> USE DEF TypeOK, Shape
<1>1. link = "up" /\ handler = "naming" /\ main = "session" =>
        \E m \in up : m.kind = "name" /\ sidle <= m.age
  BY DEF Fed
<1>2. CASE UNCHANGED <<link, handler, main, sidle>> /\ up \subseteq up'
  BY <1>1, <1>2
<1>3. CASE UNCHANGED vars \/ Prompted \/ DialFails \/ Retries \/ Signalled \/ ReaderFails
             \/ ReaderReports \/ WriterFails \/ WriterReports \/ \E m \in ToClient : Receives(m)
  BY <1>2, <1>3 DEF vars, client, clocks, Prompted, DialFails, Retries, Signalled, ReaderFails,
     ReaderReports, WriterFails, WriterReports, Receives
<1>4. CASE Pongs \/ Types \/ RoomSpeaks \/ Heartbeat
  BY <1>2, <1>4, Sent DEF client, clocks, Pongs, Types, RoomSpeaks,
     Heartbeat, TickerFires, BeatWakes, BeatPings, BeatStops
<1>5. ~Dials /\ ~Ends /\ ~HandlerFails /\ ~ServerEnds /\ ~Cut /\ ~Welcomes /\ ~BroadcastDone
  BY DEF Dials, Ends, HandlerFails, ServerEnds, Cut, ClientCloses, ServerCloses, Closes, Welcomes, BroadcastDone
<1>6. ASSUME NEW m \in ToServer PROVE ~NameArrives(m) /\ ~PongArrives(m) /\ ~LineArrives(m)
  BY DEF NameArrives, PongArrives, LineArrives
<1>7. CASE SendsName
  BY <1>7, Sent DEF SendsName
<1>8. CASE Tick
  <2>1. link = "up" /\ handler = "naming" /\ main = "session" /\ sidle' = sidle + 1
    BY <1>8 DEF Tick, client
  <2>2. PICK m \in up : m.kind = "name" /\ sidle <= m.age
    BY <1>1, <2>1
  <2>3. PICK n \in up' : n.kind = m.kind /\ n.age = m.age + 1
    BY <1>8, <2>1, <2>2, UnderWay
  <2>4. m.age \in Nat
    BY <2>2 DEF ToServer, Ages
  <2> QED
    BY <2>1, <2>2, <2>3, <2>4
<1> QED
  BY <1>3, <1>4, <1>5, <1>6, <1>7, <1>8 DEF Next, Main, Reader, Writer, Handler

(* While the server's read goes on, it stays fed.                          *)
LEMMA ServerFedStep ==
  ASSUME Margin, TypeOK, Shape, Fed, [Next]_vars, link' = "up", handler' = "reading"
  PROVE  ServerFed'
<1> USE DEF TypeOK, Shape
<1>1. link = "up" /\ handler = "reading" => ServerFed
  BY DEF Fed
<1>2. ASSUME UNCHANGED <<link, handler, beat, due, clock, sidle>>,
             reader = "ponging" => reader' = "ponging",
             down \subseteq down', up \subseteq up'
      PROVE  ServerFed'
  BY <1>1, <1>2 DEF ServerFed, Pinging
<1>3. CASE UNCHANGED vars \/ Prompted \/ DialFails \/ Retries \/ Signalled \/ WriterFails \/ WriterReports
             \/ ReaderFails \/ ReaderReports
  BY <1>2, <1>3 DEF Prompted, DialFails, Retries, Signalled, WriterFails, WriterReports,
     ReaderFails, ReaderReports, vars, clocks, client
<1>4. CASE Types \/ RoomSpeaks
  BY <1>2, <1>4, Sent DEF Types, RoomSpeaks, clocks, client
<1>5. ~Dials /\ ~Ends /\ ~HandlerFails /\ ~ServerEnds /\ ~Cut /\ ~SendsName
  BY DEF Dials, Ends, HandlerFails, ServerEnds, Cut, ClientCloses, ServerCloses, Closes, SendsName
<1>6. ASSUME NEW m \in ToClient, Receives(m) PROVE ServerFed'
  <2>1. UNCHANGED <<link, handler, beat, due, clock, sidle, up>> /\ reader = "scanning"
        /\ down' = down \ {m}
    BY <1>6 DEF Receives
  <2>2. ASSUME NEW p \in down, p.kind = "ping", sidle <= Period + MaxStall + p.age PROVE ServerFed'
    <3>1. CASE p # m
      BY <2>1, <2>2, <3>1 DEF ServerFed
    <3>2. CASE p = m
      BY <1>6, <2>1, <2>2, <3>2, PeriodsAssumption DEF Receives, ServerFed, ToClient, Ages
    <3> QED
      BY <3>1, <3>2
  <2> QED
    BY <1>1, <2>1, <2>2 DEF ServerFed, Pinging
<1>7. CASE Pongs
  <2>1. UNCHANGED <<link, handler, beat, due, clock, sidle, down>>
        /\ up \subseteq up' /\ Fresh("pong") \in up' /\ Fresh("pong").age = 0
    BY <1>7, Sent DEF Pongs
  <2> QED
    BY <1>1, <2>1, PeriodsAssumption DEF ServerFed, Pinging
<1>8. ASSUME NEW m \in ToServer PROVE ~NameArrives(m)
  BY DEF NameArrives
<1>9. ASSUME NEW m \in ToServer, PongArrives(m) \/ LineArrives(m) PROVE ServerFed'
  BY <1>9, PingingAnew DEF PongArrives, LineArrives, ServerFed, Pinging
<1>10. CASE Welcomes
  BY <1>10, PeriodsAssumption DEF Welcomes, ServerFed, Pinging
<1>11. CASE BroadcastDone
  BY <1>11, PingingAnew DEF BroadcastDone, ServerFed, Pinging
<1>12. CASE Heartbeat
  <2>1. UNCHANGED <<link, reader, handler, up, sidle>> /\ (link = "up" => down \subseteq down')
    BY <1>12, Sent DEF Heartbeat, TickerFires, BeatWakes, BeatPings, BeatStops, client
  <2>2. CASE Pinging(sidle)
    BY <1>12, <2>1, <2>2, PingingStep, Sent, PeriodsAssumption DEF Pinging, ServerFed
  <2> QED
    BY <1>1, <2>1, <2>2 DEF ServerFed
<1>13. CASE Tick
  <2>1. UNCHANGED <<link, handler>> /\ sidle' = sidle + 1 /\ reader = "scanning"
    BY <1>13 DEF Tick, NothingDue, ReaderStates
  <2>2. CASE \E m \in up : sidle <= Period + MaxStall + MaxLatency + m.age
    <3>1. PICK m \in up : sidle <= Period + MaxStall + MaxLatency + m.age
      BY <2>2
    <3>2. PICK n \in up' : n.age = m.age + 1
      BY <1>13, <2>1, <3>1, UnderWay
    <3>3. m.age \in Nat
      BY <3>1 DEF ToServer, Ages
    <3> QED
      BY <2>1, <3>1, <3>2, <3>3, PeriodsAssumption DEF ServerFed
  <2>3. CASE \E m \in down : m.kind = "ping" /\ sidle <= Period + MaxStall + m.age
    <3>1. PICK m \in down : m.kind = "ping" /\ sidle <= Period + MaxStall + m.age
      BY <2>3
    <3>2. PICK n \in down' : n.kind = m.kind /\ n.age = m.age + 1
      BY <1>13, <2>1, <3>1, UnderWay
    <3>3. m.age \in Nat
      BY <3>1 DEF ToClient, Ages
    <3> QED
      BY <2>1, <3>1, <3>2, <3>3, PeriodsAssumption DEF ServerFed
  <2>4. CASE Pinging(sidle)
    BY <1>13, <2>1, <2>4, PingingStep DEF Pinging, ServerFed
  <2> QED
    BY <1>1, <2>1, <2>2, <2>3, <2>4 DEF ServerFed
<1> QED
  BY <1>3, <1>4, <1>5, <1>6, <1>7, <1>8, <1>9, <1>10, <1>11, <1>12, <1>13
  DEF Next, Main, Reader, Writer, Handler

-----------------------------------------------------------------------------
(* What feeds a read arrives before its deadline.                          *)
LEMMA FedInTime ==
  ASSUME Margin, TypeOK, Shape, Fed
  PROVE  NoFalseAlarm
<1> USE PeriodsAssumption DEF TypeOK, ToClient, ToServer, Ages, Margin
<1>1. ASSUME link = "up", reader = "scanning" PROVE cidle < ClientTimeout
  <2>1. ClientFed
    BY <1>1 DEF Fed
  <2> QED
    BY <2>1 DEF ClientFed, Pinging, Shape, JoinBound
<1>2. ASSUME link = "up", handler = "reading" PROVE sidle < ServerTimeout
  <2>1. ServerFed
    BY <1>2 DEF Fed
  <2> QED
    BY <2>1 DEF ServerFed, Pinging, Shape
<1>3. ASSUME link = "up", handler = "naming" PROVE sidle < ServerTimeout
  BY <1>3 DEF Fed, Shape
<1> QED
  BY <1>1, <1>2, <1>3 DEF NoFalseAlarm

(* With periods, deadlines and stalls that fit together, no deadline       *)
(* passes on a live link, however idle user and room are.                  *)
THEOREM DeadlinesHold ==
  ASSUME Margin
  PROVE  Spec => []NoFalseAlarm
<1>1. Init => Shape /\ Fed
  BY DEF Init, Shape, Fed
<1>2. TypeOK /\ Shape /\ Fed /\ [Next]_vars => Shape' /\ Fed'
  BY ShapeStep, ClientFedStep, ServerFedStep, NameFedStep DEF Fed
<1>3. TypeOK /\ Shape /\ Fed => NoFalseAlarm
  BY FedInTime
<1> QED
  BY <1>1, <1>2, <1>3, TypeCorrect, PTL DEF Spec
=============================================================================
