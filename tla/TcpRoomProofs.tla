---------------------------- MODULE TcpRoomProofs ----------------------------
(***************************************************************************)
(* The TCP chat server implements ChatRoom, for any finite set of          *)
(* connections: the refinement that TcpServer states, proved.              *)
(***************************************************************************)
EXTENDS TcpServerProofs

(* Where a connection is in its session, told from the registry and the    *)
(* heartbeat: it is registered while it joins, its heartbeat has started   *)
(* when it comes to the message loop, and it ends its session registered   *)
(* only when the server is shutting down.                                  *)
Placed(c) ==
  /\ pc[c] \in {"announce", "joining", "welcome"} => c \in clients
  /\ c \in clients /\ pc[c] \in {"closing", "cleanup"} => ctxDone
  /\ pc[c] \in {"loop", "reading", "speak", "speaking", "drop", "dropping"} => beat[c] # "off"
  /\ c \in clients => pc[c] \in {"announce", "joining", "welcome"} \/ beat[c] # "off"

AllPlaced == \A c \in Conns : Placed(c)

(* A step keeps every connection placed.                                   *)
LEMMA PlacedStep == RoomInv /\ AllPlaced /\ [Next]_vars => AllPlaced'
<1> SUFFICES ASSUME RoomInv, AllPlaced, [Next]_vars, NEW d \in Conns PROVE Placed(d)'
  BY DEF AllPlaced
<1>d. \A c \in Conns : Placed(c)
  BY DEF AllPlaced
<1>t. /\ pc \in [Conns -> HandlerStates] /\ beat \in [Conns -> BeatStates]
      /\ clients \subseteq Conns
  BY DEF RoomInv, TypeOK
<1>j. \A c \in Conns : pc[c] \in Joining => beat[c] = "off"
  BY DEF RoomInv, LockDiscipline, Disciplined
<1>r. \A c \in clients : pc[c] \notin {"off", "naming", "register", "dropping", "done"}
  BY DEF RoomInv, RegistryMatchesHandlers
<1> USE DEF Placed, ctxDone
<1>1. CASE UNCHANGED vars
  BY <1>1, <1>d DEF vars
<1>2. CASE Server
  BY <1>2, <1>d DEF Server, Cancel, Exit, Proceeds
<1>3. ASSUME NEW c \in Conns, Accept(c) \/ PeerLeaves(c) PROVE Placed(d)'
  BY <1>3, <1>d, <1>t DEF Accept, PeerLeaves
<1>4. ASSUME NEW c \in Conns, Handler(c) PROVE Placed(d)'
  <2>1. CASE NameReadFails(c) \/ NameAccepted(c) \/ NameRejected(c)
    BY <2>1, <1>d, <1>t, <1>r DEF NameReadFails, NameAccepted, NameRejected
  <2>2. CASE Register(c)
    BY <2>2, <1>d, <1>t DEF Register
  <2>3. CASE BroadcastStarts(c) \/ BroadcastEnds(c)
    BY <2>3, <1>d, <1>t DEF BroadcastStarts, BroadcastEnds
  <2>4. CASE Welcome(c)
    BY <2>4, <1>d, <1>t DEF Welcome
  <2>5. CASE LoopTop(c)
    BY <2>5, <1>d, <1>t DEF LoopTop, Moves
  <2>6. CASE ReadControl(c) \/ ReadChat(c) \/ ReadFails(c) \/ CloseConn(c)
    BY <2>6, <1>d, <1>t DEF ReadControl, ReadChat, ReadFails, CloseConn, Moves
  <2>7. CASE HandlerDrops(c)
    BY <2>7, <1>d, <1>t DEF HandlerDrops, CloseStarts
  <2>8. CASE HandlerDropped(c)
    BY <2>8, <1>d, <1>t, <1>r DEF HandlerDropped
  <2>9. CASE Cleanup(c)
    BY <2>9, <1>d, <1>t DEF Cleanup
  <2>10. CASE \E r \in Conns : BroadcastTo(c, r) \/ HandlerNotifies(c, r)
    BY <2>10, <1>d DEF BroadcastTo, HandlerNotifies, CloseNotifies
  <2> QED
    BY <1>4, <2>1, <2>2, <2>3, <2>4, <2>5, <2>6, <2>7, <2>8, <2>9, <2>10 DEF Handler
<1>5. ASSUME NEW c \in Conns, Heartbeat(c) PROVE Placed(d)'
  <2>1. CASE BeatStops(c) \/ BeatTicks(c) \/ BeatPings(c) \/ BeatDropped(c)
    BY <2>1, <1>d, <1>t DEF BeatStops, BeatTicks, BeatPings, BeatMoves, BeatDropped
  <2>2. CASE BeatDrops(c)
    BY <2>2, <1>d, <1>t, <1>j DEF BeatDrops, CloseStarts, Joining
  <2>3. CASE \E r \in Conns : BeatNotifies(c, r)
    BY <2>3, <1>d DEF BeatNotifies, CloseNotifies
  <2> QED
    BY <1>5, <2>1, <2>2, <2>3 DEF Heartbeat
<1> QED
  BY <1>1, <1>2, <1>3, <1>4, <1>5 DEF Next

(* Both invariants hold in every behaviour.                                *)
LEMMA PlacedInvariant == Spec => [](RoomInv /\ AllPlaced)
<1>1. Init => AllPlaced
  BY DEF Init, AllPlaced, Placed
<1> QED
  BY <1>1, PlacedStep, RoomInvariant, PTL DEF Spec

-----------------------------------------------------------------------------
(* The refinement mapping.                                                 *)

(* The room's lines are the server's.                                      *)
LEMMA RoomLines ==
  /\ Room!Lines = Lines
  /\ \A c \in Conns : /\ Room!Line("joined", c) = Joined(c) /\ Joined(c) \in Lines
                      /\ Room!Line("chat", c) = Chat(c)     /\ Chat(c) \in Lines
                      /\ Room!Line("left", c) = Left(c)     /\ Left(c) \in Lines
  BY DEF Room!Lines, Lines, Room!Line, Joined, Chat, Left

(* Who is in the room is the registry.                                     *)
LEMMA RoomIn == RoomInv => Room!In = clients
<1> SUFFICES ASSUME RoomInv PROVE Room!In = clients
  OBVIOUS
<1>1. ASSUME NEW c \in Conns PROVE RoomStatus(c) \in {"arrived", "member"} <=> c \in clients
  BY DEF RoomStatus
<1>2. clients \subseteq Conns
  BY DEF RoomInv, TypeOK
<1> QED
  BY <1>1, <1>2 DEF Room!In

(* While the write lock is free for the taking, nobody is being told       *)
(* anything; while it is free for reading, no leave notice is under way.   *)
LEMMA RoomQuiet == RoomInv /\ CanLock => Room!Quiet
<1> SUFFICES ASSUME RoomInv, CanLock, NEW l \in Lines PROVE StillToTell(l) = {}
  BY RoomLines DEF Room!Quiet
<1>1. l.of \in Conns
  BY DEF Lines
<1>2. todo[Main(l.of)] = {} /\ todo[Beat(l.of)] = {}
  BY <1>1, LockMeansStill, ProcsDistinct DEF RoomInv
<1> QED
  BY <1>2 DEF StillToTell, Lines

LEMMA RoomNobodyLeaving == RoomInv /\ CanRLock => Room!NobodyLeaving
<1> SUFFICES ASSUME RoomInv, CanRLock, NEW c \in Conns PROVE StillToTell(Left(c)) = {}
  BY RoomLines DEF Room!NobodyLeaving
<1>1. pc[c] # "dropping" /\ beat[c] # "dropping"
  BY ProcsDistinct DEF RoomInv, LockDiscipline, Disciplined, CanRLock
<1>2. todo[Beat(c)] = {}
  BY <1>1 DEF RoomInv, LockDiscipline, Disciplined
<1> QED
  BY <1>1, <1>2 DEF StillToTell, Left

(* What a step leaves alone in the server it leaves alone in the room.     *)
SameStatus == \A c \in Conns : RoomStatus(c)' = RoomStatus(c)
SameTelling == \A l \in Lines : StillToTell(l)' = StillToTell(l)

LEMMA RoomStutters ==
  SameStatus /\ SameTelling /\ UNCHANGED <<inbox, ctxDone>> => UNCHANGED Room!vars
  BY DEF SameStatus, SameTelling, Room!vars

(* Steps that move goroutines on without touching registry, recipients or  *)
(* the room's status of a connection are no steps of the room.             *)
LEMMA StatusKept ==
  ASSUME clients' = clients,
         \A c \in Conns : (pc[c] = "announce") = (pc'[c] = "announce"),
         \A c \in Conns : c \in clients \/ (beat[c] = "off") = (beat'[c] = "off")
  PROVE  SameStatus
  BY DEF SameStatus, RoomStatus

LEMMA TellingKept ==
  ASSUME todo' = todo,
         \A c \in Conns : pc'[c] # pc[c] => todo[Main(c)] = {}
  PROVE  SameTelling
<1> SUFFICES ASSUME NEW l \in Lines PROVE StillToTell(l)' = StillToTell(l)
  BY DEF SameTelling
<1>1. l.of \in Conns
  BY DEF Lines
<1> QED
  BY <1>1 DEF StillToTell

(* The steps of the server that nobody in the room can see.                *)
LEMMA UnseenStep ==
  ASSUME RoomInv, AllPlaced, NEW c \in Conns,
         \/ Accept(c) \/ PeerLeaves(c) \/ Exit
         \/ NameReadFails(c) \/ NameAccepted(c) \/ NameRejected(c)
         \/ BroadcastEnds(c) \/ Welcome(c) \/ HandlerDropped(c)
         \/ LoopTop(c) \/ ReadControl(c) \/ ReadChat(c) \/ ReadFails(c) \/ CloseConn(c)
         \/ BeatStops(c) \/ BeatTicks(c) \/ BeatPings(c) \/ BeatDropped(c)
  PROVE  UNCHANGED Room!vars
<1>t. pc \in [Conns -> HandlerStates] /\ beat \in [Conns -> BeatStates]
  BY DEF RoomInv, TypeOK
<1>q. \A d \in Conns : todo[Main(d)] # {} => pc[d] \in {"joining", "speaking", "dropping"}
  BY DEF RoomInv, LockDiscipline, Disciplined
<1>p. pc[c] = "welcome" => c \in clients
  BY DEF AllPlaced, Placed
<1>1. /\ UNCHANGED <<clients, todo, inbox, ctxDone>>
      /\ \A d \in Conns : pc'[d] # pc[d] => todo[Main(d)] = {}
      /\ \A d \in Conns : (pc[d] = "announce") = (pc'[d] = "announce")
      /\ \A d \in Conns : d \in clients \/ (beat[d] = "off") = (beat'[d] = "off")
  <2>1. CASE Accept(c) \/ PeerLeaves(c) \/ Exit
    BY <2>1, <1>t, <1>q DEF Accept, PeerLeaves, Exit, Proceeds, ctxDone
  <2>2. CASE NameReadFails(c) \/ NameAccepted(c) \/ NameRejected(c)
    BY <2>2, <1>t, <1>q DEF NameReadFails, NameAccepted, NameRejected, ctxDone
  <2>3. CASE BroadcastEnds(c) \/ HandlerDropped(c)
    BY <2>3, <1>t DEF BroadcastEnds, HandlerDropped, ctxDone
  <2>4. CASE Welcome(c)
    BY <2>4, <1>t, <1>q, <1>p DEF Welcome, ctxDone
  <2>5. CASE LoopTop(c) \/ ReadControl(c) \/ ReadChat(c) \/ ReadFails(c) \/ CloseConn(c)
    BY <2>5, <1>t, <1>q DEF LoopTop, ReadControl, ReadChat, ReadFails, CloseConn, Moves, ctxDone
  <2>6. CASE BeatStops(c) \/ BeatTicks(c) \/ BeatPings(c) \/ BeatDropped(c)
    BY <2>6, <1>t DEF BeatStops, BeatTicks, BeatPings, BeatMoves, BeatDropped, ctxDone
  <2> QED
    BY <2>1, <2>2, <2>3, <2>4, <2>5, <2>6
<1>2. SameStatus
  BY <1>1, StatusKept
<1>3. SameTelling
  BY <1>1, TellingKept
<1> QED
  BY <1>1, <1>2, <1>3, RoomStutters

(* A change of one connection's status, and of one line's audience, as the *)
(* room sees them.                                                         *)
LEMMA StatusMoves ==
  ASSUME NEW c \in Conns, NEW s, RoomStatus(c)' = s,
         \A d \in Conns : d # c => RoomStatus(d)' = RoomStatus(d)
  PROVE  [d \in Conns |-> RoomStatus(d)]' = [[d \in Conns |-> RoomStatus(d)] EXCEPT ![c] = s]
  OBVIOUS

LEMMA TellingMoves ==
  ASSUME NEW l \in Lines, NEW S, StillToTell(l)' = S,
         \A m \in Lines : m # l => StillToTell(m)' = StillToTell(m)
  PROVE  [m \in Lines |-> StillToTell(m)]' = [[m \in Lines |-> StillToTell(m)] EXCEPT ![l] = S]
  OBVIOUS

(* The server closes to newcomers: the room closes.                        *)
LEMMA CancelClosesDown == ASSUME RoomInv, Cancel PROVE Room!CloseDown
<1>1. /\ ~ctxDone /\ ctxDone'
      /\ UNCHANGED <<pc, beat, clients, todo, inbox>>
  BY DEF Cancel, Proceeds, ctxDone
<1>2. SameStatus /\ SameTelling
  BY <1>1 DEF SameStatus, RoomStatus, SameTelling, StillToTell
<1> QED
  BY <1>1, <1>2 DEF Room!CloseDown, SameStatus, SameTelling

(* A handler enters the registry: its client comes in.                     *)
LEMMA RegisterEnters == ASSUME RoomInv, NEW c \in Conns, Register(c) PROVE Room!Enter(c)
<1>1. /\ pc[c] = "register" /\ CanLock /\ clients' = clients \cup {c}
      /\ pc' = [pc EXCEPT ![c] = "announce"]
      /\ UNCHANGED <<beat, todo, inbox, server>>
  BY DEF Register
<1>2. pc \in [Conns -> HandlerStates] /\ clients \subseteq Conns
  BY DEF RoomInv, TypeOK
<1>3. c \notin clients /\ beat[c] = "off" /\ todo[Main(c)] = {}
  BY <1>1 DEF RoomInv, RegistryMatchesHandlers, LockDiscipline, Disciplined, Joining
<1>4. RoomStatus(c) = "outside" /\ RoomStatus(c)' = "arrived"
  BY <1>1, <1>2, <1>3 DEF RoomStatus
<1>5. \A d \in Conns : d # c => RoomStatus(d)' = RoomStatus(d)
  BY <1>1, <1>2 DEF RoomStatus
<1>6. SameTelling
  BY <1>1, <1>2, <1>3, TellingKept
<1> QED
  BY <1>1, <1>4, <1>5, <1>6, StatusMoves, RoomQuiet DEF Room!Enter, SameTelling, ctxDone

(* The handler takes the read lock: a broadcast starts.                    *)
LEMMA BroadcastStartsTelling ==
  ASSUME RoomInv, AllPlaced, NEW c \in Conns, BroadcastStarts(c)
  PROVE  Room!Announce(c) \/ Room!Speak(c)
<1>1. /\ pc[c] \in {"announce", "speak"} /\ CanRLock
      /\ todo' = [todo EXCEPT ![Main(c)] = clients \ {c}]
      /\ pc' = [pc EXCEPT ![c] = IF pc[c] = "announce" THEN "joining" ELSE "speaking"]
      /\ UNCHANGED <<beat, clients, inbox, ctxDone>>
  BY DEF BroadcastStarts, Others, ctxDone
<1>2. pc \in [Conns -> HandlerStates] /\ todo \in [Procs -> SUBSET Conns]
  BY DEF RoomInv, TypeOK
<1>3. /\ todo'[Main(c)] = clients \ {c}
      /\ todo'[Beat(c)] = todo[Beat(c)]
      /\ \A d \in Conns : d # c => todo'[Main(d)] = todo[Main(d)] /\ todo'[Beat(d)] = todo[Beat(d)]
  BY <1>1, <1>2, ProcsDistinct
<1>4. \A d \in Conns : d # c => pc'[d] = pc[d]
  BY <1>1, <1>2
<1>5. /\ \A d \in Conns : d # c => RoomStatus(d)' = RoomStatus(d)
      /\ \A m \in Lines : m.of # c => StillToTell(m)' = StillToTell(m)
      /\ StillToTell(Left(c))' = StillToTell(Left(c))
  <2>1. \A m \in Lines : m.of \in Conns
    BY DEF Lines
  <2>2. ASSUME NEW d \in Conns, d # c PROVE RoomStatus(d)' = RoomStatus(d)
    BY <1>1, <1>4, <2>2 DEF RoomStatus
  <2>3. ASSUME NEW m \in Lines, m.of # c PROVE StillToTell(m)' = StillToTell(m)
    BY <1>3, <1>4, <2>1, <2>3 DEF StillToTell
  <2>4. pc[c] # "dropping" /\ pc'[c] # "dropping"
    BY <1>1, <1>2
  <2>5. StillToTell(Left(c))' = StillToTell(Left(c))
    BY <1>3, <2>4 DEF StillToTell, Left
  <2> QED
    BY <2>2, <2>3, <2>5
<1>6. \A m \in Lines : m.of = c => m \in {Joined(c), Chat(c), Left(c)}
  BY DEF Lines, Joined, Chat, Left
<1>7. Room!NobodyLeaving /\ Room!In = clients
  BY <1>1, RoomNobodyLeaving, RoomIn
<1>8. CASE pc[c] = "announce"
  <2>1. RoomStatus(c) = "arrived" /\ RoomStatus(c)' = "member"
    <3>1. c \in clients /\ pc'[c] = "joining"
      BY <1>1, <1>2, <1>8 DEF AllPlaced, Placed
    <3> QED
      BY <1>1, <1>8, <3>1 DEF RoomStatus
  <2>2. /\ StillToTell(Joined(c))' = clients \ {c}
        /\ StillToTell(Chat(c))' = StillToTell(Chat(c))
    BY <1>1, <1>2, <1>3, <1>8 DEF StillToTell, Joined, Chat
  <2>3. \A m \in Lines : m # Joined(c) => StillToTell(m)' = StillToTell(m)
    BY <1>5, <1>6, <2>2
  <2>4. Room!Starts(Room!Line("joined", c))
    <3>1. [m \in Lines |-> StillToTell(m)]'
            = [[m \in Lines |-> StillToTell(m)] EXCEPT ![Joined(c)] = clients \ {c}]
      BY <2>2, <2>3, RoomLines
    <3>2. Room!In \ {Joined(c).of} = clients \ {c}
      BY <1>7 DEF Joined
    <3>3. Room!Starts(Joined(c))
      BY <3>1, <3>2 DEF Room!Starts
    <3> QED
      BY <3>3, RoomLines
  <2>5. [d \in Conns |-> RoomStatus(d)]' = [[d \in Conns |-> RoomStatus(d)] EXCEPT ![c] = "member"]
    BY <1>5, <2>1, StatusMoves
  <2> QED
    BY <1>1, <1>7, <2>1, <2>4, <2>5 DEF Room!Announce
<1>9. CASE pc[c] = "speak"
  <2>1. /\ RoomStatus(c)' = RoomStatus(c) /\ RoomStatus(c) \in {"member", "left"}
        /\ StillToTell(Joined(c)) = {} /\ StillToTell(Chat(c)) = {}
    <3>1. beat[c] # "off" /\ pc'[c] = "speaking"
      BY <1>1, <1>2, <1>9 DEF AllPlaced, Placed
    <3> QED
      BY <1>1, <1>9, <3>1 DEF RoomStatus, StillToTell, Joined, Chat
  <2>2. /\ StillToTell(Chat(c))' = clients \ {c}
        /\ StillToTell(Joined(c))' = StillToTell(Joined(c))
    BY <1>1, <1>2, <1>3, <1>9 DEF StillToTell, Joined, Chat
  <2>3. \A m \in Lines : m # Chat(c) => StillToTell(m)' = StillToTell(m)
    BY <1>5, <1>6, <2>2
  <2>4. Room!Starts(Room!Line("chat", c))
    <3>1. [m \in Lines |-> StillToTell(m)]'
            = [[m \in Lines |-> StillToTell(m)] EXCEPT ![Chat(c)] = clients \ {c}]
      BY <2>2, <2>3, RoomLines
    <3>2. Room!In \ {Chat(c).of} = clients \ {c}
      BY <1>7 DEF Chat
    <3>3. Room!Starts(Chat(c))
      BY <3>1, <3>2 DEF Room!Starts
    <3> QED
      BY <3>3, RoomLines
  <2>5. SameStatus
    BY <1>5, <2>1 DEF SameStatus
  <2> QED
    BY <1>1, <1>7, <2>1, <2>4, <2>5, RoomLines DEF Room!Speak, SameStatus
<1> QED
  BY <1>1, <1>8, <1>9

(* One recipient fewer for one line, who has heard it or not.              *)
LEMMA TellStep ==
  ASSUME NEW l \in Lines, NEW r \in Conns, r \in StillToTell(l),
         StillToTell(l)' = StillToTell(l) \ {r},
         \A m \in Lines : m # l => StillToTell(m)' = StillToTell(m),
         SameStatus, UNCHANGED ctxDone,
         inbox' = [inbox EXCEPT ![r] = @ \cup {l}] \/ inbox' = inbox
  PROVE  Room!Tell(l, r)
<1>1. [m \in Lines |-> StillToTell(m)]'
        = [[m \in Lines |-> StillToTell(m)] EXCEPT ![l] = @ \ {r}]
  OBVIOUS
<1>2. [c \in Conns |-> RoomStatus(c)]' = [c \in Conns |-> RoomStatus(c)]
  BY DEF SameStatus
<1> QED
  BY <1>1, <1>2 DEF Room!Tell

(* A handler and its heartbeat are never both writing leave notices.       *)
LEMMA OneDropper ==
  ASSUME RoomInv, NEW c \in Conns
  PROVE  /\ pc[c] = "dropping" => todo[Beat(c)] = {}
         /\ beat[c] = "dropping" => pc[c] # "dropping"
  BY ProcsDistinct DEF RoomInv, LockDiscipline, Disciplined

(* A broadcast reaches, or misses, one recipient.                          *)
LEMMA BroadcastTells ==
  ASSUME RoomInv, NEW c \in Conns, NEW r \in Conns, BroadcastTo(c, r)
  PROVE  \E l \in Lines : Room!Tell(l, r)
<1>1. PICK l \in {Joined(c), Chat(c)} :
      /\ \/ pc[c] = "joining" /\ l = Joined(c)
         \/ pc[c] = "speaking" /\ l = Chat(c)
      /\ r \in todo[Main(c)]
      /\ todo' = [todo EXCEPT ![Main(c)] = @ \ {r}]
      /\ inbox' = [inbox EXCEPT ![r] = @ \cup {l}] \/ inbox' = inbox
      /\ UNCHANGED <<pc, beat, clients, ctxDone>>
  BY DEF BroadcastTo, ctxDone
<1>2. todo \in [Procs -> SUBSET Conns]
  BY DEF RoomInv, TypeOK
<1>3. /\ todo'[Main(c)] = todo[Main(c)] \ {r}
      /\ todo'[Beat(c)] = todo[Beat(c)]
      /\ \A d \in Conns : d # c => todo'[Main(d)] = todo[Main(d)] /\ todo'[Beat(d)] = todo[Beat(d)]
  BY <1>1, <1>2, ProcsDistinct
<1>4. l \in Lines
  BY RoomLines
<1>5. StillToTell(l) = todo[Main(c)] /\ StillToTell(l)' = todo[Main(c)] \ {r}
  <2>1. CASE pc[c] = "joining"
    BY <1>1, <1>3, <2>1 DEF StillToTell, Joined
  <2>2. CASE pc[c] = "speaking"
    BY <1>1, <1>3, <2>2 DEF StillToTell, Chat
  <2> QED
    BY <1>1, <2>1, <2>2
<1>6. ASSUME NEW m \in Lines, m # l PROVE StillToTell(m)' = StillToTell(m)
  <2>1. m.of \in Conns /\ (m.of = c => m \in {Joined(c), Chat(c), Left(c)})
    BY DEF Lines, Joined, Chat, Left
  <2>2. CASE m.of # c
    BY <1>1, <1>3, <2>1, <2>2 DEF StillToTell
  <2>3. CASE m \in {Joined(c), Chat(c)}
    BY <1>1, <1>6, <2>3 DEF StillToTell, Joined, Chat
  <2>4. CASE m = Left(c)
    BY <1>1, <1>3, <2>4 DEF StillToTell, Left
  <2> QED
    BY <2>1, <2>2, <2>3, <2>4
<1>7. SameStatus
  BY <1>1 DEF SameStatus, RoomStatus
<1> QED
  BY <1>1, <1>4, <1>5, <1>6, <1>7, TellStep

(* A leave notice reaches, or misses, one recipient.                       *)
LEMMA NoticeTells ==
  ASSUME RoomInv, NEW c \in Conns, NEW r \in Conns, HandlerNotifies(c, r) \/ BeatNotifies(c, r)
  PROVE  \E l \in Lines : Room!Tell(l, r)
<1>1. PICK p \in {Main(c), Beat(c)} :
        /\ p = Main(c) => pc[c] = "dropping"
        /\ p = Beat(c) => beat[c] = "dropping"
        /\ r \in todo[p] /\ todo' = [todo EXCEPT ![p] = @ \ {r}]
        /\ inbox' = [inbox EXCEPT ![r] = @ \cup {Left(c)}] \/ inbox' = inbox
        /\ UNCHANGED <<pc, beat, clients, ctxDone>>
  BY ProcsDistinct DEF HandlerNotifies, BeatNotifies, CloseNotifies, ctxDone
<1>2. todo \in [Procs -> SUBSET Conns]
  BY DEF RoomInv, TypeOK
<1>3. \A q \in Procs : todo'[q] = IF q = p THEN todo[p] \ {r} ELSE todo[q]
  BY <1>1, <1>2, ProcsDistinct
<1>4. StillToTell(Left(c)) = todo[p] /\ StillToTell(Left(c))' = todo[p] \ {r}
  <2>1. CASE p = Main(c)
    <3>1. todo[Beat(c)] = {} /\ todo'[Beat(c)] = {} /\ todo'[Main(c)] = todo[Main(c)] \ {r}
      BY <1>1, <1>3, <2>1, OneDropper, ProcsDistinct
    <3> QED
      BY <1>1, <2>1, <3>1 DEF StillToTell, Left
  <2>2. CASE p = Beat(c)
    <3>1. pc[c] # "dropping" /\ todo'[Beat(c)] = todo[Beat(c)] \ {r}
      BY <1>1, <1>3, <2>2, OneDropper, ProcsDistinct
    <3> QED
      BY <1>1, <2>2, <3>1 DEF StillToTell, Left
  <2> QED
    BY <1>1, <2>1, <2>2
<1>5. ASSUME NEW m \in Lines, m # Left(c) PROVE StillToTell(m)' = StillToTell(m)
  <2>1. m.of \in Conns /\ (m.of = c => m.kind \in {"joined", "chat"})
    BY <1>5 DEF Lines, Left
  <2>2. CASE m.of # c
    <3>1. todo'[Main(m.of)] = todo[Main(m.of)] /\ todo'[Beat(m.of)] = todo[Beat(m.of)]
      BY <1>1, <1>3, <2>1, <2>2, ProcsDistinct
    <3> QED
      BY <1>1, <3>1 DEF StillToTell
  <2>3. CASE m.of = c
    <3>1. pc[c] \in {"joining", "speaking"} => p = Beat(c)
      BY <1>1
    <3>2. pc[c] \in {"joining", "speaking"} => todo'[Main(c)] = todo[Main(c)]
      BY <1>3, <3>1, ProcsDistinct
    <3>3. pc' = pc
      BY <1>1
    <3> QED
      BY <2>1, <2>3, <3>2, <3>3 DEF StillToTell
  <2> QED
    BY <2>2, <2>3
<1>6. SameStatus
  BY <1>1 DEF SameStatus, RoomStatus
<1> QED
  BY <1>1, <1>4, <1>5, <1>6, RoomLines, TellStep

(* closeConnection takes an entry out of the registry and has its leave    *)
(* notices to write: a member leaves.                                      *)
LEMMA DropLeaves ==
  ASSUME RoomInv, AllPlaced, NEW c \in Conns, c \in clients, HandlerDrops(c) \/ BeatDrops(c)
  PROVE  Room!Leave(c)
<1>1. PICK p \in {Main(c), Beat(c)} :
        /\ CanLock /\ clients' = clients \ {c}
        /\ todo' = [todo EXCEPT ![p] = clients \ {c}]
        /\ \/ p = Main(c) /\ pc[c] = "drop" /\ pc' = [pc EXCEPT ![c] = "dropping"] /\ beat' = beat
           \/ p = Beat(c) /\ beat[c] = "drop" /\ beat' = [beat EXCEPT ![c] = "dropping"] /\ pc' = pc
        /\ UNCHANGED <<inbox, ctxDone>>
  BY ProcsDistinct DEF HandlerDrops, BeatDrops, CloseStarts, Others, ctxDone
<1>2. /\ pc \in [Conns -> HandlerStates] /\ beat \in [Conns -> BeatStates]
      /\ todo \in [Procs -> SUBSET Conns] /\ clients \subseteq Conns
  BY DEF RoomInv, TypeOK
<1>3. \A q \in Procs : todo[q] = {} /\ todo'[q] = IF q = p THEN clients \ {c} ELSE {}
  BY <1>1, <1>2, LockMeansStill, ProcsDistinct DEF RoomInv
<1>4. beat[c] # "off" /\ pc[c] # "announce" /\ beat'[c] # "off" /\ pc[c] # "dropping"
  BY <1>1, <1>2, LockMeansStill DEF RoomInv, LockDiscipline, Disciplined, Joining, AllPlaced, Placed, Ranging
<1>5. RoomStatus(c) = "member" /\ RoomStatus(c)' = "left"
  BY <1>1, <1>4 DEF RoomStatus
<1>6. \A d \in Conns : d # c => RoomStatus(d)' = RoomStatus(d)
  <2> SUFFICES ASSUME NEW d \in Conns, d # c PROVE RoomStatus(d)' = RoomStatus(d)
    OBVIOUS
  <2>1. pc'[d] = pc[d] /\ beat'[d] = beat[d] /\ (d \in clients' <=> d \in clients)
    BY <1>1, <1>2
  <2> QED
    BY <2>1 DEF RoomStatus
<1>7. StillToTell(Left(c))' = clients \ {c}
  <2>1. CASE p = Main(c)
    <3>1. pc'[c] = "dropping" /\ todo'[Main(c)] = clients \ {c} /\ todo'[Beat(c)] = {}
      BY <1>1, <1>2, <1>3, <2>1, ProcsDistinct
    <3> QED
      BY <3>1 DEF StillToTell, Left
  <2>2. CASE p = Beat(c)
    <3>1. pc'[c] # "dropping" /\ todo'[Beat(c)] = clients \ {c}
      BY <1>1, <1>3, <1>4, <2>2, ProcsDistinct
    <3> QED
      BY <3>1 DEF StillToTell, Left
  <2> QED
    BY <1>1, <2>1, <2>2
<1>8. ASSUME NEW m \in Lines, m # Left(c) PROVE StillToTell(m)' = StillToTell(m)
  <2>1. m.of \in Conns /\ (m.of = c => m.kind \in {"joined", "chat"})
    BY <1>8 DEF Lines, Left
  <2>2. StillToTell(m) = {}
    BY <1>3, <2>1, ProcsDistinct DEF StillToTell, Lines
  <2>3. CASE m.of # c
    <3>1. todo'[Main(m.of)] = {} /\ todo'[Beat(m.of)] = {}
      BY <1>1, <1>3, <2>1, <2>3, ProcsDistinct
    <3> QED
      BY <2>2, <3>1 DEF StillToTell, Lines
  <2>4. CASE m.of = c
    <3>1. pc'[c] \notin {"joining", "speaking"}
      BY <1>1, <1>2, LockMeansStill DEF RoomInv, Ranging
    <3> QED
      BY <2>1, <2>2, <2>4, <3>1 DEF StillToTell
  <2> QED
    BY <2>3, <2>4
<1>9. Room!Starts(Room!Line("left", c))
  <2>1. [m \in Lines |-> StillToTell(m)]'
          = [[m \in Lines |-> StillToTell(m)] EXCEPT ![Left(c)] = clients \ {c}]
    BY <1>7, <1>8, RoomLines
  <2>2. Room!In \ {Left(c).of} = clients \ {c}
    BY RoomIn DEF Left
  <2>3. Room!Starts(Left(c))
    BY <2>1, <2>2 DEF Room!Starts
  <2> QED
    BY <2>3, RoomLines
<1>10. [d \in Conns |-> RoomStatus(d)]' = [[d \in Conns |-> RoomStatus(d)] EXCEPT ![c] = "left"]
  BY <1>5, <1>6, StatusMoves
<1> QED
  BY <1>1, <1>5, <1>9, <1>10, RoomQuiet DEF Room!Leave

(* When the other goroutine has removed the entry, closeConnection does    *)
(* nothing that can be seen.                                               *)
LEMMA IdleDropUnseen ==
  ASSUME RoomInv, AllPlaced, NEW c \in Conns, c \notin clients, HandlerDrops(c) \/ BeatDrops(c)
  PROVE  UNCHANGED Room!vars
<1>1. /\ CanLock /\ UNCHANGED <<clients, todo, inbox, ctxDone>>
      /\ \/ pc[c] = "drop" /\ pc' = [pc EXCEPT ![c] = "closing"] /\ beat' = beat
         \/ beat[c] = "drop" /\ beat' = [beat EXCEPT ![c] = "ended"] /\ pc' = pc
  BY DEF HandlerDrops, BeatDrops, CloseStarts, ctxDone, RoomInv, TypeOK
<1>2. pc \in [Conns -> HandlerStates] /\ beat \in [Conns -> BeatStates]
  BY DEF RoomInv, TypeOK
<1>3. \A d \in Conns : todo[Main(d)] = {}
  BY <1>1, LockMeansStill, ProcsDistinct DEF RoomInv
<1>4. SameTelling
  BY <1>1, <1>3, TellingKept
<1>5. SameStatus
  BY <1>1, <1>2, StatusKept
<1> QED
  BY <1>1, <1>4, <1>5, RoomStutters

(* The deferred function removes an entry only at a shutdown.              *)
LEMMA CleanupSlipsAway ==
  ASSUME RoomInv, AllPlaced, NEW c \in Conns, Cleanup(c)
  PROVE  Room!SlipAway(c) \/ UNCHANGED Room!vars
<1>1. /\ CanLock /\ pc[c] = "cleanup" /\ clients' = clients \ {c}
      /\ pc' = [pc EXCEPT ![c] = "done"]
      /\ UNCHANGED <<beat, todo, inbox, ctxDone>>
  BY DEF Cleanup, ctxDone
<1>2. pc \in [Conns -> HandlerStates]
  BY DEF RoomInv, TypeOK
<1>3. \A d \in Conns : todo[Main(d)] = {}
  BY <1>1, LockMeansStill, ProcsDistinct DEF RoomInv
<1>4. SameTelling
  BY <1>1, <1>3, TellingKept
<1>5. CASE c \in clients
  <2>1. ctxDone /\ beat[c] # "off"
    BY <1>1, <1>5 DEF AllPlaced, Placed
  <2>2. RoomStatus(c) = "member" /\ RoomStatus(c)' = "left"
    BY <1>1, <1>5, <2>1 DEF RoomStatus
  <2>3. \A d \in Conns : d # c => RoomStatus(d)' = RoomStatus(d)
    BY <1>1, <1>2 DEF RoomStatus
  <2>4. [d \in Conns |-> RoomStatus(d)]' = [[d \in Conns |-> RoomStatus(d)] EXCEPT ![c] = "left"]
    BY <2>2, <2>3, StatusMoves
  <2> QED
    BY <1>1, <1>4, <2>1, <2>2, <2>4, RoomQuiet DEF Room!SlipAway, SameTelling
<1>6. CASE c \notin clients
  <2>1. clients' = clients
    BY <1>1, <1>6
  <2>2. SameStatus
    BY <1>1, <1>2, <2>1, StatusKept
  <2> QED
    BY <1>1, <1>4, <2>2, RoomStutters
<1> QED
  BY <1>5, <1>6

-----------------------------------------------------------------------------
(* Every step of the server is a step of the room or none.                 *)
LEMMA RoomStep == RoomInv /\ AllPlaced /\ [Next]_vars => [Room!Next]_(Room!vars)
<1> SUFFICES ASSUME RoomInv, AllPlaced, [Next]_vars PROVE Room!Next \/ UNCHANGED Room!vars
  OBVIOUS
<1>1. CASE UNCHANGED vars
  <2>1. SameStatus /\ SameTelling
    BY <1>1 DEF vars, SameStatus, RoomStatus, SameTelling, StillToTell
  <2> QED
    BY <1>1, <2>1, RoomStutters DEF vars, ctxDone
<1>2. CASE Cancel
  BY <1>2, CancelClosesDown DEF Room!Next
<1>3. CASE Exit
  <2>1. UNCHANGED <<pc, beat, clients, todo, inbox, ctxDone>>
    BY <1>3 DEF Exit, Proceeds, ctxDone
  <2>2. SameStatus /\ SameTelling
    BY <2>1 DEF SameStatus, RoomStatus, SameTelling, StillToTell
  <2> QED
    BY <2>1, <2>2, RoomStutters
<1>4. ASSUME NEW c \in Conns, Accept(c) \/ PeerLeaves(c) PROVE UNCHANGED Room!vars
  BY <1>4, UnseenStep
<1>5. ASSUME NEW c \in Conns, Handler(c) PROVE Room!Next \/ UNCHANGED Room!vars
  <2>1. CASE \/ NameReadFails(c) \/ NameAccepted(c) \/ NameRejected(c)
             \/ BroadcastEnds(c) \/ Welcome(c) \/ HandlerDropped(c)
             \/ LoopTop(c) \/ ReadControl(c) \/ ReadChat(c) \/ ReadFails(c) \/ CloseConn(c)
    BY <2>1, UnseenStep
  <2>2. CASE Register(c)
    BY <2>2, RegisterEnters DEF Room!Next
  <2>3. CASE BroadcastStarts(c)
    BY <2>3, BroadcastStartsTelling DEF Room!Next
  <2>4. CASE HandlerDrops(c)
    BY <2>4, DropLeaves, IdleDropUnseen DEF Room!Next
  <2>5. CASE Cleanup(c)
    BY <2>5, CleanupSlipsAway DEF Room!Next
  <2>6. ASSUME NEW r \in Conns, BroadcastTo(c, r) \/ HandlerNotifies(c, r) PROVE Room!Next
    <3>1. \E l \in Lines : Room!Tell(l, r)
      BY <2>6, BroadcastTells, NoticeTells
    <3> QED
      BY <3>1, RoomLines DEF Room!Next
  <2> QED
    BY <1>5, <2>1, <2>2, <2>3, <2>4, <2>5, <2>6 DEF Handler
<1>6. ASSUME NEW c \in Conns, Heartbeat(c) PROVE Room!Next \/ UNCHANGED Room!vars
  <2>1. CASE BeatStops(c) \/ BeatTicks(c) \/ BeatPings(c) \/ BeatDropped(c)
    BY <2>1, UnseenStep
  <2>2. CASE BeatDrops(c)
    BY <2>2, DropLeaves, IdleDropUnseen DEF Room!Next
  <2>3. ASSUME NEW r \in Conns, BeatNotifies(c, r) PROVE Room!Next
    <3>1. \E l \in Lines : Room!Tell(l, r)
      BY <2>3, NoticeTells
    <3> QED
      BY <3>1, RoomLines DEF Room!Next
  <2> QED
    BY <1>6, <2>1, <2>2, <2>3 DEF Heartbeat
<1> QED
  BY <1>1, <1>2, <1>3, <1>4, <1>5, <1>6 DEF Next, Server

(* The server with any finite set of connections, under any interleaving   *)
(* of its goroutines and with any writes lost, implements the chat room.   *)
THEOREM RoomImplemented == Spec => ImplementsRoom
<1>1. Init => Room!Init
  <2> SUFFICES ASSUME Init PROVE Room!Init
    OBVIOUS
  <2>1. \A c \in Conns : RoomStatus(c) = "outside"
    BY DEF Init, RoomStatus
  <2>2. \A l \in Lines : StillToTell(l) = {}
    <3> SUFFICES ASSUME NEW l \in Lines PROVE StillToTell(l) = {}
      OBVIOUS
    <3>1. l.of \in Conns
      BY DEF Lines
    <3>2. todo[Beat(l.of)] = {} /\ pc[l.of] = "off"
      BY <3>1, ProcsDistinct DEF Init
    <3> QED
      BY <3>2 DEF StillToTell, Lines
  <2>3. inbox = [c \in Conns |-> {}] /\ ~ctxDone
    BY DEF Init, ctxDone
  <2> QED
    BY <2>1, <2>2, <2>3, RoomLines DEF Room!Init
<1> QED
  BY <1>1, RoomStep, PlacedInvariant, PTL DEF Spec, Room!Spec, ImplementsRoom
==============================================================================
