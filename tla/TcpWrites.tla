------------------------------ MODULE TcpWrites ------------------------------
(***************************************************************************)
(* Who may block whom in the TCP server: the goroutines of                 *)
(* tcp/server/handler.go that write to one client's connection, the write  *)
(* deadline they share on it, and clientsMutex, which some of them hold    *)
(* while they write.  TcpServer takes every write to end; this module asks *)
(* when that is so.                                                        *)
(*                                                                         *)
(* The one connection is that of a recipient who may stop reading.  Other  *)
(* clients' handlers broadcast to it (Broadcasters) or leave and notify it *)
(* (Leavers); its own heartbeat pings it (Pinger) and its own handler      *)
(* answers it and drops it (Handler).  The other connections drain, so     *)
(* what is written to them is left out.                                    *)
(*                                                                         *)
(* From Go's library: a sync.RWMutex; a connection on which one Write runs *)
(* at a time (the others wait, whatever the deadline), and whose write     *)
(* deadline is a property of the connection, not of a Write: setting it    *)
(* sets it for the Write in progress and for those that wait.              *)
(***************************************************************************)
EXTENDS FiniteSets

CONSTANTS
  Broadcasters, Leavers, Pinger, Handler,   \* the goroutines
  Nobody                                    \* holds a free lock

Armers == Broadcasters \cup {Pinger}   \* those that set a deadline before they write
Goroutines == Armers \cup Leavers \cup {Handler}

ASSUME GoroutinesAssumption ==
  /\ Pinger \notin Broadcasters \cup Leavers /\ Handler \notin Armers \cup Leavers
  /\ Broadcasters \cap Leavers = {}
  /\ Nobody \notin Goroutines

VARIABLES
  peer,        \* the recipient: see PeerStates
  registered,  \* it has an entry in `clients`
  pc,          \* where each goroutine is
  readers,     \* goroutines that hold clientsMutex for reading
  waiting,     \* readers held up by a writer
  writer,      \* the writer that holds the mutex or is next to
  wmu,         \* the goroutine whose Write is in progress
  deadline,    \* the connection's write deadline: "none", "armed" or "expired"
  pingFailed,  \* the heartbeat's last ping failed
  crossed      \* goroutines whose deadline another has reset (a history variable)

lockVars == <<readers, waiting, writer>>
vars == <<peer, registered, pc, lockVars, wmu, deadline, pingFailed, crossed>>

PeerStates == {"draining", "stuck", "gone", "closed"}   \* closed: by the server

States ==
  { "idle", "ended",
    "rlock",              \* RLock called; the registry is looked at when it returns
    "lock", "locked",     \* Lock called; next in line, once the readers have left
    "arm", "reset",       \* about to set, to clear the write deadline
    "fd", "writing",      \* Write called; Write in progress
    "runlock", "unlock",  \* about to release clientsMutex
    "close" }             \* about to close the connection

(* Goroutine g goes on to a state, and touches only what is named beside.  *)
Goes(g, from, to) == pc[g] = from /\ pc' = [pc EXCEPT ![g] = to]

-----------------------------------------------------------------------------
Init ==
  /\ peer = "draining"
  /\ registered = TRUE
  /\ pc = [g \in Goroutines |-> "idle"]
  /\ readers = {} /\ waiting = {} /\ writer = Nobody
  /\ wmu = Nobody
  /\ deadline = "none"
  /\ pingFailed = FALSE
  /\ crossed = {}

-----------------------------------------------------------------------------
(* The recipient.                                                          *)

(* It stops reading, and the socket's buffer is full; it reads again; it   *)
(* is lost.                                                                *)
PeerChanges ==
  /\ \/ peer = "draining" /\ peer' \in {"stuck", "gone"}
     \/ peer = "stuck" /\ peer' \in {"draining", "gone"}
  /\ UNCHANGED <<registered, pc, lockVars, wmu, deadline, pingFailed, crossed>>

-----------------------------------------------------------------------------
(* clientsMutex.  A reader that finds a writer holding the mutex, or next  *)
(* in line, waits; a writer that leaves lets in the readers that wait.     *)

RLock(g) ==
  /\ g \in Armers /\ Goes(g, "idle", "rlock")
  /\ IF writer = Nobody
       THEN readers' = readers \cup {g} /\ UNCHANGED waiting
       ELSE waiting' = waiting \cup {g} /\ UNCHANGED readers
  /\ UNCHANGED <<peer, registered, writer, wmu, deadline, pingFailed, crossed>>

(* broadcastMessage ranges over the registry, and keeps the lock.          *)
Ranges(b) ==
  /\ b \in Broadcasters \cap readers
  /\ Goes(b, "rlock", IF registered THEN "arm" ELSE "runlock")
  /\ UNCHANGED <<peer, registered, lockVars, wmu, deadline, pingFailed, crossed>>

(* Mutant: the return for a client already gone keeps the read lock.       *)
PingerLooks_KeepsLock ==
  /\ Pinger \in readers
  /\ Goes(Pinger, "rlock", IF registered THEN "arm" ELSE "ended")
  /\ readers' = IF registered THEN readers \ {Pinger} ELSE readers
  /\ UNCHANGED <<peer, registered, waiting, writer, wmu, deadline, pingFailed, crossed>>

(* The heartbeat looks its client up and gives the lock back.              *)
PingerLooks ==
  /\ Pinger \in readers
  /\ Goes(Pinger, "rlock", IF registered THEN "arm" ELSE "ended")
  /\ readers' = readers \ {Pinger}
  /\ UNCHANGED <<peer, registered, waiting, writer, wmu, deadline, pingFailed, crossed>>

RUnlock(b) ==
  /\ Goes(b, "runlock", "idle")
  /\ readers' = readers \ {b}
  /\ UNCHANGED <<peer, registered, waiting, writer, wmu, deadline, pingFailed, crossed>>

(* Mutant: closeConnection takes the read lock.                            *)
Lock_Shared(g) ==
  /\ Goes(g, "lock", "locked")
  /\ writer = Nobody /\ readers' = readers \cup {g}
  /\ UNCHANGED <<peer, registered, waiting, writer, wmu, deadline, pingFailed, crossed>>

Lock(g) ==
  /\ Goes(g, "lock", "locked")
  /\ writer = Nobody /\ writer' = g
  /\ UNCHANGED <<peer, registered, readers, waiting, wmu, deadline, pingFailed, crossed>>

(* closeConnection for another client: it has a notice to write to the     *)
(* recipient, with no deadline of its own, unless that client had been     *)
(* removed already.                                                        *)
LeaverLocked(l) ==
  /\ l \in Leavers /\ readers = {}
  /\ (registered /\ Goes(l, "locked", "fd")) \/ Goes(l, "locked", "unlock")
  /\ UNCHANGED <<peer, registered, lockVars, wmu, deadline, pingFailed, crossed>>

(* closeConnection for the recipient, or its handler's deferred function.  *)
Removes(g) ==
  /\ g \in {Pinger, Handler} /\ readers = {}
  /\ Goes(g, "locked", "unlock")
  /\ registered' = FALSE
  /\ UNCHANGED <<peer, lockVars, wmu, deadline, pingFailed, crossed>>

Unlock(g) ==
  /\ Goes(g, "unlock", IF g \in Leavers THEN "idle"
                       ELSE IF g = Handler /\ peer # "closed" THEN "close" ELSE "ended")
  /\ writer' = Nobody /\ readers' = waiting /\ waiting' = {}
  /\ UNCHANGED <<peer, registered, wmu, deadline, pingFailed, crossed>>

-----------------------------------------------------------------------------
(* Writing to the connection.                                              *)

(* Mutant: only the heartbeat sets a deadline.                             *)
Arm_OnlyPings(g) ==
  /\ Goes(g, "arm", "fd")
  /\ deadline' = IF g = Pinger THEN "armed" ELSE deadline
  /\ crossed' = crossed \ {g}
  /\ UNCHANGED <<peer, registered, lockVars, wmu, pingFailed>>

Arm(g) ==
  /\ Goes(g, "arm", "fd")
  /\ deadline' = "armed"
  /\ crossed' = crossed \ {g}
  /\ UNCHANGED <<peer, registered, lockVars, wmu, pingFailed>>

Expires ==
  /\ deadline = "armed" /\ deadline' = "expired"
  /\ UNCHANGED <<peer, registered, pc, lockVars, wmu, pingFailed, crossed>>

WriteStarts(g) ==
  /\ Goes(g, "fd", "writing")
  /\ wmu = Nobody /\ wmu' = g
  /\ UNCHANGED <<peer, registered, lockVars, deadline, pingFailed, crossed>>

(* Where a goroutine goes when its Write has returned.  Only the heartbeat *)
(* looks at the error for more than a count.                               *)
AfterWrite(g) ==
  IF g \in Armers THEN "reset" ELSE IF g \in Leavers THEN "unlock" ELSE "idle"

WriteEnds(g) ==
  /\ Goes(g, "writing", AfterWrite(g))
  /\ \/ peer \in {"draining", "gone"} /\ deadline # "expired"
        /\ pingFailed' = (pingFailed /\ g # Pinger)
     \/ (peer \in {"gone", "closed"} \/ deadline = "expired")
        /\ pingFailed' = (pingFailed \/ g = Pinger)
  /\ wmu' = Nobody
  /\ UNCHANGED <<peer, registered, lockVars, deadline, crossed>>

(* The deadline is cleared: for whoever else is writing too.               *)
Reset(g) ==
  /\ Goes(g, "reset", IF g \in Broadcasters THEN "runlock"
                      ELSE IF pingFailed THEN "lock" ELSE "idle")
  /\ deadline' = "none"
  /\ crossed' = crossed \cup {a \in Armers \ {g} : pc[a] \in {"fd", "writing"}}
  /\ UNCHANGED <<peer, registered, lockVars, wmu, pingFailed>>

-----------------------------------------------------------------------------
(* What brings goroutines to write or to lock.                             *)

(* Another client's connection ends, and closeConnection is called.        *)
OtherLeaves(l) ==
  /\ l \in Leavers /\ Goes(l, "idle", "lock")
  /\ UNCHANGED <<peer, registered, lockVars, wmu, deadline, pingFailed, crossed>>

(* The recipient's handler has a line for it, the welcome or a /pong, and  *)
(* writes it with no deadline and no lock; or its read ends.               *)
HandlerGoesOn ==
  /\ Goes(Handler, "idle", "fd") \/ Goes(Handler, "idle", "lock")
  /\ UNCHANGED <<peer, registered, lockVars, wmu, deadline, pingFailed, crossed>>

(* The deferred function: the connection is closed, then the lock is taken *)
(* once more.                                                              *)
HandlerCloses ==
  /\ Goes(Handler, "close", "lock")
  /\ peer' = "closed"
  /\ UNCHANGED <<registered, lockVars, wmu, deadline, pingFailed, crossed>>

-----------------------------------------------------------------------------
(* The steps a goroutine takes once it has something to do.                *)
Proceeds(g) ==
  \/ Ranges(g) \/ (g = Pinger /\ PingerLooks) \/ RUnlock(g)
  \/ LeaverLocked(g) \/ Removes(g) \/ Unlock(g)
  \/ Arm(g) \/ Reset(g) \/ (g = Handler /\ HandlerCloses)

Next ==
  \/ PeerChanges \/ Expires \/ HandlerGoesOn
  \/ \E g \in Goroutines :
       RLock(g) \/ OtherLeaves(g) \/ Lock(g) \/ WriteStarts(g) \/ WriteEnds(g) \/ Proceeds(g)

Spec == Init /\ [][Next]_vars

(* Fairness.  Nobody has to speak, leave or ping, and the recipient owes   *)
(* nothing.  Deadlines expire.  One that waits in Write is woken when the  *)
(* Write in progress returns, and a recipient that reads again empties the *)
(* buffer, so that a Write in progress completes though it may stop again: *)
(* hence strong fairness.                                                  *)
Fairness ==
  /\ WF_vars(Expires)
  /\ \A g \in Goroutines :
       WF_vars(Proceeds(g)) /\ SF_vars(WriteStarts(g)) /\ SF_vars(WriteEnds(g))

FairSpec == Spec /\ Fairness

-----------------------------------------------------------------------------
(* Properties.                                                             *)

(* Every variable holds a value of its type.                               *)
TypeOK ==
  /\ peer \in PeerStates
  /\ registered \in BOOLEAN
  /\ pc \in [Goroutines -> States]
  /\ readers \subseteq Armers /\ waiting \subseteq Armers
  /\ writer \in Goroutines \cup {Nobody}
  /\ wmu \in Goroutines \cup {Nobody}
  /\ deadline \in {"none", "armed", "expired"}
  /\ pingFailed \in BOOLEAN
  /\ crossed \subseteq Armers

Holds(g) == g \in readers \/ (g = writer /\ readers = {})

(* A goroutine that holds clientsMutex while it can wait for the recipient *)
(* for ever is writing a leave notice (closeConnection sets no deadline),  *)
(* or a broadcast that was crossed: another broadcast or ping to the same  *)
(* connection has cleared the deadline, of which there is one for all.     *)
HoldersAreGuarded ==
  \A g \in Goroutines :
    Holds(g) /\ pc[g] = "writing" /\ deadline = "none" => g \in Leavers \cup crossed

(* A broadcast or a ping to a recipient who never reads again ends all the *)
(* same, unless it is crossed.                                             *)
UncrossedEnds ==
  \A g \in Armers : []<>(pc[g] # "writing" \/ g \in crossed)

(* clientsMutex is never closed to readers for good, nor kept from the     *)
(* next writer, as long as the recipient does not stop reading for good:   *)
(* what TcpServer's fairness assumes.                                      *)
LockComesFree ==
  []<>(peer # "stuck") => []<>(writer = Nobody)

-----------------------------------------------------------------------------
(* What comments of the code say and the code does not do.                 *)

(* handler.go:235 "Set a temporary write deadline": a broadcast is written *)
(* under a deadline.                                                       *)
BroadcastHasDeadline ==
  \A b \in Broadcasters : pc[b] = "writing" => deadline # "none"
==============================================================================
