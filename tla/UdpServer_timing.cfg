\* One address, the times of the code in periods of 15 seconds, and every
\* interleaving of the receiver, the sweep and the timers.
CONSTANTS
  Addrs = {a1}
  Objs = {o1, o2}
  None = None
  Timeout = 4
  Delay = 2
  MaxLeaves = 1
  MaxCrossings = 2
  Signals = TRUE
SPECIFICATION FairSpec
INVARIANTS TypeOK RemovalScheduled SilentAreFound ActiveCountsMembers NoticesAreTrue
PROPERTIES ImplementsPresence GoneIsRemoved
\* A signal ends the process.
CHECK_DEADLOCK FALSE
