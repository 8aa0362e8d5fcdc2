\* Two addresses, with times as short as they can be, until the first packet
\* after a crossing.
CONSTANTS
  Addrs = {a1, a2}
  Objs = {o1, o2, o3, o4}
  None = None
  Timeout = 1
  Delay = 1
  MaxLeaves = 1
  MaxCrossings = 0
  Signals = FALSE
SPECIFICATION Spec
SYMMETRY Symmetry
INVARIANTS TypeOK RemovalScheduled SilentAreFound ActiveCountsMembers NoticesAreTrue
PROPERTIES ImplementsPresence
\* A signal ends the process.
CHECK_DEADLOCK FALSE
