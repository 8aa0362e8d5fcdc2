CONSTANTS
  Addrs = {a1}
  Objs = {o1, o2}
  None = None
  Timeout = 4
  Delay = 2
  MaxLeaves = 1
  MaxCrossings = 1
  Signals = FALSE
SPECIFICATION Spec
INVARIANTS TimeoutMeansSilent
\* A signal ends the process.
CHECK_DEADLOCK FALSE
