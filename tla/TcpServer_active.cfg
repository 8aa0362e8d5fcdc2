CONSTANTS
  Conns = {c1}
  NoProc = NoProc
  Signals = FALSE
  SlowReaders = FALSE
SPECIFICATION Spec
INVARIANTS ActiveReturnsToZero
\* Every connection is used once, and a signal ends the process.
CHECK_DEADLOCK FALSE
