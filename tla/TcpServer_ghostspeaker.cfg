CONSTANTS
  Conns = {c1, c2}
  NoProc = NoProc
  Signals = FALSE
  SlowReaders = TRUE
SPECIFICATION Spec
INVARIANTS SpeakerIsRegistered
\* Every connection is used once, and a signal ends the process.
CHECK_DEADLOCK FALSE
