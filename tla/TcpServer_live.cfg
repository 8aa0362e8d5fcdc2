\* Two connections that drain, no signal.
CONSTANTS
  Conns = {c1, c2}
  NoProc = NoProc
  Signals = FALSE
  SlowReaders = FALSE
SPECIFICATION FairSpec
INVARIANTS NoPhantomMember
PROPERTIES GoneIsForgotten
\* Every connection is used once, so the room runs empty.
CHECK_DEADLOCK FALSE
