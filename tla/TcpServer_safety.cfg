\* Two connections, a signal, writes that may time out.
CONSTANTS
  Conns = {c1, c2}
  NoProc = NoProc
  Signals = TRUE
  SlowReaders = TRUE
SYMMETRY ConnSymmetry
SPECIFICATION Spec
INVARIANTS TypeOK RegistryMatchesHandlers RecipientsRegistered ActiveNeverOverstated
PROPERTIES MapStableWhileRanged JoinHeardFirst ImplementsRoom
\* The process ends on a signal.
CHECK_DEADLOCK FALSE
