\* Any server; no fairness is needed.
CONSTANTS
  MaxAttempts = 5
  MsgCap = 3
  ErrCap = 2
  ProbeLen = 8
  HeaderLen = 10
  ChatServer = FALSE
SPECIFICATION Spec
INVARIANTS HeartbeatsGoOn
\* The process ends.
CHECK_DEADLOCK FALSE
