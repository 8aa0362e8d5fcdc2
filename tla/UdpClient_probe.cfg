\* The chat server: the probe is CMD:PING, eight bytes, its header is ten.
CONSTANTS
  MaxAttempts = 5
  MsgCap = 3
  ErrCap = 2
  ProbeLen = 8
  HeaderLen = 10
  ChatServer = TRUE
SPECIFICATION Spec
INVARIANTS GivesUpUnheard
\* The process ends.
CHECK_DEADLOCK FALSE
