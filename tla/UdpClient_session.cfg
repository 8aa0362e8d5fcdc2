\* The code's channel of errors; a smaller one of lines.
CONSTANTS
  MaxAttempts = 5
  MsgCap = 3
  ErrCap = 2
  ProbeLen = 8
  HeaderLen = 10
  ChatServer = FALSE
SPECIFICATION FairSpec
INVARIANTS TypeOK SocketsClosed
PROPERTIES ConnectEnds SessionEnds
\* The process ends.
CHECK_DEADLOCK FALSE
