\* Five-second units: read deadlines of 30 and 60 seconds, pings every 15; four
\* slow recipients.
CONSTANTS
  MaxAttempts = 2
  ClientTimeout = 6
  ServerTimeout = 12
  Period = 3
  MaxLatency = 1
  MaxStall = 4
  MaxBacklog = 2
SPECIFICATION Spec
INVARIANTS NoFalseAlarm
\* The client ends.
CHECK_DEADLOCK FALSE
