\* Five-second units: read deadlines of 30 and 60 seconds, pings every 15; one
\* slow recipient.
CONSTANTS
  MaxAttempts = 2
  ClientTimeout = 6
  ServerTimeout = 12
  Period = 3
  MaxLatency = 1
  MaxStall = 1
  MaxBacklog = 2
SPECIFICATION FairSpec
INVARIANTS TypeOK NoFalseAlarm CutNoticed
PROPERTIES ClientEnds
\* The client ends.
CHECK_DEADLOCK FALSE
