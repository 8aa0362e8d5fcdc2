\* Two goroutines in the middle of calls, a third call to overtake them, and
\* one more.
CONSTANTS
  Goroutines = {g1, g2}
  MaxSize = 1
  MaxCalls = 4
SPECIFICATION Spec
INVARIANTS TypeOK MaxIsPeak ReportedActiveWithinTotal ReportedSizeCovered CountersAgree
\* No call is begun after the last.
CHECK_DEADLOCK FALSE
