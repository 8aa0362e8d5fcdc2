\* Two broadcasts may meet at one recipient.
CONSTANTS
  Broadcasters = {b1, b2}
  Leavers = {}
  Pinger = Pinger
  Handler = Handler
  Nobody = Nobody
SPECIFICATION Spec
INVARIANTS BroadcastHasDeadline
CHECK_DEADLOCK FALSE
