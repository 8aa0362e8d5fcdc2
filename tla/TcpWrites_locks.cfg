\* A broadcast and a leave notice may meet the heartbeat at one recipient.
CONSTANTS
  Broadcasters = {b1}
  Leavers = {l1}
  Pinger = Pinger
  Handler = Handler
  Nobody = Nobody
SPECIFICATION FairSpec
INVARIANTS TypeOK HoldersAreGuarded
PROPERTIES UncrossedEnds LockComesFree
CHECK_DEADLOCK FALSE
