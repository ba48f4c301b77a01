SPECIFICATION FairSpec
CONSTANTS
  r1 = r1
  r2 = r2
  r3 = r3
  r4 = r4
  Row <- MCRow
  Ts <- MCTs
  Clients = {me, other}
  Me = me
  Asked = {2}
  LastTs = 2
  Limit = 2
  Ttl = 2
  MaxDelay = 1
  SeenCap = 3
  SeenKeep = 3
INVARIANTS TypeOK Fresh PrintedOnce NothingSkipped
PROPERTIES EventuallyShown
CHECK_DEADLOCK FALSE
