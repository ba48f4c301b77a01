SPECIFICATION FairSpec
CONSTANTS
  Rows = {r}
  Rejected = {x}
  Invalid = {v}
  Limit = 2
  MaxDlq = 3
  MaxInterruptions = 2
INVARIANTS LossBounded
PROPERTIES RunEnds RowsRecovered
CHECK_DEADLOCK FALSE
