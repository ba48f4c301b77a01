SPECIFICATION Spec
CONSTANTS
  Partitions = {p1}
  Workers = {w1}
  Nobody = Nobody
  Events = {"r1", "poison"}
  Kind <- MCKind
  MaxLen = 2
  MaxRecords = 2
  Faults = {"pool"}
  FallbackCap = 0
INVARIANTS AtLeastOnce
CHECK_DEADLOCK FALSE
