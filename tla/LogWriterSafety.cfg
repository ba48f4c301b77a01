SPECIFICATION Spec
CONSTANTS
  Partitions = {p1}
  Workers = {w1, w2}
  Nobody = Nobody
  Events = {"r1", "poison"}
  Kind <- MCKind
  MaxLen = 2
  MaxRecords = 2
  Faults = {"crash", "rebalance", "deadletter", "statement", "pool"}
  FallbackCap = 0
SYMMETRY Processes
INVARIANTS AccountedFor IInv
PROPERTIES CommitNeverRetreats ImplementsDurableLog
