SPECIFICATION FairSpec
CONSTANTS
  Partitions = {p1, p2}
  Workers = {w1}
  Nobody = Nobody
  Events = {"r1", "poison"}
  Kind <- MCKind
  MaxLen = 2
  MaxRecords = 2
  Faults = {"crash", "signal", "rebalance"}
  FallbackCap = 1
INVARIANTS PoisonIsolated AtLeastOnce
PROPERTIES DrainedBeforeStop Progress ShutdownTerminates
