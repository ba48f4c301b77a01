SPECIFICATION AlertSpec
CONSTANTS
  Partitions = {p1}
  Workers = {w1, w2}
  Nobody = Nobody
  Events = {"both", "row", "poison"}
  Kind <- MCKind
  Rules <- MCRules
  Matches <- MCMatches
  MaxLen = 2
  MaxRecords = 2
  MaxRetries = 2
  MaxCount = 4
  MaxFailures = 1
  Faults = {"crash", "rebalance", "deadletter", "redis", "alert", "commit"}
SYMMETRY Processes
INVARIANTS AlertsCounted FiredOnce
PROPERTIES ImplementsDurableLog
