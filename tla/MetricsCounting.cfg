SPECIFICATION MetricsSpec
CONSTANTS
  Partitions = {p1}
  Workers = {w1, w2}
  Nobody = Nobody
  Events = {"r1", "garbage"}
  Kind <- MCKind
  Labels <- MCLabels
  Label <- MCLabel
  MaxLen = 2
  MaxRecords = 1
  MaxRetries = 2
  MaxTotal = 3
  Faults = {"crash", "rebalance", "signal", "redis", "commit"}
SYMMETRY Processes
INVARIANTS NeverUndercounted TotalsNested TotalIsEvents
PROPERTIES MetricsBatchEnds
