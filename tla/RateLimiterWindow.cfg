SPECIFICATION Spec
CONSTANTS
  Requests = {q1, q2, q3, q4}
  Limit = 2
  Window = 3
  MaxTime = 6
  MaxDelay = 1
INVARIANTS TypeOK BoundedBurst
PROPERTIES ExactDecisions
CHECK_DEADLOCK FALSE
