SPECIFICATION Spec
CONSTANTS
  Callers = {c1}
  Flusher = Flusher
  Main = Main
  Nobody = Nobody
  Events = {e1, e2, e3}
  Unserializable = {}
  BatchSize = 2
  MaxBuffer = 3
  ApiMax = 2
  ApiFails = FALSE
INVARIANTS NothingLost
CHECK_DEADLOCK FALSE
