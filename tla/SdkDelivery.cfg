SPECIFICATION FairSpec
CONSTANTS
  Callers = {c1, c2}
  Flusher = Flusher
  Main = Main
  Nobody = Nobody
  Events = {e1, e2, e3, e4}
  Unserializable = {e1}
  BatchSize = 2
  MaxBuffer = 3
  ApiMax = 2
  ApiFails = TRUE
INVARIANTS TypeOK EachEventOnce NoLostWakeup NothingStranded
PROPERTIES EveryEventResolved
CHECK_DEADLOCK FALSE
