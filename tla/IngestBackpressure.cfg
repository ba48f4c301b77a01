SPECIFICATION FairSpec
CONSTANTS
  Requests <- MCRequests
  Single <- MCSingle
  Events <- MCEvents
  EventsOf <- MCEventsOf
  Invalid <- MCInvalid
  MaxTasks = 1
  KafkaFails = TRUE
  Kills = TRUE
INVARIANTS BatchAcknowledged ShutdownFlushes RefusalIsClean
PROPERTIES QueueDrains
CHECK_DEADLOCK FALSE
