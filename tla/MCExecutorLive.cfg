SPECIFICATION RecurringSpec
CONSTANTS
  Tasks = {t1, t2, t3}
  Requests <- RecurringRequests
  MaxBatch = 2
  AggregateLimit = 9
  ChunkRows = 1
  Barriers = 1
  EngineFaults = TRUE
PROPERTIES EveryCallAnswered StopTerminates OnlyDeferredCallsWait
