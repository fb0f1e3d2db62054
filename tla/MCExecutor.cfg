\* All request kinds, engine faults, refill, deferral and shutdown.
SPECIFICATION Spec
CONSTANTS
  Tasks = {t1, t2, t3, t4}
  Requests <- AllRequests
  MaxBatch = 2
  AggregateLimit = 8
  ChunkRows = 1
  Barriers = 2
  EngineFaults = TRUE
SYMMETRY TaskSymmetry
INVARIANTS TypeOK AnsweredAtMostOnce NoTaskLost BatchWithinLimits
PROPERTY ServiceSpec
