SPECIFICATION Spec
CONSTANTS
  Tokens = {1, 2, 3}
  Stops = {3}
  Greedy <- MCGreedy
  RunnerUp <- MCRunnerUp
  Requests <- MCRequests
  Configs <- MCConfigs
  Depths = {2, 3}
  ChunkRows = 2
  CacheLimit = 5
  MaxRequests = 3
INVARIANTS
  CacheTrue
  DecodersInStep
PROPERTIES
  CheckpointsKept
  GreedySpec
CHECK_DEADLOCK FALSE
