SPECIFICATION Spec
CONSTANTS
  Tokens = {1, 2, 3}
  Stops = {3}
  Greedy <- MCGreedy
  RunnerUp <- MCRunnerUp
  Requests <- MCRequests
  Configs <- AnchorWithHead
  Depths = {2, 3}
  ChunkRows = 2
  CacheLimit = 5
  MaxRequests = 1
CHECK_DEADLOCK FALSE
INVARIANT MetalHoldsCommitted
