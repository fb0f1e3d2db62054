SPECIFICATION FairSpec
CONSTANTS
  Clients = {c1, c2}
  Workers = {w1, w2}
  Signals = {s1, s2}
  MaxPending = 1
  SystemFaults = TRUE
INVARIANTS
  SocketsHeldOnce
  OnlyErrorPathMiscloses
PROPERTIES
  QueuedIsSettled
  StopEndsRun
