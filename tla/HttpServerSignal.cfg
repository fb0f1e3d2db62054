SPECIFICATION FairSpec
CONSTANTS
  Clients = {c1}
  Workers = {w1}
  Signals = {s1}
  MaxPending = 1
  SystemFaults = FALSE
PROPERTY SignalShutsDown
