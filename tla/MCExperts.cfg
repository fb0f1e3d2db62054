SPECIFICATION MCSpec
CONSTANTS
  a = a
  b = b
  c = c
  Keys = {a, b, c}
  Bytes <- MCBytes
  Budgets = {1, 2, 3}
  DecayPeriod = 3
  HistoryLimit = 1
  MaxFrequency = 3
  MaxTick = 4
  MaxLeases = 2
  PagedExperts = 4
  HotSlots = 1
  ColdSlots = 2
  FitsBatch = 2
  LeaseGroup = 2
  PageTopK = 3
  Projections = 3
  FieldsEach = {2, 3}
  MaxCalls = 3
  ConfiguredTopK = 10
  LeastTopK = 6
  RoutedRows = 8
  LoneRows = 4
  WideBranch = 4
  GroupFrom = 16
  SegmentFrom = 20
  VerifyRows = 24
  PrefillRows = 32
  RowCounts = {1, 2, 3, 4, 5, 8, 9, 15, 16, 19, 20, 24, 25, 32, 33}
  Layers <- MCLayers
  ExpertCount = 3
  Scores = {1, 2}
  Shapes <- MCShapes
  WideFrom = 7
  WideTile = 4
  WideTail = 2
  NarrowTile = 3
  NarrowTail = 1
  TieBound = 4
SYMMETRY Small
INVARIANTS
  AccountsTrue
  PagesTruthful
  DispatchSound
  PlansSound
PROPERTIES
  LeasesDecide
CHECK_DEADLOCK FALSE
