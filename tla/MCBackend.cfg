SPECIFICATION MCSpec
CONSTANTS
  LayerCount = 6
  Period = 3
  PleLayer = 1
  Compress = 2
  HotCapacity = 3
  ContextLimit = 6
  PositionLimit = 10
  GroupSizes = {1, 4}
  Prompts <- MCPrompts
  MaxRequests = 2
  MaxSteps = 2
  TrunkLayers = 12
  AttentionEvery = 4
  NgramLayer = 1
  SharedFrom = 4
  SharedTo = 7
  Vocabulary = 248320
  BlockCounts = {0, 3, 128, 200, 700, 65536}
  ProbedLayers = {3, 6}
  MaxTrunks = 2
  Selections <- MCSelections
  PerThread = 2
  Threads = 4
  MaxRows = 10
  CodeBits = 14
  WordBits = 32
  GroupCodes = 8
  PackedGroups = 40
  BlockRows = 4
  DenseBlocks = 2
  MaxAttended = 14
  Configs <- MCConfigs
  IndexFiles <- MCIndexFiles
  QmetaFiles <- MCQmetaFiles
  MtpFiles <- MCMtpFiles
  HeadFiles <- MCHeadFiles
  Required <- MCRequired
  RequiredHead <- MCRequiredHead
  FileBytes = {1, 4}
  MostBytes = 6
  StoreThreads = {"t1", "t2"}
  MaxOpened = 2
  UserSettings <- MCUserSettings
  ChunkOptions = {0, 512, 2048}
  PromptRows = {1, 32768, 32769, 66048, 66049}
INVARIANTS
  SessionSound
  DispatchesFresh
  KernelsExact
  ManifestFaithful
  ShardsMappedOnce
  SettingsRank
  ServerTruthful
CHECK_DEADLOCK FALSE
