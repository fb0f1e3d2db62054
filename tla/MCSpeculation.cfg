SPECIFICATION MCSpec
CONSTANTS
  ProbeRounds = 2
  ProbeThreshold = 2
  MonitorRounds = 2
  FourProbation = 1
  FourMonitor = 2
  PromotionProbation = 1
  Window = 3
  LearnedProbe = 2
  HistoryProbe = 2
  FallbackRounds = 2
  NarrowCopy = 3
  CopyBackoff = 3
  MaxBackoff = 4
  MaxRounds = 6
  AcceptCounts = {0, 1, 3, 4}
  HistorySizes = {3}
  CopySizes = {3, 4}
  Settings <- MCSettings
  Vocabulary = {1, 2}
  KeyOf <- MCKeyOf
  MinOrder = 1
  MaxOrder = 3
  MinCopy = 3
  MaxCopy = 4
  Candidates = 2
  MaxDraft = 2
  MaxTokens = 9
  Limits = {3, 4, 5, 6, 7, 8}
  BudgetSizes = {1, 2, 3, 4}
  SuffixSize = 3
  CloseAt = 2
  Ratio = 2
  Budget = 4
  Q8Min = 6
  Flush = 2
  SdpaMin = 3
  PrefillMin = 2
  AttRows = 2
  PleConv = 3
  Eos = 0
  Wrong = 99
  Kinds <- MCKinds
  Stride = 2
  Options <- MCOptions
  Texts <- MCTexts
  MaxRows = 3
  MaxChunks = 2
  MaxDrafts = 2
  MaxBatch = 3
  Starts = {1, 2}
INVARIANTS
  StatesHold
  SelectionSound
  DraftsContinue
  ThinkingClosed
PROPERTIES
  PoliciesEarned
CHECK_DEADLOCK FALSE
