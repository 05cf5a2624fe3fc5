SPECIFICATION PartsSpec
CONSTANTS
  Events = {e1, e2}
  Workers = {w1, w2}
  Malformed = {e2}
  None = None
  BatchSize = 2
  MaxAttempts = 2
  HeartbeatsKeepUp = FALSE
  MaxFaults = 2
  k1 = k1
  k2 = k2
  Kinds <- MCKinds
  Parts = {"worker", "retrieve"}
  Slow = 5000
  Fast = 1
  ActiveAge = 0
  RecentWindow = 0
  HealthWindow = 0
  RecentLimit = 2
  RunningLimit = 2
  HighQueue = 1
  CriticalQueue = 2
  Backlogs = {0, 3}
  MaxMeanwhile = 1
  MaxSpans = 3
  MaxNow = 1
  f1 = f1
  f2 = f2
  Documents = {f1, f2}
  FileTypes <- MCFileTypes
  Layouts <- MCLayouts
  ChunkSize <- MCChunkSize
  ChunkOverlap <- MCChunkOverlap
  MaxContents = 2
  o1 = o1
  o2 = o2
  Origins = {o1, o2}
  KindOf <- MCKindOf
  RowsOf <- MCRowsOf
  Cuts <- MCCuts
  Separators <- MCSeparators
  Plans <- MCPlans
  Total = 2
  Ratings <- MCRatings
  Threshold = 4
  Ungrounded = 2
  SplitTexts <- MCSplitTexts
  SplitRatios <- MCSplitRatios
  MaxRuns = 3
  MaxBreaks = 1
  c1 = c1
  c2 = c2
  c3 = c3
  ConfigFiles = {"base", "site"}
  FileBodies <- MCBodies
  NoBase = NoBase
  ServerTree <- MCServerTree
  LegacyModel <- MCLegacyModel
  DefaultModel <- MCDefaultModel
  Environments <- MCEnvironments
  GivenUris <- MCGivenUris
  MaxFileEdits = 1
  IndexedChunks = {c1, c2, c3}
  DocumentOf <- MCDocumentOf
  Filters <- MCFilters
  AskedTopKs = {1, 2}
  ProfileTopKs = {0, 3}
  Strategies = {"rrf", "normalized"}
  RrfK = 1
  Weights <- MCWeights
  Scale = 60
  ScoreShapes <- MCScoreShapes
INVARIANTS
  LeaseIffRunning
  AttemptsBounded
  RunsWithinAttempts
  OldestFirst
  FileBecomesChunks
  DatasetIsWhatWasAsked
  
  ParametersArrive
  AnswerIsRanked
PROPERTIES
  SettledStaysSettled
  EveryEventSettles
  ImplementsLedger
CHECK_DEADLOCK FALSE
