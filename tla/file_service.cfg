SPECIFICATION ServiceSpec
CONSTANTS
  Watched = {f1, f2}
  Returning = {f2}
  Uploaded = {u}
  ApiFiles = {u}
  Contents = {A, B}
  Empty = Empty
  Null = Null
  Callers = {c1}
  LoseAnswers = FALSE
  MaxEdits = 4
  MaxCalls = 3
  MaxFailures = 2
  MaxKills = 1
  e1 = e1
  e2 = e2
  e3 = e3
  Events = {e1, e2, e3}
  None = None
  BatchSize = 2
  MaxRetry = 2
  MaxClock = 1
  MaxErrors = 3
  MaxStoreErrors = 1
  MaxCrashes = 1
  Supervised = TRUE
  Poison = {e3}
INVARIANTS
  CachesTruthful
  BlobsMatchVersions
  WatchedHaveKB
  PublishedIsDelivered
  OvertakesOnlyAfterRetry
  SendingIsInHand
  ReceivedOnce
PROPERTIES
  DeletedThenCreated
  Converges
  DirectoryRegistered
  EveryEventEnds
CHECK_DEADLOCK FALSE
