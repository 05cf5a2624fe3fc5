SPECIFICATION ApiSpec
CONSTANTS
  Events = {e1, e2, e3}
  None = None
  BatchSize = 2
  MaxRetry = 2
  MaxClock = 1
  MaxErrors = 1
  MaxStoreErrors = 1
  MaxCrashes = 1
  KBs = {k1, k2}
  Refreshed = {k1}
  Requests = {r1, r2}
  Nothing = Nothing
  MaxRefreshes = 1
  MaxStarts = 1
  MaxMishaps = 1
  Sources = {f1}
  Processors = {w1, w2}
  MaxLog = 3
  MaxUpsets = 2
SYMMETRY Symmetry
INVARIANTS
  PublishedIsReceived
  ReceivedOnce
  AnswersFromOwnKB
  AnswersCurrent
  FollowsTheFile
CHECK_DEADLOCK FALSE
