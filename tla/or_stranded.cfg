SPECIFICATION FairSpec
CONSTANTS
  Events = {e1, e2}
  None = None
  BatchSize = 2
  MaxRetry = 3
  MaxClock = 0
  MaxErrors = 0
  MaxStoreErrors = 0
  MaxCrashes = 1
  Supervised = TRUE
  Poison = {}
PROPERTIES
  EveryEventReceived
CHECK_DEADLOCK FALSE
