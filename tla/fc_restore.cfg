SPECIFICATION CatalogFairSpec
CONSTANTS
  Watched = {f1}
  Returning = {f1}
  Uploaded = {}
  ApiFiles = {}
  Contents = {A, B}
  Empty = Empty
  Null = Null
  Callers = {c1}
  LoseAnswers = FALSE
  MaxEdits = 4
  MaxCalls = 0
  MaxFailures = 0
  MaxKills = 0
PROPERTIES
  ReturnedConverge
