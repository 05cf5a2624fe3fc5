SPECIFICATION CatalogSpec
CONSTANTS
  Watched = {f1}
  Returning = {}
  Uploaded = {u}
  ApiFiles = {u}
  Contents = {A, B}
  Empty = Empty
  Null = Null
  Callers = {c1, c2}
  LoseAnswers = FALSE
  MaxEdits = 0
  MaxCalls = 4
  MaxFailures = 0
  MaxKills = 0
PROPERTIES
  DeletedThenCreated
