SPECIFICATION RankingSpec
CONSTANTS
  c1 = c1
  c2 = c2
  c3 = c3
  IndexedChunks = {c1, c2, c3}
  DocumentOf <- MCDocumentOf
  Filters <- MCFilters
  AskedTopKs = {2}
  ProfileTopKs = {0, 3}
  Strategies = {"rrf", "normalized"}
  RrfK = 1
  Weights <- MCWeights
  Scale = 60
  ScoreShapes <- MCScoreShapes
INVARIANTS
  ChunksStayApart
CHECK_DEADLOCK FALSE
