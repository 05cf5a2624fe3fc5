SPECIFICATION IngestionSpec
CONSTANTS
  f1 = f1
  Documents = {f1}
  FileTypes <- MCFileTypes
  Layouts <- MCLayouts
  ChunkSize <- MCChunkSize
  ChunkOverlap <- MCChunkOverlap
  MaxContents = 3
INVARIANTS
  ActiveHoldsItsContent
CHECK_DEADLOCK FALSE
