SPECIFICATION Spec
CONSTANTS
  Docs = {d1, d2}
  Scanned = {d1}
  Versions = {v1, v2}
  None = None
  Callers = {c1, c2}
  MaxCalls = 3
  MaxFaults = 1
  MaxStops = 1
SYMMETRY Symmetry
INVARIANTS
  SerialCallsKeepIndexExact
PROPERTIES
  RebuildRepairs
  IngestedIsSearchable
  DeletedIsGone
CHECK_DEADLOCK FALSE
