SPECIFICATION Spec
CONSTANTS
  Docs = {d1}
  Scanned = {d1}
  Versions = {v1}
  None = None
  Callers = {c1}
  MaxCalls = 3
  MaxFaults = 1
  MaxStops = 1
PROPERTIES
  RetriedDeleteIsGone
CHECK_DEADLOCK FALSE
