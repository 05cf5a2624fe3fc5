SPECIFICATION Spec
CONSTANTS
  Events = {e1, e2}
  Workers = {w1, w2}
  Malformed = {}
  None = None
  BatchSize = 2
  MaxAttempts = 2
  HeartbeatsKeepUp = TRUE
  MaxFaults = 0
SYMMETRY Symmetry
INVARIANTS
  NoDoubleIngest
