SPECIFICATION ServicesSpec
CONSTANTS
  a1 = a1
  a2 = a2
  d1 = d1
  e1 = e1
  Calls = {a1, a2, d1}
  Crews <- MCCrews
  Events = {e1}
  EventOf <- MCEventOf
  Direct = Direct
  MaxAttempts = 2
  MaxLapses = 1
  p1 = p1
  p2 = p2
  m1 = m1
  m2 = m2
  m3 = m3
  m4 = m4
  Partitions = {p1, p2}
  Log <- MCLog
  Malformed <- MCMalformed
  Anonymous = {m4}
  NoMessage = NoMessage
  MaxBridgeFaults = 2
  Api = api
  Programs = {worker, api}
  MaxEdits = 1
  MaxEnds = 2
  Starters = {s1, s2}
  Bases = {x1}
  b1 = b1
  b2 = b2
  A = A
  B = B
  BuiltIns <- MCBuiltIns
  ProfileOf <- MCProfileOf
  Profiles = {A, B}
  NoPath = NoPath
  MaxKills = 1
  MaxRegistrations = 1
INVARIANTS
  SweepTellsLivingFromDead
  TaskKeepsVerdict
  CommittedIsAccountedFor
  OneGeneration
  ParametersKept
PROPERTIES
  EveryTaskEnds
  ProgramsComeBack
  StartsConverge
CHECK_DEADLOCK FALSE
