SPECIFICATION RegistrySpec
CONSTANTS
  t1 = t1
  t2 = t2
  a1 = a1
  a2 = a2
  w1 = w1
  PHASE1 = phase1
  EVIDENCE_AREAS = {"tests"}
  ArchitectureChecks = {"dependency_direction"}
  Scopes <- MCScopes
  Waves <- MCWaves
  Finished <- MCWaves
  Reviews <- MCNoReviews
  OpenBlockers = {}
  None = none
  Tasks = {t1}
  Agents = {a1, a2}
  InitialBoards <- MCOneBoard
  Procs = {p1, p2, p3}
  MaxAttempts = 6
  MaxFaults = 0
  MaxCrashes = 0
CHECK_DEADLOCK FALSE
INVARIANTS
  MutualExclusion
