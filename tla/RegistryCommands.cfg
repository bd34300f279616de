SPECIFICATION RegistrySpec
CONSTANTS
  t1 = t1
  t2 = t2
  a1 = a1
  a2 = a2
  w1 = w1
  PHASE1 = phase1
  EVIDENCE_AREAS = {"tests"}
  ArchitectureChecks = {"dependency_direction"}
  Scopes <- MCScopes
  Waves <- MCWaves
  Finished <- MCWaves
  Reviews <- MCReviews
  OpenBlockers <- MCOpenBlockers
  None = none
  Tasks = {t1, t2}
  Agents = {a1, a2}
  InitialBoards <- MCBoards
  Procs = {p1, p2}
  MaxAttempts = 2
  MaxFaults = 1
  MaxCrashes = 1
CHECK_DEADLOCK FALSE
INVARIANTS
  RegistryTypeOK
  NextListsClaimable
  NoLockLeft
PROPERTIES
  AtomicCommands
  PassedReviewStands
  EveryCommandEnds
