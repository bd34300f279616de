SPECIFICATION RequestsSpec
CONSTANTS
  Templates = {t1}
  Assignments = {a1}
  Children = {k1, k2}
  FamilyChildren = {k1}
  Rewards <- MCRewards
  None = none
  Conns = {c1, c2}
  Parents = {p1, p2}
  MaxSubmissions = 2
  MaxTemplateVersion = 2
SYMMETRY MCSymmetry
INVARIANTS
  TypeOK
  LedgerMatchesCompletion
  VersionCountsHistory
  NoVersionConflict
PROPERTIES
  AtomicLifecycle
