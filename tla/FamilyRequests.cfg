SPECIFICATION RequestsSpec
CONSTANTS
  Parents = {o, p}
  Owner = o
  Children = {k1}
  Tokens = {t1}
  Sessions = {s1, s2, s3}
  Codes = {d1, d2}
  Conns = {c1, c2}
  None = none
SYMMETRY MCSymmetry
INVARIANTS
  FamilyTypeOK
  NoDeadlock
PROPERTIES
  AtomicMembership
  RevocationCutsEverySession
  CodeIsSpentOnce
