SPECIFICATION RequestsSpec
CONSTANTS
  Parents = {o, p}
  Owner = o
  Children = {}
  Tokens = {t1}
  Sessions = {s1, s2}
  Codes = {}
  Conns = {c1, c2}
  None = none
INVARIANTS
  RevokedParentHasNoLiveSession
