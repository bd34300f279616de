SPECIFICATION RequestsSpec
CONSTANTS
  Templates = {t1}
  Assignments = {a1}
  Children = {k1}
  FamilyChildren = {k1}
  Rewards <- MCOneReward
  None = none
  Conns = {c1, c2}
  Parents = {p1, p2}
  MaxSubmissions = 2
  MaxTemplateVersion = 1
INVARIANTS
  DecisionIsOnTheRowRead
