SPECIFICATION RequestsSpec
CONSTANTS
  Rewards = {r1}
  Assignments = {a1}
  Children = {k1}
  Parents = {p1}
  Attempts = {x1, x2}
  Windows = {w1}
  References = {f1}
  Amounts <- MCAmounts
  None = none
  Conns = {c1, c2}
  System = system
  MaxVersion = 5
SYMMETRY MCSymmetry
INVARIANTS
  RewardTypeOK
  RedeemedExactlyOnce
  RewardVersionCounts
  NoDeadlock
PROPERTIES
  CommittedCallIsPosted
  AtomicRewards
