SPECIFICATION Spec
CONSTANTS
  Requests = {r1, r2, r3}
  MAX_FAILURES = 3
  WINDOW_MS = 2
  BLOCK_MS = 2
  MaxTime = 6
SYMMETRY MCSymmetry
INVARIANTS
  SignInTypeOK
  FailureBudget
PROPERTIES
  OnlySuccessLiftsBlock
