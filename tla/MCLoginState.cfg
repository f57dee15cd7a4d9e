SPECIFICATION Spec
CONSTANTS
  r1 = r1
  r2 = r2
  Runs <- TwoRuns
  Deleter = Deleter
  acct = acct
  Issues = 3
  None = None
SYMMETRY SameRuns
\* The last operation of a deleted account may be over.
CHECK_DEADLOCK FALSE
INVARIANTS
  AccountDataInv
  LoginSurvives
