SPECIFICATION Spec
CONSTANTS
  r1 = r1
  r2 = r2
  p1 = p1
  p2 = p2
  c1 = c1
  c2 = c2
  NULL = NULL
  Runs <- TwoRuns
  Payments <- TwoPayments
  Cases <- TwoCases
  Id <- MCId
  Opened <- MCOpened
  Arm <- MCArm
  AtRisk <- MCAtRisk
  Amount <- MCAmount
  Window = 1
  MaxTime = 2
INVARIANTS
  TypeOK
  CreditIsMutual
  CreditedOnceUnlessRaced
  CreditedInWindow
  LosersLoseToOlder
  CirclesShareTheirWinner
SYMMETRY RunSymmetry
CHECK_DEADLOCK FALSE
