SPECIFICATION Spec
CONSTANTS
  w1 = w1
  w2 = w2
  s1 = s1
  a1 = a1
  a2 = a2
  c1 = c1
  NULL = NULL
  Cases <- OneCase
  CaseOf <- MCCaseOf
  Arm <- MCArm
  Workers <- TwoWorkers
  Callers <- OneCaller
  Actions <- TwoActions
  Large <- NoCase
  Causes <- MCCauses
INVARIANTS
  TypeOK
  OutcomeTellsTheEnd
  GateLetsThroughOnce
  StoppedCaseIsSwept
PROPERTIES
  EndsOnce
SYMMETRY WorkerSymmetry
CHECK_DEADLOCK FALSE
