SPECIFICATION Spec
CONSTANTS
  w1 = w1
  w2 = w2
  a1 = a1
  a2 = a2
  c1 = c1
  NULL = NULL
  Workers <- MCWorkers
  Actions <- TwoActions
  Cases <- MCCases
  CaseOf <- MCCaseOf
  PlannedAt <- MCPlannedAt
  DeferTimes <- MCDeferTimes
  Cost <- MCCost
  Ceiling <- MCCeiling
  ClaimTTL = 1
  KeyTTL = 3
  BatchSize = 2
  MaxTime = 2
  QuietAfter = 3
PROPERTIES
  AtMostOneSideEffect
