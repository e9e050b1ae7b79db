SPECIFICATION Spec
CONSTANTS
  w1 = w1
  w2 = w2
  a1 = a1
  a2 = a2
  c1 = c1
  NULL = NULL
  Workers <- MCWorkers
  Actions <- OneAction
  Cases <- MCCases
  CaseOf <- MCCaseOf
  PlannedAt <- MCPlannedAt
  DeferTimes <- MCDeferTimes
  Cost <- MCCost
  Ceiling <- MCCeiling
  ClaimTTL = 1
  KeyTTL = 2
  BatchSize = 1
  MaxTime = 6
  QuietAfter = 7
INVARIANTS
  TypeOK
  AllowedBeforeSent
  ResendOnlyAfterKeyExpiry
  CostFollowsCall
SYMMETRY WorkerSymmetry
