SPECIFICATION FairOutboxSpec
CONSTANTS
  w1 = w1
  w2 = w2
  a1 = a1
  a2 = a2
  c1 = c1
  c2 = c2
  NULL = NULL
  Workers <- MCWorkers
  Actions <- MCActions
  Cases <- MCCases
  CaseOf <- MCCaseOf
  PlannedAt <- MCPlannedAt
  DeferTimes <- MCDeferTimes
  ClaimTTL = 1
  BatchSize = 2
  MaxTime = 4
  QuietAfter = 5
INVARIANTS
  ExclusiveLease
PROPERTIES
  SettledIsFinal
  ForeignCompletionIsLate
  ExpiredClaimsComeBack
