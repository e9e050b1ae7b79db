SPECIFICATION Spec
CONSTANTS
  NULL = NULL
  MaxRuns = 2
  Cohort <- MCCohort
  BaselinePlaybook <- MCBaseline
  Playbooks <- MCPlaybooks
  Attempts <- MCAttempts
  Retryable = {"insufficient_funds", "issuer_down"}
  APPROVAL_THRESHOLD = 80
  CLAIM_BATCH_SIZE = 3
  ATTRIBUTION_WINDOW = 72
  Day = 24
  Week = 168
  Opens = 9
  Closes = 21
  VoiceOpens = 10
  VoiceCloses = 19
  GLOBAL_DAILY_CAP = 1000
INVARIANTS
  TypeOK
  NoDoubleCapture
  Reproducible
  EveryActionHandled
  OnlyApprovalDefers
  ReportMatchesLedgers
CHECK_DEADLOCK FALSE
