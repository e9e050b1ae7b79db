SPECIFICATION Spec
CONSTANTS
  k1 = k1
  k2 = k2
  k3 = k3
  k4 = k4
  NULL = NULL
  Cases <- RunnerCases
  PlaybookOf <- RunnerPlaybookOf
  AtRisk <- RunnerAtRisk
  Facts <- RunnerFacts
  Words = {}
  Ledgers <- RunnerLedgers
  OpenedAt <- RunnerOpenedAt
  LoadsContacts = FALSE
  MaxWords = 0
  MaxDelay = 0
  Day = 48
  Week = 336
  Opens = 18
  Closes = 42
  VoiceOpens = 20
  VoiceCloses = 38
  GLOBAL_DAILY_CAP = 50000000
  APPROVAL_THRESHOLD = 2500000
  Offsets = {11}
  MaxTime = 4
INVARIANT
  NoContactAtNight
CHECK_DEADLOCK FALSE
