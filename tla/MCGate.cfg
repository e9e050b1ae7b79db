SPECIFICATION Spec
CONSTANTS
  k1 = k1
  k2 = k2
  k3 = k3
  k4 = k4
  NULL = NULL
  Cases <- MCCases
  PlaybookOf <- MCPlaybookOf
  AtRisk <- MCAtRisk
  Facts <- MCFacts
  Words <- MCWords
  Ledgers <- MCLedgers
  OpenedAt <- MCOpenedAt
  LoadsContacts = TRUE
  MaxWords = 1
  MaxDelay = 1
  Day = 4
  Week = 6
  Opens = 1
  Closes = 3
  VoiceOpens = 2
  VoiceCloses = 3
  GLOBAL_DAILY_CAP = 100
  APPROVAL_THRESHOLD = 60
  Offsets = {0,3}
  MaxTime = 6
INVARIANTS
  TypeOK
  
  OnlyEmailAtNight
  ContactsHadConsent
  DeferredNoLongerThanNeeded
  BudgetCoversPlan
CHECK_DEADLOCK FALSE
