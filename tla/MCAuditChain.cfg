SPECIFICATION Spec
CONSTANTS
  w1 = w1
  w2 = w2
  c1 = c1
  c2 = c2
  NULL = NULL
  Writers <- TwoWriters
  Cases <- TwoCases
  Id <- MCId
  Opened <- MCOpened
  MaxSeq = 6
INVARIANTS
  TypeOK
  ChainsIntact
  NoAppendCollides
PROPERTIES
  KeepsItsPromise
SYMMETRY WriterSymmetry
CHECK_DEADLOCK FALSE
