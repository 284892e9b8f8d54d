CONSTANTS
  Branching = 4
  HashLen = 2
  ShortMax = 7
  LengthBase = 12
  HalfBytes = 3
  WordBytes = 2
  HashHead <- MCHashHead
  HashTail <- MCHashTail
  Contents <- MCContents
  Keys <- MCKeys
  Proofs <- MCProofs
SPECIFICATION Spec
INVARIANTS
  ResultCorrect
  NodeOnKeyPath
PROPERTY PresentKeyAnswered
CHECK_DEADLOCK FALSE
