CONSTANTS
  MaxBits = 7
  TableBits = 8
  Sizes <- MCSizes
SPECIFICATION PositionsSpec
INVARIANTS
  TypeOK
  VerdictCorrect
  ReferenceCheckersAgree
  PeelNeverStuck
  HeightCorrect
  PeaksAgree
  PeaksTile
  DescentKeepsHeight
PROPERTY EveryCallReturns
CHECK_DEADLOCK FALSE
