CONSTANTS
  Shift = 4
  NibbleBase = 2
  HalfBytes = 4
  WordBytes = 4
  Prime = 67
  RcBound = 10
  Halves <- MCHalves
  Numbers <- MCNumbers
  MaxArrayBytes = 21
SPECIFICATION HintedSpec
INVARIANT NeverPadded
CHECK_DEADLOCK FALSE
