CONSTANTS
  v1 = v1
  NoRoot = NoRoot
  MaxLeaves = 8
  MaxPyLeaves = 5
  Element <- MCElement
  Hash <- MCHash
SPECIFICATION LockstepSpec
INVARIANTS
  SizeFormula
  PeaksSuffice
  NodesArePerfectTrees
  RootsBindLeaves
PROPERTY ImplementsAccumulator
CHECK_DEADLOCK FALSE
