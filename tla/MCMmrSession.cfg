CONSTANTS
  v1 = v1
  v2 = v2
  NoRoot = NoRoot
  DefaultValue = DefaultValue
  MaxLeaves = 7
  Element <- MCElement
  Poseidon <- MCPoseidon
  Keccak <- MCKeccak
SPECIFICATION Spec
INVARIANTS
  RootsOfWholeMmr
  OnlyPeaksAreLookedUp
  RunExtendsLastRun
CHECK_DEADLOCK FALSE
