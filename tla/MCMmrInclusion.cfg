CONSTANTS
  v1 = v1
  v2 = v2
  NoRoot = NoRoot
  NoProof = NoProof
  MaxLeaves = 7
  Element <- MCElement
  Hash <- MCHash
SYMMETRY MCSymmetry
SPECIFICATION ProofSpec
INVARIANTS
  HeldProofVerifies
  StaleProofRefused
  SubtreePathReachesPeak
  CairoRootAgrees
PROPERTY ImplementsAccumulator
CHECK_DEADLOCK FALSE
