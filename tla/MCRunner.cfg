CONSTANTS
  Paths = {p1, p2, p3}
  NoPath = NoPath
  Requests <- MCRequests
SYMMETRY MCSymmetry
SPECIFICATION RunnerSpec
INVARIANTS
  SuccessIsComplete
  FailedProgramWritesNothing
  PrivateInputNamesWholeFiles
  AcceptedArgsSuffice
CHECK_DEADLOCK FALSE
