CONSTANTS
  n1 = n1
  n2 = n2
  Names <- MCNames
  MaxAttempts = 2
  MaxOutbox = 1
  Overlap = FALSE
  Prints = {1}
SPECIFICATION Spec
INVARIANTS NoFalseReport LiveIsManaged NoSilentFailure StopReachesProcess
SYMMETRY NameSymmetry
CHECK_DEADLOCK FALSE
