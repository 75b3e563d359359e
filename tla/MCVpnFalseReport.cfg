CONSTANTS
  n1 = n1
  n2 = n2
  Names <- OneName
  MaxAttempts = 2
  MaxOutbox = 2
  Overlap = TRUE
  Prints = {}
SPECIFICATION Spec
INVARIANT NoFalseReport
CHECK_DEADLOCK FALSE
