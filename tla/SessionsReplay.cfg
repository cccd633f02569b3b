\* Three requests, three pairs of tokens; every answer arrives.
SPECIFICATION Spec
CONSTANTS
  Requests = {q1, q2, q3}
  MaxPairs = 3
  MaxBroken = 0
SYMMETRY Symmetry
INVARIANT ReplayEndsFamily
CHECK_DEADLOCK FALSE
