\* Two requests, three pairs of tokens, one request without a usable answer.
SPECIFICATION Spec
CONSTANTS
  Requests = {q1, q2}
  MaxPairs = 3
  MaxBroken = 1
SYMMETRY Symmetry
INVARIANTS
  TypeOK
  OneLiveToken
  ReplayKillsFamily
  SignOutComplete
  HeldIsLive
PROPERTY SignOutExplained
CHECK_DEADLOCK FALSE
