\* Two sub-questions, two claims and two calls; the ceiling of the budget.
SPECIFICATION Spec
CONSTANTS
  q1 = q1
  q2 = q2
  k1 = k1
  k2 = k2
  Questions <- TwoQuestions
  Claims <- TwoClaims
  MaxCalls = 2
  Slots = 2
  MaxRounds = 2
  Top = 2
  MinSupport = 2
  Fallback = 1
INVARIANT HardCeiling
CHECK_DEADLOCK FALSE
