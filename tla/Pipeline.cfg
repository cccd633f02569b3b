\* Two sub-questions, two claims, two debate rounds.
SPECIFICATION FairSpec
CONSTANTS
  q1 = q1
  q2 = q2
  k1 = k1
  k2 = k2
  Questions <- TwoQuestions
  Claims <- TwoClaims
  MaxCalls = 12
  Slots = 2
  MaxRounds = 2
  Top = 2
  MinSupport = 2
  Fallback = 1
INVARIANTS
  TypeOK
  BudgetOvershoot
  SupportedIsSupported
  ClaimsAccounted
PROPERTIES
  CancelStops
  PipelineEnds
CHECK_DEADLOCK FALSE
