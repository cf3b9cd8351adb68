SPECIFICATION Spec
CONSTANTS
  e1 = e1
  e2 = e2
  h1 = h1
  h2 = h2
  Events <- MCEvents
  Handlers <- MCHandlers
  RetryDays = 1
  TtlDays = 1
  MaxTries = 3
  Faults <- AllFaults
INVARIANTS
  TypeOK
  HandledAtMostOnce
  OnlyRiskedAreLost
