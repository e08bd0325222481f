SPECIFICATION Spec
CONSTANTS
  Callers = {c1, c2, c3}
  FailureThreshold = 5
  SuccessThreshold = 2
  Timeout = 3
  Wrap = 4
INVARIANTS
  TypeOK
  TotalsBalance
PROPERTIES
  TripsOnFailuresInARow
  ImplementsBreaker
  ClosesAfterRecovery

