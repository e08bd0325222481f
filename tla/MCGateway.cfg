SPECIFICATION Spec
CONSTANTS
  Requests = {r1, r2, r3}
  Threshold = 5
  SuccessReq = 2
INVARIANTS
  TypeOK
PROPERTIES
  OpensOverHalfTheThreshold
  ImplementsBreaker
  ClosesAfterRecovery
