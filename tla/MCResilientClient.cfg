SPECIFICATION ClientSpec
CONSTANTS
  Callers = {1, 2, 3}
  MaxAttempts = 2
  FailureThreshold = 2
  SuccessThreshold = 1
  Timeout = 0
  Wrap = 1
INVARIANTS
  ClientTypeOK
  RepliesTellEffects
PROPERTIES
  EverythingEnds
CHECK_DEADLOCK FALSE
