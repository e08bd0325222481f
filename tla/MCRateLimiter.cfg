SPECIFICATION Spec
CONSTANTS
  Requests = {r1, r2}
  Buckets = {b1, b2}
  Burst = 2
  Cost = 3
  IdleLimit = 6
  MaxWindow = 8
INVARIANTS
  TypeOK
  GrantsBounded
PROPERTIES
  NeverStarved
