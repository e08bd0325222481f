SPECIFICATION Spec
CONSTANTS
  Notifs = {n1, n2}
  Loop = Loop
  Nobody = Nobody
  MaxAttempts = 5
INVARIANTS
  TypeOK
  NotDroppedNorRepeated
PROPERTIES
  SentOrStopped
