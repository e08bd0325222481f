SPECIFICATION Spec
CONSTANTS
  Events = {e1, e2}
  Handlers = {h1, h2}
  Publishers = {p1, p2}
  MaxAttempts = 2
  MaxHist = 1
INVARIANTS
  TypeOK
  PublishedReachedAll
  EarlierHandlersFirst
  DeadLettersAreExhausted
PROPERTIES
  SettlesForGood
CHECK_DEADLOCK FALSE
