SPECIFICATION Spec
CONSTANTS
  Calls = {c1, c2, c3}
  Keys = {ks, kc}
  SerialKeys = {ks}
  NoKey = NoKey
  NoCall = NoCall
  MaxOutbox = 2
  MaxCancelled = 1
SYMMETRY CallSymmetry
INVARIANTS
  TypeOK
  ReplaysAgree
  OneOrderPerSerialKey
  OutcomeMatchesDownstream
  OutboxIsFaithful
PROPERTIES
  SettledOrderOnlyCancels
