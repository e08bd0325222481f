SPECIFICATION Spec
CONSTANTS
  Charges = {c1, c2}
  Refunds = {}
  Keys = {kc}
  SerialKeys = {}
  NoKey = NoKey
  NoPayment = NoPayment
INVARIANTS
  NoDoubleCharge
