SPECIFICATION Spec
CONSTANTS
  Charges = {c1}
  Refunds = {r1, r2}
  Keys = {ks}
  SerialKeys = {ks}
  NoKey = NoKey
  NoPayment = NoPayment
PROPERTIES
  RefundsOnlySucceeded
