SPECIFICATION Spec
CONSTANTS
  Charges = {1, 2, 3}
  Refunds = {4, 5}
  Keys = {1, 2}
  SerialKeys = {1}
  NoKey = 0
  NoPayment = 0
CONSTRAINT Numbered
INVARIANTS
  TypeOK
  StatusTellsMoney
PROPERTIES
  ImplementsPromise
  EveryPaymentSettles
