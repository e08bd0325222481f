SPECIFICATION Spec
CONSTANTS
  Products = {p1, p2}
  Stocks = {1, 3}
  MaxQuantity = 2
  MaxReservations = 3
INVARIANTS
  TypeOK
  HeldIsActive
  StockCoversHolds
  StockIsConserved
PROPERTIES
  AbandonedHoldsEnd
CHECK_DEADLOCK FALSE
