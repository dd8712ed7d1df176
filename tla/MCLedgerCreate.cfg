SPECIFICATION LedgerSpec
CONSTANTS
  Clients = {c1}
  MaxRows = 3
  MaxImport = 1
  Quantities = {1}
  Dates = {1, 2}
  BuyEnabled = TRUE
INVARIANTS LedgerConsistent
CHECK_DEADLOCK FALSE
