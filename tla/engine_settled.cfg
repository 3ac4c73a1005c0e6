SPECIFICATION LedgerSpec
CONSTANTS
  FastWindow = 1
  SlowWindow = 2
  TargetQuantity = 1
  Commission = 1
  Slippage = 1
  SellTax = 1
  RateUnit = 10
  EventFrom = 1
  None = None
  Instruments = {1}
  Datasets <- BackfilledDatasets
  EventTo = 4
  Lag <- NoLag
  InitialCapital = 1000
INVARIANTS
  OrdersSettled
CHECK_DEADLOCK FALSE
