SPECIFICATION ReplaySpec
CONSTANTS
  FastWindow = 1
  SlowWindow = 2
  TargetQuantity = 1
  Commission = 1
  Slippage = 1
  SellTax = 1
  RateUnit = 10
  EventFrom = 1
  None = None
  Instruments = {1}
  Datasets <- CorrectedDatasets
  EventTo = 4
  Lag <- NoLag
  InitialCapital = 300
INVARIANTS
  NoLookAhead
CHECK_DEADLOCK FALSE
