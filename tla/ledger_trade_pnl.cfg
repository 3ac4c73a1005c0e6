SPECIFICATION LedgerSpec
CONSTANTS
  FastWindow = 1
  SlowWindow = 2
  TargetQuantity = 1
  Commission = 1
  Slippage = 1
  SellTax = 1
  RateUnit = 10
  EventFrom = 1
  None = None
  Instruments = {1}
  Datasets <- DailyDatasets
  EventTo = 9
  Lag <- NoLag
  InitialCapital = 1000
INVARIANTS
  TradesExplainRealized
CHECK_DEADLOCK FALSE
