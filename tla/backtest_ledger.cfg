SPECIFICATION LedgerSpec
CONSTANTS
  FastWindow = 1
  SlowWindow = 2
  TargetQuantity = 1
  Commission = 1
  Slippage = 1
  SellTax = 1
  RateUnit = 10
  EventFrom = 1
  None = None
  Instruments = {1, 2}
  Datasets <- AnyDatasets
  EventTo = 5
  Lag <- MixedLag
  InitialCapital = 480
INVARIANTS
  TypeOK
  BooksBalance
  TimelyRunsAreRecorded
  LedgersTellOneStory
PROPERTIES
  LoopProgresses
CHECK_DEADLOCK FALSE
