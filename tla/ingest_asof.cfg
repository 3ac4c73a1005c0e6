SPECIFICATION Spec
CONSTANTS
    Workers = {w1, w2}
    RequestIds = {r1, r2}
    Symbols = {s1}
    Instruments = {i1}
    Dates = {11}
    Months = {1}
    None = None
    Values <- MCValues
    Resolution <- ClosedResolution
    MonthOf <- MCMonthOf
    Stored <- MCStored
    Replies <- CorrectionReplies
    InitialSeries = {}
    InitialPartitions = {1}
    MaxClock = 2
    MaxFaults = 0
    MaxCrashes = 0
    ClockMayStepBack = FALSE
SYMMETRY WorkerSymmetry
INVARIANTS
    AsOfReturnsNewestRevision
