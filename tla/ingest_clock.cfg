SPECIFICATION Spec
CONSTANTS
    Workers = {w1, w2}
    RequestIds = {r1, r2}
    Symbols = {"s1", "s2"}
    Instruments = {"i1", "i2"}
    Dates = {1, 11, 12, 21, 22, 31, 41}
    Months = {0, 1, 2, 3, 4}
    None = None
    Values <- MCValues
    Resolution <- ExchangedResolution
    MonthOf <- MCMonthOf
    Stored <- MCStored
    Replies <- ExchangedReplies
    InitialSeries = {}
    InitialPartitions = {1, 2, 3, 4}
    MaxClock = 1
    MaxFaults = 0
    MaxCrashes = 0
    ClockMayStepBack = TRUE
SYMMETRY WorkerSymmetry
INVARIANTS
    VerdictsAgree
    AvailabilityOrdered
    SortedLocksNeverDeadlock
