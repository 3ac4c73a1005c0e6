SPECIFICATION LiveSpec
CONSTANTS
    Workers = {w1, w2}
    RequestIds = {r1, r2}
    Symbols = {s1}
    Instruments = {i1}
    Dates = {11, 21}
    Months = {1, 2}
    None = None
    Values <- MCValues
    Resolution <- ClosedResolution
    MonthOf <- MCMonthOf
    Stored <- MCStored
    Replies <- SafetyReplies
    InitialSeries = {}
    InitialPartitions = {2}
    MaxClock = 0
    MaxFaults = 2
    MaxCrashes = 1
    ClockMayStepBack = FALSE
INVARIANTS
    TypeOK
    RevisionsPublished
    RevisionsWellNumbered
    RepliesStayTrue
PROPERTIES
    StartedBatchesEnd
    FinalBatchesAreFinal
    CommittedRowsAreNewest
    ImplementsBarHistory
