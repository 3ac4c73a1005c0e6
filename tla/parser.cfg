SPECIFICATION Spec
CONSTANTS
    Bad = Bad
    Symbol <- MCSymbol
    Rows <- MCRows
    MaxRows = 3
    MaxPrice = 2
CHECK_DEADLOCK FALSE
INVARIANTS
    OrderAndRepetitionIgnored
    CandidatesPassTableChecks
