SPECIFICATION LiveSpec
CONSTANTS
    Builders = {b1, b2}
    Codes = {"c1", "c2"}
    Specs = {"both", "strict"}
    Revisions <- MCRevisions
    None = None
    Components <- MCComponents
    InitialDirectories = {"c2"}
    FaultPlaces = {"insert", "components", "publish", "freeze", "cleanup", "mark_failed"}
    MaxFaults = 2
    MaxCrashes = 1
INVARIANTS
    TypeOK
    FrozenVerifies
    ConsistentCut
    NoHalfBuilds
    CodesAreClaimedOnce
PROPERTIES
    BuildsEnd
    EvidenceIsImmutable
