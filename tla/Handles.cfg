SPECIFICATION FairSpec
CONSTANTS
    M = 4
    Plugin = {p1, p2}
    NULL = NULL
INVARIANTS
    IndexExact
    ScanExact
PROPERTIES
    CreateReturns
    FullCycleBeforeReuse
    TableSpec
