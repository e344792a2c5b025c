SPECIFICATION FairSpec
CONSTANTS
    Addr = {a1}
    Plugin = {p1}
    Client = {c1, c2}
    NULL = NULL
    MaxId = 2
    RetryLimits <- UnlimitedOrTwo
    RetryCap = 2
    CallbackOps = {}
INVARIANTS
    StatsExact
    CallbackAtMostOnce
    ClientIndexExact

    
