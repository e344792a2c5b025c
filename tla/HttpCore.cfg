SPECIFICATION Spec
CONSTANTS
    Addr = {a1, a2}
    Plugin = {p1}
    Client = {}
    NULL = NULL
    MaxId = 2
    RetryLimits = {1}
    RetryCap = 1
    CallbackOps = {}
SYMMETRY AddrSymmetry
INVARIANTS
    TypeOK
    OneHome
    NoDanglingPointer
    NoLostWakeup
    StopOrder

    
