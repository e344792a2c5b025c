SPECIFICATION PoolSpec
CONSTANTS
    KMinPool = 2
    MaxLive = 9
    MaxFail = 2
INVARIANTS
    IdleBound
    
