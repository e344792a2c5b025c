SPECIFICATION FairSpec
CONSTANTS
    Limits <- AllLimits
    RecCap = 1
    MaxOps = 2
    MaxEvents = 1
    Habits = {"CloseUnconnected"}
INVARIANTS
    
    LetGo
    ClosedOnce
    
PROPERTIES
    CloseAnswered
