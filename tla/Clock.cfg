SPECIFICATION Spec
CONSTANTS
    SYNC_INTERVAL = 3
    SNAP_THRESHOLD = 2
    Ticks = {1, 2}
    Slews <- SlewsAndSteps
    MaxMono = 10
    MaxReal = 14
INVARIANTS
    NotHeldBack
PROPERTIES
    SyncAccurate
    MonotoneUnlessSnap
