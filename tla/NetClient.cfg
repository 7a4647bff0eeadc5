SPECIFICATION NetFairSpec
CONSTANTS
    MaxConnections = 2
INVARIANTS
    CalmClientIsSound
    CrashNeedsOverlap
    OwnCloseIsNotReported
PROPERTIES
    LossIsReported
    
CHECK_DEADLOCK FALSE
