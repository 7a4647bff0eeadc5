SPECIFICATION LogFairSpec
CONSTANTS
    MaxFiles = 2
    MaxLength = 1
    MaxStarts = 2
    MaxTime = 4
INVARIANTS
    LogTypeOK
    DirectoryIsBounded
    RequestIsHonoured
PROPERTIES
    
    StopIsResolved
CHECK_DEADLOCK FALSE
