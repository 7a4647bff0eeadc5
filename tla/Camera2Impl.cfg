SPECIFICATION CameraFairSpec
CONSTANTS
    MaxOpenings = 3
    NULL = NULL
INVARIANTS
    ClosedCameraIsQuiet
    
PROPERTIES
    CloseIsResolved
CHECK_DEADLOCK FALSE
