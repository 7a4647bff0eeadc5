SPECIFICATION PullFairSpec
CONSTANTS
    MaxPackets = 3
    MaxCacheFrame = 1
    NULL = NULL
INVARIANTS
    ReceiverExists
    OnePlaceEach
    FreedPlayerIsQuiet
PROPERTIES
    PullIsLossyPipe
    StopIsResolved
CHECK_DEADLOCK FALSE
