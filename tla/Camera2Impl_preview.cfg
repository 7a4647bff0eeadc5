SPECIFICATION CameraFairSpec
CONSTANTS
    MaxOpenings = 1
    NULL = NULL
PROPERTY PreviewFollowsOpening
CHECK_DEADLOCK FALSE
