SPECIFICATION EncoderFairSpec
CONSTANTS
    Capacity = 2
    InputBuffers = 2
    OutputBuffers = 1
    MaxFrames = 5
    MaxSessions = 2
INVARIANTS
    CodecOutlivesItsUsers
    OnlyThisSession
    StoppedEncoderIsQuiet
PROPERTIES
    EncoderIsLossyPipe
    StopIsResolved
CHECK_DEADLOCK FALSE
