SPECIFICATION FairSpec
CONSTANTS
    Timeout = 2
    MaxBeats = 3
    MaxStarts = 2
INVARIANTS
    OneBeatAtATime
    StoppedHeartbeatIsQuiet
PROPERTIES
    AnsweredBeatIsNotTimedOut
    SilenceIsReported
CHECK_DEADLOCK FALSE
