SPECIFICATION PushFairSpec
CONSTANTS
    encoder = encoder
    worker = worker
    ui = ui
    Producers = {encoder}
    Consumers = {worker}
    Controllers = {ui}
    Packets = {k1, k2, k3}
    MaxCacheFrame = 1
    NULL = NULL
INVARIANTS
    SenderHasClient
    StopLeavesNothing
    WorkingMeansConnected
PROPERTIES
    DeadWorkerGetsNothing
    StopIsResolved
CHECK_DEADLOCK FALSE
