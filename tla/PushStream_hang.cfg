SPECIFICATION PushFairSpec
CONSTANTS
    encoder = encoder
    worker = worker
    ui = ui
    Producers = {encoder}
    Consumers = {worker}
    Controllers = {ui}
    Packets = {k1, k2}
    MaxCacheFrame = 1
    NULL = NULL
PROPERTY
    JoinFinishes
CHECK_DEADLOCK FALSE
