SPECIFICATION FairSpec
CONSTANTS
    Producers = {p1, p2}
    Consumers = {c1}
    Controllers = {u1}
    Packets = {k1, k2, k3}
    MaxCacheFrame = 1
    NULL = NULL
INVARIANTS
    NoDanglingNode
    CountedAreQueued
    NoSleepOnData
    
PROPERTIES
    InOrder
    OverflowIsFatal
    ImplementsLossyQueue
    HeadIsResolved
CHECK_DEADLOCK FALSE
