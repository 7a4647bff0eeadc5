SPECIFICATION Spec
CONSTANTS
    Producers = {p1}
    Consumers = {c1}
    Controllers = {u1}
    Packets = {k1, k2, k3, k4}
    MaxCacheFrame = 2
    NULL = NULL
SYMMETRY Symmetry
INVARIANT NoSelfDeadlock
CHECK_DEADLOCK FALSE
