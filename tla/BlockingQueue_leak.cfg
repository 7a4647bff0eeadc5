SPECIFICATION Spec
CONSTANTS
    Producers = {p1}
    Consumers = {c1}
    Controllers = {u1}
    Packets = {k1, k2, k3}
    MaxCacheFrame = 4
    NULL = NULL
SYMMETRY Symmetry
INVARIANT NothingLeaks
CHECK_DEADLOCK FALSE
