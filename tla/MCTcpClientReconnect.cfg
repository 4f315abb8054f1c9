SPECIFICATION Spec
CONSTANTS
    Conns = {k1, k2, k3}
    InitRetryDelay = 2
    MaxRetryDelay = 5
    MaxConnects = 2
    MaxStops = 1
INVARIANTS
    AssertionsHold
CHECK_DEADLOCK FALSE
