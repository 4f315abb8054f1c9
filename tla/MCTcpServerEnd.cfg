SPECIFICATION Spec
CONSTANTS
    N = 1
    Conns = {k1}
    MaxFds = 1
    MaxBacklog = 1
INVARIANT
    DestructedDisconnected
CHECK_DEADLOCK FALSE
