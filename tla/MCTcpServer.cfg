SPECIFICATION FairSpec
CONSTANTS
    N = 2
    Conns = {k1, k2}
    MaxFds = 2
    MaxBacklog = 1
INVARIANTS
    TypeOK
    LifecycleSafe
PROPERTIES
    ClosedIsReleased
    BacklogDrains
CHECK_DEADLOCK FALSE
