SPECIFICATION Spec
CONSTANTS
    Conns = {k1, k2, k3}
    InitRetryDelay = 2
    MaxRetryDelay = 5
    MaxConnects = 1
    MaxStops = 3
INVARIANTS
    TypeOK
    AssertionsHold
    SocketsOwned
    RetryChain
PROPERTIES
    StopSticks
CHECK_DEADLOCK FALSE
