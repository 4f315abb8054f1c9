SPECIFICATION Spec
CONSTANTS
    Users = {u1}
    Closers = {"loop", u1}
    ServerStops = "orderly"
    HighWaterMark = 3
    Sizes = {2}
    MaxSends = 2
    MaxPending = 1
INVARIANTS
    TypeOK
    OutputInOrder
    WritesIffBuffered
    GracefulShutdown
    ClosesOnce
PROPERTIES
    ShutdownCompletes
    CloseCompletes
