SPECIFICATION FairSpec
CONSTANTS
    Workers = {w1, w2}
    Producers = {p1, p2}
    MaxQueueSize = 2
    MaxTasks = 6
INVARIANTS
    TypeOK
    NoLostNotify
PROPERTIES
    QueuedTaskStarts
    StopReturns
CHECK_DEADLOCK FALSE
