SPECIFICATION FairSpec
CONSTANTS
    Callers = {c1, c2}
    Functors = {f1, f2, f3}
INVARIANTS
    TypeOK
    NoLostWakeup
PROPERTIES
    RefinesFunctorQueue
    QueuedRuns
    QuitEndsLoop
