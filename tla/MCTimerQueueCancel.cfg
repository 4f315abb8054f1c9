SPECIFICATION Spec
CONSTANTS
    Addrs = {1, 2}
    Intervals = {0, 1}
    MaxTimers = 3
    MaxTime = 2
    MaxPending = 1
INVARIANTS
    CancelTakesEffect
