SPECIFICATION Spec
CONSTANTS
    Owner = owner
    Functors = {print, quitter}
    QuitFunctors = {quitter}
    Patient = TRUE
INVARIANTS
    TypeOK
    DestructorIsSafe
PROPERTIES
    StartLoopReturns
    DestructorReturns
CHECK_DEADLOCK FALSE
