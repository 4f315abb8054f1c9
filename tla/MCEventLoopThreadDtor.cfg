SPECIFICATION Spec
CONSTANTS
    Owner = owner
    Functors = {print}
    QuitFunctors = {}
    Patient = FALSE
PROPERTIES
    DestructorReturns
CHECK_DEADLOCK FALSE
