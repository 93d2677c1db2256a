SPECIFICATION Spec
CONSTANTS
    Tasks = {t1, t2}
    Sources = {1, 2}
    NoTask = NoTask
    Defers = FALSE
CHECK_DEADLOCK FALSE
PROPERTIES
    InterruptsAreServed
