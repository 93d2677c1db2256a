SPECIFICATION Spec
CONSTANTS
    Tasks = {t1, t2}
    Sources = {1, 2}
    NoTask = NoTask
    Defers = TRUE
CHECK_DEADLOCK FALSE
INVARIANTS
    TypeOK
    IrqHeldOnce
    NoLostNotification
