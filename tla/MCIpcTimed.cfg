SPECIFICATION Spec
CONSTANTS
    Tasks = {t1, t2}
    Size = 1
    IndexMod = 2
    NoTask = NoTask
    Notifiable = {t1, t2}
    WaitTimes = {"zero", "timed"}
SYMMETRY TaskSymmetry
CHECK_DEADLOCK FALSE
INVARIANTS
    NotifiedStaysAwake
