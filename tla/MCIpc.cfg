SPECIFICATION Spec
CONSTANTS
    Tasks = {t1, t2}
    Size = 2
    IndexMod = 4
    NoTask = NoTask
    Notifiable = {}
    WaitTimes = {}
SYMMETRY TaskSymmetry
CHECK_DEADLOCK FALSE
INVARIANTS
    TypeOK
    SlotConservation
    AssertionsHold
    HeldEntryStable
    DeferInRange
 
