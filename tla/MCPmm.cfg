SPECIFICATION Spec
CONSTANTS
    Size = 4
    IndexMod = 12
    PageCount = 4
CHECK_DEADLOCK FALSE
INVARIANTS
    TypeOK
    OnePlace
    NeverFull
PROPERTY RingIsPageSet
