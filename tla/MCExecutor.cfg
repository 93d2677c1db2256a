SPECIFICATION Spec
CONSTANTS
    MaxTasks = 4
    Delays = {0, 2, Never}
    Slice = 2
    Never = Never
    Drivers = {1}
    DeferAddresses = {2, 4097}
    HartId = 0
INVARIANTS
    TypeOK
    CurrentAddress
    ReservationsLead
    NoOversleep
PROPERTIES
    TurnComesCloser
    TurnsCome
