SPECIFICATION Spec
CONSTANTS
    MaxTasks = 3
    Delays = {0, 2, Never}
    Slice = 2
    Never = Never
    Drivers = {1}
    DeferAddresses = {2}
    HartId = 0
PROPERTY NoStarvationOnceQuiet
