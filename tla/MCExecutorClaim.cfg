SPECIFICATION Spec
CONSTANTS
    MaxTasks = 3
    Delays = {0, 2, Never}
    Slice = 2
    Never = Never
    Drivers = {}
    DeferAddresses = {}
    HartId = 0
INVARIANT RunningTaskIsClaimed
