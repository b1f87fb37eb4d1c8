SPECIFICATION Spec
CONSTANTS
    Machines <- Stray
    Scancodes <- MCScancodes
    MaxNoise = 1
    InPolls = 2
    OutPolls = 2
INVARIANT OtherDeviceConnectsNothing
CHECK_DEADLOCK FALSE
