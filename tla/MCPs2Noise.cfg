SPECIFICATION Spec
CONSTANTS
    Machines <- NoisyOnly
    Scancodes <- MCScancodes
    MaxNoise = 1
    InPolls = 2
    OutPolls = 2
INVARIANT Device1DoesNotInterfere
CHECK_DEADLOCK FALSE
