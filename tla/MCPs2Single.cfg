SPECIFICATION Spec
CONSTANTS
    Machines <- QuickSingleOnly
    Scancodes <- MCScancodes
    MaxNoise = 1
    InPolls = 2
    OutPolls = 2
INVARIANT MissingPort2IsNoticed
CHECK_DEADLOCK FALSE
