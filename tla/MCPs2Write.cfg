SPECIFICATION Spec
CONSTANTS
    Machines <- QemuOnly
    Scancodes <- MCScancodes
    MaxNoise = 1
    InPolls = 2
    OutPolls = 2
INVARIANT WritesWaitForInputReady
CHECK_DEADLOCK FALSE
