SPECIFICATION FairSpec
CONSTANTS
    Machines <- MCMachines
    Scancodes <- MCScancodes
    MaxNoise = 1
    InPolls = 2
    OutPolls = 2
INVARIANT TypeOK
INVARIANT CheckedReadIsFresh
INVARIANT RepliesFromPartyAsked
INVARIANT ReportMatchesMachine
INVARIANT Device1NeverFalselyOkay
INVARIANT AbsentControllerFails
INVARIANT IrqFollowsValidity
PROPERTY Termination
CHECK_DEADLOCK FALSE
