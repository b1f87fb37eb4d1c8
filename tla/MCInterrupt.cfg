SPECIFICATION FairSpec
CONSTANTS
    Vectors <- MCVectors
    Handlers <- MCHandlers
    MaxCalls = 6
INVARIANT TypeOK
INVARIANT HandlerRunsForItsVector
INVARIANT StackBalanced
INVARIANT FramePointerKept
INVARIANT TableServesItsVectors
PROPERTY InterruptsReturn
CHECK_DEADLOCK FALSE
