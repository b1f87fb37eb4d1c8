SPECIFICATION FairSpec
CONSTANTS
    Vectors <- LastVector
    Handlers <- MCHandlers
    MaxCalls = 2
INVARIANT VectorsFrom32AreServed
CHECK_DEADLOCK FALSE
