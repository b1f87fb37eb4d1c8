SPECIFICATION FairSpec
CONSTANTS
    Character <- MCCharacter
    IntBits = 8
    ShortBits = 6
    CharBits = 4
    LongLongBits = 16
    PRINTF_NTOA_BUFFER_SIZE = 8
    Calls <- MCCalls
INVARIANT TypeOK
INVARIANT CountRespected
INVARIANT TextAsAsked
INVARIANT ReadsInsideFormat
PROPERTY Termination
CHECK_DEADLOCK FALSE
