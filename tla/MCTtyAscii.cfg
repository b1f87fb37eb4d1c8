SPECIFICATION Spec
CONSTANTS
    VGA_COLS = 80
    VGA_ROWS = 25
    Bytes <- MCBytes
    Programs <- AsciiTableOnly
PROPERTY EntriesCarryColour
CHECK_DEADLOCK FALSE
