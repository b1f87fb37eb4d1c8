SPECIFICATION Spec
CONSTANTS
    VGA_COLS = 2
    VGA_ROWS = 3
    Bytes <- MCBytes
    Programs <- MCPrograms
INVARIANT TypeOK
PROPERTY RollSpec
INVARIANT LightBackgroundsDarkText
CHECK_DEADLOCK FALSE
