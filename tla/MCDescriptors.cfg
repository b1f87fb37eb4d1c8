SPECIFICATION Spec
CONSTANTS
    Bases <- Words
    Limits <- Words
    Types <- MCTypes
    Flags <- MCFlags
    Offsets <- Words
    Selectors <- MCSelectors
    Levels <- MCLevels
    Gates <- MCGates
    MaxCalls = 1
INVARIANT SegmentsReadBack
INVARIANT GatesReadBack
INVARIANT FlatModel
