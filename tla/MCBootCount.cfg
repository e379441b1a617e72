SPECIFICATION Spec
CONSTANTS
    Byte = 4
    Size = 11
    Pieces = {0, 1, 10}
    MaxBoots = 9
    MaxShort = 1
CHECK_DEADLOCK FALSE
INVARIANTS
    BootsCounted
    PatternWhole
    PatternFollowsCount
    NothingLeftOpen
