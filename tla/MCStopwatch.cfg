SPECIFICATION Spec
CONSTANTS
    TicksPerSec = 4
    MicrosPerSec = 10
    MicrosPerMilli = 4
    MaxTicks = 7
    MaxPauses = 3
CHECK_DEADLOCK FALSE
INVARIANT WithinOneMilli
