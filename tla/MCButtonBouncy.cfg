SPECIFICATION Spec
CONSTANTS
    MaxPresses = 2
    MaxBounce = 1
CHECK_DEADLOCK FALSE
INVARIANT AtMostOneCallPerPress
