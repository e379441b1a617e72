SPECIFICATION FairSpec
CONSTANTS
    MaxPresses = 3
    MaxBounce = 1
CHECK_DEADLOCK FALSE
INVARIANTS
    DebounceMasksPin
    NeverLeftDeaf
    OneCallPerBurst
    OnlyDebounceOutlives
    DropFollowsCall
    OneCallPerPress
PROPERTY AlwaysListensAgain
