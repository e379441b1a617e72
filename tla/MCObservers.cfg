SPECIFICATION FairSpec
CONSTANTS
    Last = 5
    Pauses <- MCPauses
    ListenerQueue = 5
    SubQueue = 1
    Pool = 5
CHECK_DEADLOCK FALSE
INVARIANTS
    CopiesComplete
    NoChangeMissed
PROPERTIES
    ShownInOrder
    SubscriberCatchesUp
