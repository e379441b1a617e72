SPECIFICATION FairSpec
CONSTANTS
    Clients = {c1, c2}
    c1 = c1
    c2 = c2
    Void = Void
    MaxMsgs = 5
    MaxCalls = 3
    MaxPrints = 1
    Hasty = {c2}
CHECK_DEADLOCK FALSE
INVARIANTS
    CallsLeftBehind
    NoCallLost
PROPERTIES
    ResultsInOrder
    IsRemoteCall
    EveryCallReturns
