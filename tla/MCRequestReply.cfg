SPECIFICATION FairSpec
CONSTANTS
    Clients = {c1, c2}
    Modules = {m1, m2}
    c1 = c1
    c2 = c2
    m1 = m1
    m2 = m2
    InboxSize = 3
    RepliesSize = 2
    MaxRequests = 2
    Patient = {c1}
CHECK_DEADLOCK FALSE
INVARIANTS
    RepliesRouted
    RepliesInOrder
    RepliesMatchRequests
    TextAlive
    NoRequestLost
PROPERTY IsSurvey
