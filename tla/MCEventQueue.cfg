SPECIFICATION FairSpec
CONSTANTS
    Period = 10
    Rest = 5
    MaxHandle = 1
    QueueSize = 3
    MaxEvents = 30
CHECK_DEADLOCK FALSE
INVARIANTS
    EventsInOrder
    LostOnlyBehind
PROPERTIES
    EveryEventHandled
