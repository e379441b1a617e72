SPECIFICATION FairSpec
CONSTANTS
    Period = 10
    Rest = 5
    MaxHandle = 0
    QueueSize = 10
    MaxEvents = 150
CHECK_DEADLOCK FALSE
INVARIANTS
    EveryEventQueued
