SPECIFICATION FairSpec
CONSTANTS
    Workers = {w1, w2, w3}
    Manager = manager
    Capacities = {0, 2, 3}
    MaxUses = 2
    MaxResizes = 2
INVARIANT
    NoWakeupIsLost
PROPERTIES
    SemaphoreSpec
    EveryoneIsServed
CHECK_DEADLOCK FALSE
