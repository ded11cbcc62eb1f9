\* Liveness, one consumer, any two faults.
CONSTANTS
    w1 = w1  w2 = w2  h1 = h1  h2 = h2  u1 = u1
    Workers <- OneWorker
    Hubs <- OneHub
    Users <- OneUser
    MaxConsumers = 1
    MaxEvents = 2
    MaxFaults = 2
    Faults <- LiveFaults
SPECIFICATION FairSpec
CHECK_DEADLOCK FALSE
PROPERTIES
    EveryEventHandled
    StoredIsShown
