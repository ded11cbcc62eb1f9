\* One consumer, two webapps, no goroutine left over from a lost connection.
CONSTANTS
    w1 = w1  w2 = w2  h1 = h1  h2 = h2  u1 = u1
    Workers <- OneWorker
    Hubs <- TwoHubs
    Users <- OneUser
    MaxConsumers = 1
    MaxEvents = 3
    MaxFaults = 2
    Faults <- OrderlyFaults
SPECIFICATION Spec
CHECK_DEADLOCK FALSE
INVARIANTS
    ShownIsCurrent
    ChatKnownBeforeItsMessages
SYMMETRY Symmetry
