\* Two chat-server processes on one queue.
CONSTANTS
    w1 = w1  w2 = w2  h1 = h1  h2 = h2  u1 = u1
    Workers <- TwoWorkers
    Hubs <- OneHub
    Users <- NoUsers
    MaxConsumers = 2
    MaxEvents = 3
    MaxFaults = 1
    Faults <- WorkerFaults
SPECIFICATION Spec
CHECK_DEADLOCK FALSE
PROPERTY ImplementsDelivery
SYMMETRY Symmetry
