\* One consumer at a time, any fault of the worker.
CONSTANTS
    w1 = w1  w2 = w2  h1 = h1  h2 = h2  u1 = u1
    Workers <- TwoWorkers
    Hubs <- OneHub
    Users <- OneUser
    MaxConsumers = 1
    MaxEvents = 2
    MaxFaults = 3
    Faults <- WorkerFaults
SPECIFICATION Spec
CHECK_DEADLOCK FALSE
INVARIANTS
    TypeOK
    NothingLost
    SavedOnceUnlessRedelivered
PROPERTY InOrderUnlessRedelivered
SYMMETRY Symmetry
