\* One publisher, two consumers, up to three losses: recovery and liveness.
CONSTANTS
    p1 = p1  c1 = c1  c2 = c2
    Publishers <- OnePublisher
    Consumers <- TwoConsumers
    MaxConns = 4
SPECIFICATION FairSpec
CHECK_DEADLOCK FALSE
INVARIANTS
    TypeOK
    LoopEndsOnlyWhenClosedOrUnwatched
    RecoveredOnCurrentConnection
    OneGoroutinePerConnection
PROPERTY LostIsRecovered
