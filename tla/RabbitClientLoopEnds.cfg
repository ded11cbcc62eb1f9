\* The comment on the reconnecting loop (rabbitmq.go:138-140).
CONSTANTS
    p1 = p1  c1 = c1  c2 = c2
    Publishers <- OnePublisher
    Consumers <- OneConsumer
    MaxConns = 4
SPECIFICATION Spec
CHECK_DEADLOCK FALSE
INVARIANT LoopEndsOnlyWhenClosed
