\* Two uploads of every kind, one second and the next.  Liveness: no symmetry.
CONSTANTS
    r1 = r1  r2 = r2
    Requests <- MCTwo
    Kinds <- MCAllKinds
    MaxTime = 2
    MaxFaults = 2
SPECIFICATION FairSpec
CHECK_DEADLOCK FALSE
INVARIANTS
    TypeOK
    NamesAreDistinct
    AnswerIsTrue
PROPERTIES
    EveryUploadReturns
    EveryPumpEnds
