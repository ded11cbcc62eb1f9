\* Two webapp readers and two chat-server writers of one chat.
CONSTANTS
    r1 = r1  r2 = r2  w1 = w1  w2 = w2
    Readers <- TwoReaders
    Writers <- TwoWriters
    Limit = 2
    MaxDocs = 4
    MaxUpdates = 2
    MaxFailures = 1
SPECIFICATION Spec
CHECK_DEADLOCK FALSE
INVARIANTS
    TypeOK
    CoherentUnlessDisturbed
    BoundedDuplication
SYMMETRY Symmetry
