\* Liveness: no symmetry.
CONSTANTS
    k1 = k1  k2 = k2  k3 = k3  s1 = s1  s2 = s2  a = a  b = b
    Conns <- TwoConns
    Sessions <- OneSession
    Chats <- OneChat
    MaxNotes = 2
    NoConn = NoConn  NoSession = NoSession  NoChat = NoChat
    Nobody = Nobody  Consumer = Consumer
SPECIFICATION FairSpec
CHECK_DEADLOCK FALSE
PROPERTIES
    EveryCallReturns
    EveryNoteIsFinished
