\* Two connections of one or two sessions, two chats.
CONSTANTS
    k1 = k1  k2 = k2  k3 = k3  s1 = s1  s2 = s2  a = a  b = b
    Conns <- TwoConns
    Sessions <- TwoSessions
    Chats <- TwoChats
    MaxNotes = 2
    NoConn = NoConn  NoSession = NoSession  NoChat = NoChat
    Nobody = Nobody  Consumer = Consumer
SPECIFICATION Spec
CHECK_DEADLOCK FALSE
INVARIANTS
    TypeOK
    ConnectedIsCurrent
    ConnectedIsLive
    HearsTheChatItShows
    HearsOfEveryChatItFound
    NoCircularWait
SYMMETRY Symmetry
