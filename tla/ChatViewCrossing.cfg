\* Two chats between which the page moves.
CONSTANTS
    c1 = c1  c2 = c2  c3 = c3
    Chats <- TwoChats
    NoChat = NoChat
    CacheSize = 1
    MaxMessages = 2
    MaxEdits = 1
    MaxMoves = 3
SPECIFICATION Spec
CHECK_DEADLOCK FALSE
INVARIANTS
    TypeOK
    ShowsTheChat
    ShowsOnlyTheChat
    UnreadIsMarked
    ShowsInOrder
SYMMETRY Symmetry
