------------------------------ MODULE ChatView ------------------------------
(***************************************************************************)
(* What a page shows.  Two goroutines of a webapp write to the page's      *)
(* websocket: the handler, which answers a changeChat with the window of   *)
(* the chat, and the consumer, which sends a fragment for each             *)
(* notification.  The handler registers the client in the chat, reads the  *)
(* messages and sends the window in three steps; changes that are stored   *)
(* and announced meanwhile cross it.                                       *)
(*                                                                         *)
(* Registry and locks are in Hub: here the client is in one chat at a time *)
(* and a write is one frame.  GetMessages returns what MongoDB holds, in   *)
(* the order of insertion (the aggregation asks for no order), or a list   *)
(* of the cache.  How that comes to be cut off, stale or doubled is        *)
(* MessageStore's: here it may be any list of messages of the chat.  One   *)
(* chat-server handles the events one after another (ChatServer).          *)
(***************************************************************************)
EXTENDS Naturals, Sequences, FiniteSets

CONSTANTS
    Chats,
    NoChat,       \* no chat: the page before its first window
    CacheSize,    \* entries that LRANGE reads of a chat's list: 100
    MaxMessages,  \* bound: messages posted
    MaxEdits,     \* bound: changes of a message
    MaxMoves      \* bound: changeChat messages of the page

ASSUME ViewAssumption ==
    /\ NoChat \notin Chats
    /\ CacheSize \in Nat
    /\ MaxMessages \in Nat /\ MaxEdits \in Nat /\ MaxMoves \in Nat

VARIABLES
    docs,     \* docs[m]: chat and version of message m, in insertion order
    inbox,    \* notes of the stored changes the webapp has not handled, in order
    pending,  \* the last of them is not announced yet: the others are queued
    pc,       \* the handler: reading, get, send
    current,  \* ClientMeta.CurrentChat: the chat the client is connected to
    prev,     \* the chat it was connected to before
    msgs,     \* what GetMessages returned
    wire,     \* frames written to the websocket and not yet swapped in
    page,     \* chat: the chat of the window; list: its messages, in order
    marks,    \* marks[c]: status of c in the chat list: "", active, newMessage
    moves,    \* number of changeChat messages so far
    crossed,  \* history: messages with a change on its way while the window was,
              \* or that the cache gave otherwise than stored
    failed,   \* history: the last changeChat ended without a window
    unread    \* history: chats a notification marked since the client left them

handlerVars == <<pc, current, prev, msgs>>
pageVars == <<page, marks>>
history == <<crossed, failed, unread>>
vars == <<docs, inbox, pending, handlerVars, wire, pageVars, moves, history>>

Ids == 1..MaxMessages
Doc == [chat : Chats, version : 0..MaxEdits]
Item == [msg : Ids, version : 0..MaxEdits]
Note == [type : {"new", "update"}, chat : Chats, item : Item]
Frame == [type : {"window", "append", "swap", "mark"}, chat : Chats,
          prev : Chats \cup {NoChat}, list : Seq(Item)]

Init ==
    /\ docs = <<>> /\ inbox = <<>> /\ pending = FALSE
    /\ pc = "reading" /\ current = NoChat /\ prev = NoChat /\ msgs = <<>>
    /\ wire = <<>>
    /\ page = [chat |-> NoChat, list |-> <<>>]
    /\ marks = [c \in Chats |-> ""]
    /\ moves = 0
    /\ crossed = {} /\ failed = FALSE /\ unread = {}

\* The stored message m as it is shown.
Shown(m) == [msg |-> m, version |-> docs[m].version]

-----------------------------------------------------------------------------
(* A chat-server stores a change; then it announces it.                    *)

Record(type, c, item) ==
    /\ ~ pending /\ pending' = TRUE
    /\ inbox' = Append(inbox, [type |-> type, chat |-> c, item |-> item])
    /\ crossed' = IF pc = "send" /\ c = current THEN crossed \cup {item.msg} ELSE crossed
    /\ UNCHANGED <<handlerVars, wire, pageVars, moves, failed, unread>>

MutantStoreMessage(c) ==
    /\ Len(docs) < MaxMessages
    /\ docs' = Append(docs, [chat |-> c, version |-> 0])
    /\ Record("new", c, [msg |-> Len(docs), version |-> 0])

StoreMessage(c) ==
    /\ Len(docs) < MaxMessages
    /\ docs' = Append(docs, [chat |-> c, version |-> 0])
    /\ Record("new", c, [msg |-> Len(docs) + 1, version |-> 0])

StoreChange(m) ==
    /\ docs[m].version < MaxEdits
    /\ docs' = [docs EXCEPT ![m].version = @ + 1]
    /\ Record("update", docs[m].chat, [msg |-> m, version |-> docs[m].version + 1])

Broadcast ==
    /\ pending /\ pending' = FALSE
    /\ UNCHANGED <<docs, inbox, handlerVars, wire, pageVars, moves, history>>

-----------------------------------------------------------------------------
(* The handler: changeChat.                                                *)

\* From here on the consumer writes c's messages to this page.
ConnectClient(c) ==
    /\ pc = "reading" /\ moves < MaxMoves
    /\ pc' = "get" /\ moves' = moves + 1
    /\ prev' = current /\ current' = c
    /\ unread' = unread \ {c}
    /\ UNCHANGED <<docs, inbox, pending, msgs, wire, pageVars, crossed, failed>>

MutantStored(c) ==
    LET ids == {m \in DOMAIN docs : docs[m].chat = c}
        Nth(i) == CHOOSE m \in ids : Cardinality({k \in ids : k >= m}) = i
    IN  [i \in 1..Cardinality(ids) |-> Shown(Nth(i))]

\* The messages of c in the order they were inserted.
Stored(c) ==
    LET ids == {m \in DOMAIN docs : docs[m].chat = c}
        Nth(i) == CHOOSE m \in ids : Cardinality({k \in ids : k <= m}) = i
    IN  [i \in 1..Cardinality(ids) |-> Shown(Nth(i))]

\* Lists that the cache can have of c, without what happened to it.
Cached(c) ==
    LET ids == {m \in DOMAIN docs : docs[m].chat = c}
        items == {x \in Item : x.msg \in ids /\ x.version <= docs[x.msg].version}
    IN  UNION {[1..n -> items] : n \in 1..CacheSize}

\* The list has m once, as it is stored, and in its place.
Given(list, m) ==
    \E i \in DOMAIN list :
        /\ list[i] = Shown(m)
        /\ \A j \in DOMAIN list : /\ j < i => list[j].msg < m
                                  /\ i < j => m < list[j].msg

\* Messages of the current chat with a change that was stored and is on its way.
UnderWay == {inbox[i].item.msg : i \in {j \in DOMAIN inbox : inbox[j].chat = current}}

Read(list, unsure) ==
    /\ pc = "get" /\ pc' = "send"
    /\ msgs' = list /\ crossed' = UnderWay \cup unsure
    /\ UNCHANGED <<docs, inbox, pending, current, prev, wire, pageVars, moves, failed,
                   unread>>

GetMessages ==
    \/ Read(Stored(current), {})
    \/ \E list \in Cached(current) :
          Read(list, {m \in DOMAIN docs : docs[m].chat = current /\ ~ Given(list, m)})

\* The client stays registered in the chat whose window it does not get.
GetMessagesFails ==
    /\ pc = "get" /\ pc' = "reading"
    /\ failed' = TRUE
    /\ UNCHANGED <<docs, inbox, pending, current, prev, msgs, wire, pageVars, moves,
                   crossed, unread>>

\* Window, the new chat's item and the old chat's item go out as one frame.
Send ==
    /\ pc = "send" /\ pc' = "reading"
    /\ wire' = Append(wire, [type |-> "window", chat |-> current, prev |-> prev,
                             list |-> msgs])
    /\ failed' = FALSE /\ msgs' = <<>>
    /\ UNCHANGED <<docs, inbox, pending, current, prev, pageVars, moves, crossed, unread>>

-----------------------------------------------------------------------------
(* The consumer: HttpClient.HandleEvent of this page.                      *)

\* A connected client gets the message, another one the chat's list item.
Fragment(n) ==
    [type |-> IF n.chat # current THEN "mark"
              ELSE IF n.type = "new" THEN "append" ELSE "swap",
     chat |-> n.chat, prev |-> NoChat, list |-> <<n.item>>]

HandleEvent ==
    /\ inbox # <<>> /\ (pending => Len(inbox) > 1)
    /\ LET n == Head(inbox) IN
        /\ wire' = Append(wire, Fragment(n))
        /\ unread' = IF n.chat = current \/ (pc # "reading" /\ n.chat = prev)
                     THEN unread ELSE unread \cup {n.chat}
    /\ inbox' = Tail(inbox)
    /\ UNCHANGED <<docs, pending, handlerVars, pageVars, moves, crossed, failed>>

-----------------------------------------------------------------------------
(* The page: htmx swaps a frame in.                                        *)

NextFrame(type) ==
    /\ wire # <<>> /\ Head(wire).type = type
    /\ wire' = Tail(wire)
    /\ UNCHANGED <<docs, inbox, pending, handlerVars, moves, history>>

MutantSwapWindow ==
    /\ NextFrame("window")
    /\ LET f == Head(wire) IN
        /\ page' = [chat |-> f.chat, list |-> page.list \o f.list]
        /\ marks' = [c \in Chats |-> IF c = f.prev THEN "" ELSE
                                     IF c = f.chat THEN "active" ELSE marks[c]]

\* #chat-window is replaced; the old chat's item is swapped in last.
SwapWindow ==
    /\ NextFrame("window")
    /\ LET f == Head(wire) IN
        /\ page' = [chat |-> f.chat, list |-> f.list]
        /\ marks' = [c \in Chats |-> IF c = f.prev THEN "" ELSE
                                     IF c = f.chat THEN "active" ELSE marks[c]]

\* beforeend of #msgs-list, which a page without a window does not have.
AppendMessage ==
    /\ NextFrame("append")
    /\ page' = IF page.chat = NoChat THEN page
               ELSE [page EXCEPT !.list = @ \o Head(wire).list]
    /\ UNCHANGED marks

\* As if the message were rendered without hx-swap-oob.
MutantSwapMessage ==
    /\ NextFrame("swap")
    /\ UNCHANGED pageVars

\* Elements of that id are replaced, none is made.
SwapMessage ==
    /\ NextFrame("swap")
    /\ LET new == Head(wire).list[1] IN
        page' = [page EXCEPT !.list =
                   [i \in DOMAIN @ |-> IF @[i].msg = new.msg THEN new ELSE @[i]]]
    /\ UNCHANGED marks

MutantMarkChat ==
    /\ NextFrame("mark")
    /\ marks' = [marks EXCEPT ![Head(wire).chat] =
                   IF Head(wire).list[1].version = 0 THEN "newMessage" ELSE @]
    /\ UNCHANGED page

MarkChat ==
    /\ NextFrame("mark")
    /\ marks' = [marks EXCEPT ![Head(wire).chat] = "newMessage"]
    /\ UNCHANGED page

-----------------------------------------------------------------------------
Next ==
    \/ \E c \in Chats : StoreMessage(c) \/ ConnectClient(c)
    \/ \E m \in DOMAIN docs : StoreChange(m)
    \/ Broadcast
    \/ GetMessages \/ GetMessagesFails \/ Send
    \/ HandleEvent
    \/ SwapWindow \/ AppendMessage \/ SwapMessage \/ MarkChat

Spec == Init /\ [][Next]_vars

-----------------------------------------------------------------------------
(* Properties.                                                             *)

\* Every variable has its type.
TypeOK ==
    /\ docs \in Seq(Doc)
    /\ inbox \in Seq(Note) /\ pending \in BOOLEAN
    /\ pc \in {"reading", "get", "send"}
    /\ current \in Chats \cup {NoChat} /\ prev \in Chats \cup {NoChat}
    /\ msgs \in Seq(Item) /\ wire \in Seq(Frame)
    /\ page \in [chat : Chats \cup {NoChat}, list : Seq(Item)]
    /\ marks \in [Chats -> {"", "active", "newMessage"}]
    /\ moves \in Nat
    /\ crossed \subseteq Ids /\ failed \in BOOLEAN /\ unread \subseteq Chats

\* The handler waits for the page, and the page has swapped in all it was sent.
Settled == pc = "reading" /\ wire = <<>> /\ ~ failed

\* A page shows every message of its chat once, as MongoDB holds it, when all
\* was announced and delivered: unless a change of the message was stored and not
\* yet delivered while the window lay between GetMessages (handlers.go:230) and
\* Send, or the window came from the cache and that did not give the message as
\* stored: of a longer chat it has the first CacheSize entries (cache.go:97), and
\* it can be stale or doubled.  Such a message can be missing, be there twice or
\* be out of date; the others of the same window are as stored all the same, and
\* so is what is posted later.
ShowsTheChat ==
    Settled /\ inbox = <<>> =>
        \A m \in DOMAIN docs \ crossed :
            docs[m].chat = page.chat =>
                \E i \in DOMAIN page.list :
                    /\ page.list[i] = Shown(m)
                    /\ \A j \in DOMAIN page.list : page.list[j].msg = m => j = i

\* They are in the order in which they were inserted, with the same exceptions,
\* whether a message came with the window or was appended since.
ShowsInOrder ==
    Settled => \A i, j \in DOMAIN page.list :
        i < j /\ {page.list[i].msg, page.list[j].msg} \cap crossed = {}
            => page.list[i].msg < page.list[j].msg

\* The list of a page holds no message of another chat, though every fragment
\* goes into "msgs-list", whichever chat's window that belongs to: what arrives
\* early is gone with the old window.
ShowsOnlyTheChat ==
    Settled => \A i \in DOMAIN page.list : docs[page.list[i].msg].chat = page.chat

\* A chat with news since the client left it is marked in the list once the page
\* has swapped in what it was sent, unless the news came before the window that
\* replaced it (handlers.go:239 takes the mark away).
UnreadIsMarked ==
    wire = <<>> => \A c \in unread : marks[c] = "newMessage"
=============================================================================
