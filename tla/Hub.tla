--------------------------------- MODULE Hub ---------------------------------
(***************************************************************************)
(* The client registry of one webapp (internal/chat.go, Hub and Chat) and  *)
(* the goroutines that share it: one websocket handler per connection      *)
(* (handlers.go, Chatroom) and the goroutine that consumes notifications.  *)
(*                                                                         *)
(* A client is registered under the id of its session, so that two         *)
(* connections of one session (two tabs, a reloaded page) share an entry.  *)
(* The code's locks are taken in the order clientMetasMutex, chatsMutex,   *)
(* clientsMutex of a chat, connMux of a connection; each Lock is a step of *)
(* its own and what runs under the innermost lock is one step.             *)
(***************************************************************************)
EXTENDS Naturals, FiniteSets

CONSTANTS
    Conns,       \* websocket connections, one handler goroutine each
    Sessions,
    Chats,       \* chat ids that the database may hold
    MaxNotes,    \* bound: notifications consumed
    NoConn, NoSession, NoChat, Nobody, Consumer

Threads == Conns \cup {Consumer}

ASSUME NamesAssumption ==
    /\ NoConn \notin Conns /\ NoSession \notin Sessions /\ NoChat \notin Chats
    /\ Consumer \notin Conns /\ Nobody \notin Threads
    /\ MaxNotes \in Nat

VARIABLES
    known,          \* keys of Hub.chats
    connected,      \* connected[c][s]: Chat.connectedClients, NoConn when absent
    disconnected,   \* disconnected[c][s]: Chat.disconnectedClients
    metas,          \* metas[s]: Hub.clientMetas; client NoConn when absent
    metasLock,      \* holder of clientMetasMutex
    chatsLock,      \* holder of chatsMutex
    clientsLock,    \* clientsLock[c]: holder of c's clientsMutex
    connMux,        \* connMux[k]: holder of k's connMux
    pc,             \* pc[t]: where the goroutine is
    session,        \* session[k]: the session k belongs to
    target,         \* target[k]: the chatId ConnectClient was called with
    todo,           \* todo[k]: chats ConnectClient("") has still to visit
    shows,          \* shows[k]: the chat whose window k was sent last
    windowless,     \* history: connections whose last GetMessages failed
    found,          \* history: found[k], the chats the hub knew when k entered
    note,           \* the notification in hand
    audience,       \* connections the consumer has still to write to
    notes,          \* notifications consumed
    crashed,        \* the runtime has ended the process
    replaced        \* history: known chats whose entry a notification replaced

clients == <<connected, disconnected>>
registry == <<known, clients, metas>>
innerLocks == <<clientsLock, connMux>>
locks == <<metasLock, chatsLock, innerLocks>>
handlerVars == <<session, target, todo, shows, windowless, found>>
consumerVars == <<note, audience, notes>>
consumerSide == <<consumerVars, crashed, replaced>>  \* what a handler leaves alone
vars == <<registry, locks, pc, handlerVars, consumerSide>>

NoMeta == [client |-> NoConn, chat |-> NoChat]
NoNote == [type |-> "none", chat |-> NoChat]
Note == [type : {"none", "newChat", "message"}, chat : Chats \cup {NoChat}]

\* A goroutine goes on while the process lives.
Goto(t, l) == ~ crashed /\ pc' = [pc EXCEPT ![t] = l]

Init ==
    /\ known \in SUBSET Chats
    /\ connected = [c \in Chats |-> [s \in Sessions |-> NoConn]]
    /\ disconnected = [c \in Chats |-> [s \in Sessions |-> NoConn]]
    /\ metas = [s \in Sessions |-> NoMeta]
    /\ metasLock = Nobody /\ chatsLock = Nobody
    /\ clientsLock = [c \in Chats |-> Nobody]
    /\ connMux = [k \in Conns |-> Nobody]
    /\ pc = [t \in Threads |-> IF t = Consumer THEN "idle" ELSE "new"]
    /\ session = [k \in Conns |-> NoSession]
    /\ target = [k \in Conns |-> NoChat]
    /\ todo = [k \in Conns |-> {}]
    /\ shows = [k \in Conns |-> NoChat] /\ windowless = {}
    /\ found = [k \in Conns |-> {}]
    /\ note = NoNote /\ audience = {} /\ notes = 0
    /\ crashed = FALSE
    /\ replaced = {}

-----------------------------------------------------------------------------
(* Locks.                                                                  *)

LockMetas(t) == metasLock = Nobody /\ metasLock' = t
LockChats(t) == chatsLock = Nobody /\ chatsLock' = t
UnlockMetas == metasLock' = Nobody
UnlockChats == chatsLock' = Nobody

\* Chat.DisconnectClient and Chat.RemoveClient lock and unlock clientsMutex.
ClientsFree(c) == clientsLock[c] = Nobody

-----------------------------------------------------------------------------
(* Chatroom: a websocket handler.                                          *)

\* The upgrade is done; the handler calls ConnectClient("", client).
Open(k) ==
    /\ pc[k] = "new"
    /\ \E s \in Sessions : session' = [session EXCEPT ![k] = s]
    /\ target' = [target EXCEPT ![k] = NoChat]
    /\ Goto(k, "connect")
    /\ UNCHANGED <<registry, locks, todo, shows, windowless, found, consumerSide>>

\* A changeChat message names any chat id: the page may know a chat that this
\* webapp never heard of.
ChangeChat(k) ==
    /\ pc[k] = "reading"
    /\ \E c \in Chats : target' = [target EXCEPT ![k] = c]
    /\ windowless' = windowless \ {k}
    /\ Goto(k, "connect")
    /\ UNCHANGED <<registry, locks, session, todo, shows, found, consumerSide>>

\* ReadMessage fails, the websocket and its page are gone: the loop ends and
\* RemoveClient is called.
ReadFails(k) ==
    /\ pc[k] = "reading"
    /\ shows' = [shows EXCEPT ![k] = NoChat]
    /\ windowless' = windowless \ {k}
    /\ Goto(k, "remove")
    /\ UNCHANGED <<registry, locks, session, target, todo, found, consumerSide>>

-----------------------------------------------------------------------------
(* Hub.ConnectClient.                                                      *)

\* An existing entry keeps the client it was made with (chat.go:554).
ConnectClient(k) ==
    LET s == session[k] IN
    /\ pc[k] = "connect"
    /\ LockMetas(k)
    /\ metas' = IF metas[s].client = NoConn
                THEN [metas EXCEPT ![s] = [client |-> k, chat |-> NoChat]]
                ELSE metas
    /\ Goto(k, "leave")
    /\ UNCHANGED <<known, clients, chatsLock, innerLocks, handlerVars,
                   consumerSide>>

LockToLeave(k) ==
    /\ pc[k] = "leave"
    /\ LockChats(k)
    /\ Goto(k, "leaveChat")
    /\ UNCHANGED <<registry, metasLock, innerLocks, handlerVars, consumerSide>>

\* Chat.DisconnectClient of k's session.
MoveToDisconnected(k, c) ==
    /\ ClientsFree(c)
    /\ connected' = [connected EXCEPT ![c][session[k]] = NoConn]
    /\ disconnected' = [disconnected EXCEPT ![c][session[k]] = k]

MutantDisconnectClientFormChat(k) ==
    /\ pc[k] = "leaveChat"
    /\ UNCHANGED clients
    /\ UnlockChats
    /\ Goto(k, "readPrev")
    /\ UNCHANGED <<known, metas, metasLock, innerLocks, handlerVars,
                   consumerSide>>

DisconnectClientFormChat(k) ==
    LET c == metas[session[k]].chat IN
    /\ pc[k] = "leaveChat"
    /\ IF c \in known THEN MoveToDisconnected(k, c)
                      ELSE UNCHANGED clients
    /\ UnlockChats
    /\ Goto(k, "readPrev")
    /\ UNCHANGED <<known, metas, metasLock, innerLocks, handlerVars,
                   consumerSide>>

\* prevCht = self.chats[...] with chatsMutex not held: reading the map while the
\* consumer writes it ends the process.
ReadPrevChat(k) ==
    /\ pc[k] = "readPrev"
    /\ \/ Goto(k, "join") /\ UNCHANGED crashed
       \/ pc[Consumer] = "putChat" /\ crashed' = TRUE /\ UNCHANGED pc
    /\ UNCHANGED <<registry, locks, handlerVars, consumerVars, replaced>>

LockToJoin(k) ==
    /\ pc[k] = "join"
    /\ LockChats(k)
    /\ todo' = [todo EXCEPT ![k] = IF target[k] = NoChat THEN known ELSE {}]
    /\ found' = IF target[k] = NoChat THEN [found EXCEPT ![k] = known] ELSE found
    /\ Goto(k, "joinChat")
    /\ UNCHANGED <<registry, metasLock, innerLocks, session, target, shows,
                   windowless, consumerSide>>

MutantEnterAsDisconnected(k, c) ==
    /\ ~ crashed
    /\ pc[k] = "joinChat"
    /\ c \in todo[k]
    /\ ClientsFree(c)
    /\ connected' = [connected EXCEPT ![c][session[k]] = NoConn]
    /\ todo' = [todo EXCEPT ![k] = @ \ {c}]
    /\ UNCHANGED <<known, disconnected, metas, locks, pc, session, target, shows,
                   windowless, found, consumerSide>>

\* The initial connection enters every chat as a disconnected client.
EnterAsDisconnected(k, c) ==
    /\ ~ crashed
    /\ pc[k] = "joinChat"
    /\ c \in todo[k]
    /\ MoveToDisconnected(k, c)
    /\ todo' = [todo EXCEPT ![k] = @ \ {c}]
    /\ UNCHANGED <<known, metas, locks, pc, session, target, shows, windowless,
                   found, consumerSide>>

MutantJoinChat(k) ==
    LET c == target[k] s == session[k] IN
    /\ pc[k] = "joinChat" /\ c \in known /\ ClientsFree(c)
    /\ connected' = [connected EXCEPT ![c][s] = k]
    /\ disconnected' = [disconnected EXCEPT ![c][s] = NoConn]
    /\ UnlockChats /\ UnlockMetas
    /\ Goto(k, "view")
    /\ UNCHANGED <<known, metas, innerLocks, handlerVars, consumerSide>>

\* Chat.ConnectClient and the new CurrentChat.
JoinChat(k) ==
    LET c == target[k] s == session[k] IN
    /\ pc[k] = "joinChat" /\ c \in known /\ ClientsFree(c)
    /\ connected' = [connected EXCEPT ![c][s] = k]
    /\ disconnected' = [disconnected EXCEPT ![c][s] = NoConn]
    /\ metas' = [metas EXCEPT ![s].chat = c]
    /\ UnlockChats /\ UnlockMetas
    /\ Goto(k, "view")
    /\ UNCHANGED <<known, innerLocks, handlerVars, consumerSide>>

\* No such chat: the initial connection goes on to read; after a changeChat the
\* handler calls GetMessages on a nil chat, and the panic ends it without
\* RemoveClient (handlers.go:224-230, 249).
JoinNothing(k) ==
    /\ pc[k] = "joinChat" /\ todo[k] = {} /\ target[k] \notin known
    /\ UnlockChats /\ UnlockMetas
    /\ Goto(k, IF target[k] = NoChat THEN "reading" ELSE "panicked")
    /\ UNCHANGED <<registry, innerLocks, handlerVars, consumerSide>>

-----------------------------------------------------------------------------
(* The chat window: GetMessages and Send.                                  *)

\* GetMessages fails: the page keeps the window of the chat k has left.
ViewFails(k) ==
    /\ pc[k] = "view"
    /\ windowless' = windowless \cup {k}
    /\ Goto(k, "reading")
    /\ UNCHANGED <<registry, locks, session, target, todo, shows, found, consumerSide>>

LockToSend(k) ==
    /\ pc[k] = "view"
    /\ connMux[k] = Nobody
    /\ connMux' = [connMux EXCEPT ![k] = k]
    /\ Goto(k, "write")
    /\ UNCHANGED <<registry, metasLock, chatsLock, clientsLock, handlerVars,
                   consumerSide>>

Send(k) ==
    /\ pc[k] = "write"
    /\ connMux' = [connMux EXCEPT ![k] = Nobody]
    /\ shows' = [shows EXCEPT ![k] = target[k]]
    /\ Goto(k, "reading")
    /\ UNCHANGED <<registry, metasLock, chatsLock, clientsLock, session, target,
                   todo, windowless, found, consumerSide>>

-----------------------------------------------------------------------------
(* Hub.RemoveClient: by the id of the session.                             *)

RemoveClient(k) ==
    /\ pc[k] = "remove"
    /\ LockMetas(k)
    /\ Goto(k, "removeLocked")
    /\ UNCHANGED <<registry, chatsLock, innerLocks, handlerVars, consumerSide>>

LockToRemove(k) ==
    /\ pc[k] = "removeLocked"
    /\ LockChats(k)
    /\ Goto(k, "removeChat")
    /\ UNCHANGED <<registry, metasLock, innerLocks, handlerVars, consumerSide>>

MutantRemoveFromChat(k) ==
    LET s == session[k] c == metas[s].chat IN
    /\ pc[k] = "removeChat"
    /\ IF c \in known THEN /\ ClientsFree(c)
                           /\ disconnected' = [disconnected EXCEPT ![c][s] = NoConn]
                      ELSE UNCHANGED disconnected
    /\ metas' = [metas EXCEPT ![s] = NoMeta]
    /\ UnlockChats /\ UnlockMetas
    /\ Goto(k, "gone")
    /\ UNCHANGED <<known, connected, innerLocks, handlerVars, consumerSide>>

RemoveFromChat(k) ==
    LET s == session[k] c == metas[s].chat IN
    /\ pc[k] = "removeChat"
    /\ IF c \in known
       THEN /\ ClientsFree(c)
            /\ connected' = [connected EXCEPT ![c][s] = NoConn]
            /\ disconnected' = [disconnected EXCEPT ![c][s] = NoConn]
       ELSE UNCHANGED clients
    /\ metas' = [metas EXCEPT ![s] = NoMeta]
    /\ UnlockChats /\ UnlockMetas
    /\ Goto(k, "gone")
    /\ UNCHANGED <<known, innerLocks, handlerVars, consumerSide>>

-----------------------------------------------------------------------------
(* Hub.processRabbitmqMessage.                                             *)

Receive(type, c, l) ==
    /\ pc[Consumer] = "idle"
    /\ notes < MaxNotes
    /\ notes' = notes + 1
    /\ note' = [type |-> type, chat |-> c]
    /\ Goto(Consumer, l)
    /\ UNCHANGED <<registry, locks, handlerVars, audience, crashed, replaced>>

ReceiveNewChat(c) == Receive("newChat", c, "lockChats")
ReceiveMessage(c) == Receive("message", c, "getChat")

Done == /\ Goto(Consumer, "idle")
        /\ note' = NoNote

LockToPut ==
    /\ pc[Consumer] = "lockChats"
    /\ LockChats(Consumer)
    /\ Goto(Consumer, "putChat")
    /\ UNCHANGED <<registry, metasLock, innerLocks, handlerVars, consumerSide>>

MutantPutChat ==
    LET c == note.chat IN
    /\ pc[Consumer] = "putChat"
    /\ known' = known \cup {c}
    /\ replaced' = replaced \cup (known \cap {c})
    /\ connected' = [connected EXCEPT ![c] = [s \in Sessions |-> NoConn]]
    /\ disconnected' = [disconnected EXCEPT ![c] = [s \in Sessions |-> NoConn]]
    /\ Goto(Consumer, "lockMetas")
    /\ UNCHANGED <<metas, locks, handlerVars, consumerVars, crashed>>

\* A chat with no clients, even where the hub knew the chat already: it was
\* loaded from the store between its SaveChat and its announcement.
PutChat ==
    LET c == note.chat IN
    /\ pc[Consumer] = "putChat"
    /\ known' = known \cup {c}
    /\ replaced' = replaced \cup (known \cap {c})
    /\ connected' = [connected EXCEPT ![c] = [s \in Sessions |-> NoConn]]
    /\ disconnected' = [disconnected EXCEPT ![c] = [s \in Sessions |-> NoConn]]
    /\ UnlockChats
    /\ Goto(Consumer, "lockMetas")
    /\ UNCHANGED <<metas, metasLock, innerLocks, handlerVars, consumerVars,
                   crashed>>

MutantLockToAnnounce ==
    /\ pc[Consumer] = "lockMetas"
    /\ LockMetas(Consumer)
    /\ audience' = {metas[s].client : s \in Sessions}
    /\ Goto(Consumer, "deliver")
    /\ UNCHANGED <<registry, chatsLock, innerLocks, handlerVars, note, notes,
                   crashed, replaced>>

LockToAnnounce ==
    /\ pc[Consumer] = "lockMetas"
    /\ LockMetas(Consumer)
    /\ audience' = {metas[s].client : s \in Sessions} \ {NoConn}
    /\ Goto(Consumer, "deliver")
    /\ UNCHANGED <<registry, chatsLock, innerLocks, handlerVars, note, notes,
                   crashed, replaced>>

\* Hub.GetChat; a message of an unknown chat is ignored.
GetChat ==
    /\ pc[Consumer] = "getChat"
    /\ chatsLock = Nobody
    /\ IF note.chat \in known THEN Goto(Consumer, "broadcast") /\ UNCHANGED note
                              ELSE Done
    /\ UNCHANGED <<registry, locks, handlerVars, audience, notes, crashed,
                   replaced>>

\* Chat.Broadcast: connected and disconnected clients, one after the other.
Broadcast ==
    LET c == note.chat IN
    /\ pc[Consumer] = "broadcast"
    /\ ClientsFree(c)
    /\ clientsLock' = [clientsLock EXCEPT ![c] = Consumer]
    /\ audience' = ({connected[c][s] : s \in Sessions}
                     \cup {disconnected[c][s] : s \in Sessions}) \ {NoConn}
    /\ Goto(Consumer, "deliver")
    /\ UNCHANGED <<registry, metasLock, chatsLock, connMux, handlerVars, note,
                   notes, crashed, replaced>>

\* HandleEvent ends in Send, under the connection's connMux.
StartWrite(k) ==
    /\ pc[Consumer] = "deliver"
    /\ k \in audience
    /\ connMux[k] = Nobody
    /\ connMux' = [connMux EXCEPT ![k] = Consumer]
    /\ Goto(Consumer, "writing")
    /\ UNCHANGED <<registry, metasLock, chatsLock, clientsLock, handlerVars,
                   consumerSide>>

FinishWrite(k) ==
    /\ pc[Consumer] = "writing"
    /\ connMux[k] = Consumer
    /\ connMux' = [connMux EXCEPT ![k] = Nobody]
    /\ audience' = audience \ {k}
    /\ Goto(Consumer, "deliver")
    /\ UNCHANGED <<registry, metasLock, chatsLock, clientsLock, handlerVars, note,
                   notes, crashed, replaced>>

FinishDelivery ==
    /\ pc[Consumer] = "deliver" /\ audience = {}
    /\ IF note.type = "newChat"
       THEN UnlockMetas /\ UNCHANGED clientsLock
       ELSE clientsLock' = [clientsLock EXCEPT ![note.chat] = Nobody] /\ UNCHANGED metasLock
    /\ Done
    /\ UNCHANGED <<registry, chatsLock, connMux, handlerVars, audience, notes,
                   crashed, replaced>>

-----------------------------------------------------------------------------
ConnectStep(k) ==
    \/ LockToLeave(k) \/ DisconnectClientFormChat(k) \/ ReadPrevChat(k)
    \/ LockToJoin(k) \/ (\E c \in Chats : EnterAsDisconnected(k, c))
    \/ JoinChat(k) \/ JoinNothing(k)

SendStep(k) == LockToSend(k) \/ Send(k)

RemoveStep(k) == RemoveClient(k) \/ LockToRemove(k) \/ RemoveFromChat(k)

ConsumerStep ==
    \/ LockToPut \/ PutChat \/ LockToAnnounce
    \/ GetChat \/ Broadcast
    \/ (\E k \in Conns : StartWrite(k) \/ FinishWrite(k))
    \/ FinishDelivery

Next ==
    \/ \E k \in Conns : Open(k) \/ ChangeChat(k) \/ ReadFails(k)
    \/ \E k \in Conns : ConnectClient(k) \/ ConnectStep(k)
    \/ \E k \in Conns : ViewFails(k) \/ SendStep(k)
    \/ \E k \in Conns : RemoveStep(k)
    \/ \E c \in Chats : ReceiveNewChat(c) \/ ReceiveMessage(c)
    \/ ConsumerStep

Spec == Init /\ [][Next]_vars

HandlerStep(k) == ConnectClient(k) \/ ConnectStep(k) \/ SendStep(k) \/ RemoveStep(k)

\* sync.Mutex hands a lock to whoever has waited too long, so that a goroutine
\* waiting for one gets it in the end.  That a websocket write returns is an
\* assumption about the peers: Send sets no write deadline.
Fairness ==
    /\ \A k \in Conns : SF_vars(HandlerStep(k))
    /\ SF_vars(ConsumerStep)

FairSpec == Spec /\ Fairness

-----------------------------------------------------------------------------
(* Properties.                                                             *)

Labels == {"new", "connect", "leave", "leaveChat", "readPrev", "join", "joinChat",
           "view", "write", "reading", "remove", "removeLocked", "removeChat",
           "gone", "panicked", "idle", "lockChats", "putChat", "lockMetas",
           "deliver", "writing", "getChat", "broadcast"}

TypeOK ==
    /\ known \subseteq Chats
    /\ connected \in [Chats -> [Sessions -> Conns \cup {NoConn}]]
    /\ disconnected \in [Chats -> [Sessions -> Conns \cup {NoConn}]]
    /\ metas \in [Sessions -> [client : Conns \cup {NoConn}, chat : Chats \cup {NoChat}]]
    /\ metasLock \in Threads \cup {Nobody}
    /\ chatsLock \in Threads \cup {Nobody}
    /\ clientsLock \in [Chats -> {Consumer, Nobody}]
    /\ connMux \in [Conns -> Threads \cup {Nobody}]
    /\ pc \in [Threads -> Labels]
    /\ session \in [Conns -> Sessions \cup {NoSession}]
    /\ target \in [Conns -> Chats \cup {NoChat}]
    /\ todo \in [Conns -> SUBSET Chats]
    /\ shows \in [Conns -> Chats \cup {NoChat}]
    /\ windowless \subseteq Conns
    /\ found \in [Conns -> SUBSET Chats]
    /\ note \in Note
    /\ audience \subseteq Conns
    /\ notes \in Nat
    /\ crashed \in BOOLEAN
    /\ replaced \subseteq Chats

\* A session is a connected client of one chat at most, and that is the chat its
\* ClientMeta names: ConnectClient leaves the current chat before it joins
\* another, under locks that are not held throughout, and a client in two chats
\* would get the messages of both in one window.
ConnectedIsCurrent ==
    \A c \in Chats, s \in Sessions :
        connected[c][s] # NoConn => /\ metas[s].client # NoConn
                                    /\ metas[s].chat = c

\* A chat never keeps, among its connected clients, a connection whose handler
\* has ended, neither by RemoveClient (which removes by session, not by
\* connection) nor by the panic of a changeChat to an unknown chat.
ConnectedIsLive ==
    \A c \in Chats, s \in Sessions :
        connected[c][s] # NoConn => pc[connected[c][s]] \notin {"gone", "panicked"}

Alone(k) == \A j \in Conns : session[j] = session[k] => j = k

\* While a session has had this one connection only, the connection stays a
\* connected client of the chat it went to last, however the handler's two
\* critical sections and the announcements fall, so that it misses none of that
\* chat's messages; and that is the chat whose window it has.  Excepted is the
\* window, though not the place in the chat, of a connection whose last
\* GetMessages failed: it keeps the window of another chat (handlers.go:231-234),
\* to which the messages of this one are appended.  Excepted also are chats whose
\* entry an announcement replaced.  (With a second connection of the session a
\* page may hear nothing.)
HearsTheChatItShows ==
    \A k \in Conns :
        pc[k] = "reading" /\ Alone(k) /\ target[k] \notin replaced \cup {NoChat}
            => /\ connected[target[k]][session[k]] = k
               /\ metas[session[k]].chat = target[k]
               /\ shows[k] = target[k] \/ k \in windowless

\* Such a connection also keeps a place in every other chat it found on its
\* arrival, and so is told of new messages there, whichever chats it goes
\* through.  (Chats announced later have no entry for it.)
HearsOfEveryChatItFound ==
    \A k \in Conns :
        pc[k] = "reading" /\ Alone(k)
            => \A c \in found[k] \ replaced :
                   k \in {connected[c][session[k]], disconnected[c][session[k]]}

\* t waits for a lock that u holds.  A handler that enters the chats of todo may
\* stand before any of their clientsMutex, in the order of a Go map.
WaitsFor(t, u) ==
    \/ pc[t] \in {"connect", "remove", "lockMetas"} /\ metasLock = u
    \/ pc[t] \in {"leave", "join", "removeLocked", "lockChats", "getChat"}
       /\ chatsLock = u
    \/ \E c \in known : clientsLock[c] = u /\
          \/ pc[t] \in {"leaveChat", "removeChat"} /\ c = metas[session[t]].chat
          \/ pc[t] = "joinChat" /\ c \in todo[t] \cup {target[t]}
          \/ pc[t] = "broadcast" /\ c = note.chat
    \/ \E k \in Conns : connMux[k] = u /\
          \/ pc[t] = "view" /\ k = t
          \/ pc[t] = "deliver" /\ k \in audience

\* Goroutines never wait for one another in a circle: among any of them there is
\* one that waits for none of the others, although the handlers go from
\* clientMetasMutex to chatsMutex and the consumer needs both, and then a
\* connection's connMux, for one announcement.
NoCircularWait ==
    \A S \in (SUBSET Threads) \ {{}} :
        \E t \in S : \A u \in S : ~ WaitsFor(t, u)

\* No goroutine waits for a lock for ever: a call of ConnectClient comes back to
\* the reading loop or panics, and a call of RemoveClient returns.
EveryCallReturns ==
    \A k \in Conns :
        /\ pc[k] = "connect" ~> pc[k] \in {"reading", "panicked"} \/ crashed
        /\ pc[k] = "remove" ~> pc[k] = "gone" \/ crashed

\* The consumer gets through every notification.
EveryNoteIsFinished == pc[Consumer] # "idle" ~> pc[Consumer] = "idle" \/ crashed
=============================================================================
