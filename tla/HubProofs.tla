------------------------------ MODULE HubProofs ------------------------------
(***************************************************************************)
(* Theorems about Hub, for any number of connections, sessions, chats and  *)
(* notifications.                                                          *)
(***************************************************************************)
EXTENDS Hub, TLAPS

\* Where a handler holds clientMetasMutex.
Connecting == {"leave", "leaveChat", "readPrev", "join", "joinChat"}
Between == {"readPrev", "join", "joinChat"}
HoldingMetas == Connecting \cup {"removeLocked", "removeChat"}

Over == {"gone", "panicked"}

MetasLocked ==
    /\ \A k \in Conns : pc[k] \in HoldingMetas => metasLock = k
    /\ pc[Consumer] \in {"deliver", "writing"} /\ note.type = "newChat"
          => metasLock = Consumer

\* The consumer follows the branch of the notification it has in hand.
NoteInHand ==
    /\ pc[Consumer] \in {"lockChats", "putChat", "lockMetas"}
          => note.type = "newChat" /\ note.chat \in Chats
    /\ pc[Consumer] \in {"getChat", "broadcast"}
          => note.type = "message" /\ note.chat \in Chats

HasSession ==
    \A k \in Conns : IF pc[k] = "new" THEN session[k] = NoSession
                                      ELSE session[k] \in Sessions

HasMeta ==
    \A k \in Conns : pc[k] \in Connecting => metas[session[k]].client # NoConn

\* Once ConnectClient has left the current chat the session is in no chat.
HasLeft ==
    \A k \in Conns : pc[k] \in Between
        => \A c \in Chats : connected[c][session[k]] = NoConn

\* Clients are connected to chats the hub knows, under the id of their session.
ConnectedIsKnown ==
    \A c \in Chats, s \in Sessions :
        connected[c][s] # NoConn => c \in known /\ session[connected[c][s]] = s

LockInv == MetasLocked /\ NoteInHand /\ HasSession
ClientInv == HasMeta /\ HasLeft /\ ConnectedIsKnown /\ ConnectedIsCurrent /\ ConnectedIsLive
HubInv == TypeOK /\ LockInv /\ ClientInv

-----------------------------------------------------------------------------
(* Types.                                                                  *)

LEMMA InitTypeOK == Init => TypeOK
<1> SUFFICES ASSUME Init PROVE TypeOK
  OBVIOUS
<1>1. pc \in [Threads -> Labels]
  BY DEF Init, Labels
<1>2. /\ connected \in [Chats -> [Sessions -> Conns \cup {NoConn}]]
      /\ disconnected \in [Chats -> [Sessions -> Conns \cup {NoConn}]]
  BY DEF Init
<1> QED
  BY <1>1, <1>2 DEF Init, TypeOK, NoMeta, NoNote, Note

\* An entry set in one of a chat's two maps.
LEMMA EntryType ==
    ASSUME NEW f \in [Chats -> [Sessions -> Conns \cup {NoConn}]],
           NEW c \in Chats, NEW s, NEW x \in Conns \cup {NoConn}
    PROVE  [f EXCEPT ![c][s] = x] \in [Chats -> [Sessions -> Conns \cup {NoConn}]]
<1> DEFINE row == [f[c] EXCEPT ![s] = x]
<1>1. row \in [Sessions -> Conns \cup {NoConn}]
  OBVIOUS
<1>2. [f EXCEPT ![c][s] = x] = [f EXCEPT ![c] = row]
  OBVIOUS
<1> HIDE DEF row
<1> QED
  BY <1>1, <1>2

LEMMA ChatType ==
    ASSUME NEW A, NEW B, NEW m \in [client : A, chat : B], NEW d \in B
    PROVE  [m EXCEPT !.chat = d] \in [client : A, chat : B]
OBVIOUS

LEMMA GotoType ==
    ASSUME pc \in [Threads -> Labels], NEW t \in Threads, NEW l \in Labels, Goto(t, l)
    PROVE  pc' \in [Threads -> Labels]
BY DEF Goto

LEMMA MoveType ==
    ASSUME TypeOK, NEW k \in Conns, NEW c \in Chats, MoveToDisconnected(k, c)
    PROVE  /\ connected' \in [Chats -> [Sessions -> Conns \cup {NoConn}]]
           /\ disconnected' \in [Chats -> [Sessions -> Conns \cup {NoConn}]]
BY EntryType DEF MoveToDisconnected, TypeOK

HandlerNext(k) ==
    \/ Open(k) \/ ChangeChat(k) \/ ReadFails(k) \/ ConnectClient(k)
    \/ LockToLeave(k) \/ DisconnectClientFormChat(k) \/ ReadPrevChat(k)
    \/ LockToJoin(k) \/ (\E c \in Chats : EnterAsDisconnected(k, c))
    \/ JoinChat(k) \/ JoinNothing(k) \/ ViewFails(k)
    \/ LockToSend(k) \/ Send(k)
    \/ RemoveClient(k) \/ LockToRemove(k) \/ RemoveFromChat(k)

LEMMA HandlerTypeOK ==
    ASSUME TypeOK, NEW k \in Conns, HandlerNext(k)
    PROVE  TypeOK'
<1> USE DEF TypeOK
<1>1. k \in Threads
  BY DEF Threads
<1>2. CASE Open(k)
  BY <1>1, <1>2, GotoType DEF Open, registry, clients, locks, innerLocks, consumerSide,
     consumerVars, Labels
<1>3. CASE ChangeChat(k)
  BY <1>1, <1>3, GotoType DEF ChangeChat, registry, clients, locks, innerLocks,
     consumerSide, consumerVars, Labels
<1>4. CASE ReadFails(k)
  BY <1>1, <1>4, GotoType DEF ReadFails, registry, clients, locks, innerLocks,
     handlerVars, consumerSide, consumerVars, Labels
<1>5. CASE ConnectClient(k)
  <2>1. pc' \in [Threads -> Labels]
    BY <1>1, <1>5, GotoType DEF ConnectClient, Labels
  <2> QED
    BY <1>1, <1>5, <2>1 DEF ConnectClient, LockMetas, clients, innerLocks, handlerVars,
       consumerSide, consumerVars
<1>6. CASE LockToLeave(k)
  BY <1>1, <1>6, GotoType DEF LockToLeave, LockChats, registry, clients, innerLocks,
     handlerVars, consumerSide, consumerVars, Labels
<1>7. CASE DisconnectClientFormChat(k)
  <2>1. pc' \in [Threads -> Labels]
    BY <1>1, <1>7, GotoType DEF DisconnectClientFormChat, Labels
  <2>2. /\ connected' \in [Chats -> [Sessions -> Conns \cup {NoConn}]]
        /\ disconnected' \in [Chats -> [Sessions -> Conns \cup {NoConn}]]
    BY <1>7, MoveType DEF DisconnectClientFormChat, clients
  <2> QED
    BY <1>7, <2>1, <2>2 DEF DisconnectClientFormChat, UnlockChats, innerLocks,
       handlerVars, consumerSide, consumerVars
<1>8. CASE ReadPrevChat(k)
  <2>1. pc' \in [Threads -> Labels]
    BY <1>1, <1>8, GotoType DEF ReadPrevChat, Labels
  <2> QED
    BY <1>8, <2>1 DEF ReadPrevChat, registry, clients, locks, innerLocks, handlerVars,
       consumerVars
<1>9. CASE LockToJoin(k)
  <2>1. pc' \in [Threads -> Labels]
    BY <1>1, <1>9, GotoType DEF LockToJoin, Labels
  <2> QED
    BY <1>1, <1>9, <2>1 DEF LockToJoin, LockChats, registry, clients, innerLocks,
       consumerSide, consumerVars
<1>10. ASSUME NEW c \in Chats, EnterAsDisconnected(k, c)
       PROVE  TypeOK'
  BY <1>10, MoveType DEF EnterAsDisconnected, locks, innerLocks, consumerSide, consumerVars
<1>11. CASE JoinChat(k)
  <2>1. pc' \in [Threads -> Labels]
    BY <1>1, <1>11, GotoType DEF JoinChat, Labels
  <2>2. target[k] \in Chats
    BY <1>11 DEF JoinChat
  <2>3. /\ connected' \in [Chats -> [Sessions -> Conns \cup {NoConn}]]
        /\ disconnected' \in [Chats -> [Sessions -> Conns \cup {NoConn}]]
    BY <1>11, <2>2, EntryType DEF JoinChat
  <2>4. metas' \in [Sessions -> [client : Conns \cup {NoConn}, chat : Chats \cup {NoChat}]]
    <3> DEFINE row == [metas[session[k]] EXCEPT !.chat = target[k]]
    <3>1. session[k] \in Sessions
            => row \in [client : Conns \cup {NoConn}, chat : Chats \cup {NoChat}]
      <4> SUFFICES ASSUME session[k] \in Sessions
                   PROVE  row \in [client : Conns \cup {NoConn}, chat : Chats \cup {NoChat}]
        OBVIOUS
      <4> DEFINE m == metas[session[k]]
      <4>1. m \in [client : Conns \cup {NoConn}, chat : Chats \cup {NoChat}]
        OBVIOUS
      <4>2. target[k] \in Chats \cup {NoChat}
        BY <2>2
      <4> HIDE DEF m
      <4>3. [m EXCEPT !.chat = target[k]]
                \in [client : Conns \cup {NoConn}, chat : Chats \cup {NoChat}]
        BY <4>1, <4>2, ChatType
      <4> QED
        BY <4>3 DEF m
    <3>2. metas' = [metas EXCEPT ![session[k]] = row]
      BY <1>11 DEF JoinChat
    <3> HIDE DEF row
    <3> QED
      BY <3>1, <3>2
  <2> QED
    BY <1>11, <2>1, <2>3, <2>4 DEF JoinChat, UnlockChats, UnlockMetas, innerLocks,
       handlerVars, consumerSide, consumerVars
<1>12. CASE JoinNothing(k)
  <2>1. pc' \in [Threads -> Labels]
    BY <1>1, <1>12, GotoType DEF JoinNothing, Labels
  <2> QED
    BY <1>12, <2>1 DEF JoinNothing, UnlockChats, UnlockMetas, registry, clients,
       innerLocks, handlerVars, consumerSide, consumerVars
<1>13. CASE ViewFails(k)
  BY <1>1, <1>13, GotoType DEF ViewFails, registry, clients, locks, innerLocks,
     consumerSide, consumerVars, Labels
<1>14. CASE LockToSend(k)
  BY <1>1, <1>14, GotoType DEF LockToSend, registry, clients, handlerVars,
     consumerSide, consumerVars, Labels
<1>15. CASE Send(k)
  BY <1>1, <1>15, GotoType DEF Send, registry, clients, consumerSide, consumerVars, Labels
<1>16. CASE RemoveClient(k)
  BY <1>1, <1>16, GotoType DEF RemoveClient, LockMetas, registry, clients, innerLocks,
     handlerVars, consumerSide, consumerVars, Labels
<1>17. CASE LockToRemove(k)
  BY <1>1, <1>17, GotoType DEF LockToRemove, LockChats, registry, clients, innerLocks,
     handlerVars, consumerSide, consumerVars, Labels
<1>18. CASE RemoveFromChat(k)
  <2>1. pc' \in [Threads -> Labels]
    BY <1>1, <1>18, GotoType DEF RemoveFromChat, Labels
  <2>2. /\ connected' \in [Chats -> [Sessions -> Conns \cup {NoConn}]]
        /\ disconnected' \in [Chats -> [Sessions -> Conns \cup {NoConn}]]
    <3> DEFINE s == session[k]  c == metas[s].chat
    <3>1. CASE c \in known
      <4>1. c \in Chats /\ NoConn \in Conns \cup {NoConn}
        BY <3>1
      <4>2. /\ connected' = [connected EXCEPT ![c][s] = NoConn]
            /\ disconnected' = [disconnected EXCEPT ![c][s] = NoConn]
        BY <1>18, <3>1 DEF RemoveFromChat
      <4> HIDE DEF s, c
      <4> QED
        BY <4>1, <4>2, EntryType
    <3>2. CASE c \notin known
      BY <1>18, <3>2 DEF RemoveFromChat, clients
    <3> QED
      BY <3>1, <3>2
  <2> QED
    BY <1>18, <2>1, <2>2 DEF RemoveFromChat, UnlockChats, UnlockMetas, NoMeta,
       innerLocks, handlerVars, consumerSide, consumerVars
<1> QED
  BY <1>2, <1>3, <1>4, <1>5, <1>6, <1>7, <1>8, <1>9, <1>10, <1>11, <1>12, <1>13, <1>14,
     <1>15, <1>16, <1>17, <1>18 DEF HandlerNext

ConsumerNext ==
    \/ (\E c \in Chats : ReceiveNewChat(c) \/ ReceiveMessage(c))
    \/ LockToPut \/ PutChat \/ LockToAnnounce \/ GetChat \/ Broadcast
    \/ (\E k \in Conns : StartWrite(k) \/ FinishWrite(k))
    \/ FinishDelivery

LEMMA ConsumerTypeOK ==
    ASSUME TypeOK, NoteInHand, ConsumerNext
    PROVE  TypeOK'
<1> USE DEF TypeOK
<1>1. Consumer \in Threads
  BY DEF Threads
<1>2. ASSUME NEW c \in Chats, ReceiveNewChat(c) \/ ReceiveMessage(c)
      PROVE  TypeOK'
  <2>1. pc' \in [Threads -> Labels]
    BY <1>1, <1>2, GotoType DEF ReceiveNewChat, ReceiveMessage, Receive, Labels
  <2> QED
    BY <1>2, <2>1 DEF ReceiveNewChat, ReceiveMessage, Receive, Note, registry, clients,
       locks, innerLocks, handlerVars
<1>3. CASE LockToPut
  BY <1>1, <1>3, GotoType DEF LockToPut, LockChats, registry, clients, innerLocks,
     handlerVars, consumerSide, consumerVars, Labels
<1>4. CASE PutChat
  <2>1. pc' \in [Threads -> Labels]
    BY <1>1, <1>4, GotoType DEF PutChat, Labels
  <2>2. note.chat \in Chats
    BY <1>4 DEF PutChat, NoteInHand
  <2>3. /\ connected' \in [Chats -> [Sessions -> Conns \cup {NoConn}]]
        /\ disconnected' \in [Chats -> [Sessions -> Conns \cup {NoConn}]]
    BY <1>4, <2>2 DEF PutChat
  <2> QED
    BY <1>4, <2>1, <2>2, <2>3 DEF PutChat, UnlockChats, innerLocks, handlerVars, consumerVars
<1>5. CASE LockToAnnounce
  BY <1>1, <1>5, GotoType DEF LockToAnnounce, LockMetas, registry, clients, innerLocks,
     handlerVars, Labels
<1>6. CASE GetChat
  <2>1. pc' \in [Threads -> Labels]
    BY <1>1, <1>6, GotoType DEF GetChat, Done, Labels
  <2> QED
    BY <1>6, <2>1 DEF GetChat, Done, NoNote, Note, registry, clients, locks, innerLocks,
       handlerVars
<1>7. CASE Broadcast
  <2>1. pc' \in [Threads -> Labels]
    BY <1>1, <1>7, GotoType DEF Broadcast, Labels
  <2>2. note.chat \in Chats
    BY <1>7 DEF Broadcast, NoteInHand
  <2>3. audience' \subseteq Conns
    BY <1>7, <2>2 DEF Broadcast
  <2> QED
    BY <1>7, <2>1, <2>3 DEF Broadcast, registry, clients, handlerVars
<1>8. ASSUME NEW k \in Conns, StartWrite(k) \/ FinishWrite(k)
      PROVE  TypeOK'
  <2>1. pc' \in [Threads -> Labels]
    BY <1>1, <1>8, GotoType DEF StartWrite, FinishWrite, Labels
  <2> QED
    BY <1>1, <1>8, <2>1 DEF StartWrite, FinishWrite, registry, clients, handlerVars,
       consumerSide, consumerVars
<1>9. CASE FinishDelivery
  <2>1. pc' \in [Threads -> Labels]
    BY <1>1, <1>9, GotoType DEF FinishDelivery, Done, Labels
  <2> QED
    BY <1>9, <2>1 DEF FinishDelivery, Done, UnlockMetas, NoNote, Note, registry, clients,
       handlerVars
<1> QED
  BY <1>2, <1>3, <1>4, <1>5, <1>6, <1>7, <1>8, <1>9 DEF ConsumerNext
-----------------------------------------------------------------------------
(* Locks.                                                                  *)

LEMMA HandlerLockInv ==
    ASSUME TypeOK, LockInv, NEW k \in Conns, HandlerNext(k)
    PROVE  LockInv'
<1> USE NamesAssumption
    DEF TypeOK, LockInv, MetasLocked, NoteInHand, HasSession, HoldingMetas, Connecting,
        Threads, Goto, consumerSide, consumerVars, handlerVars, locks
<1>1. CASE Open(k)
  BY <1>1 DEF Open
<1>2. CASE ChangeChat(k)
  BY <1>2 DEF ChangeChat
<1>3. CASE ReadFails(k)
  BY <1>3 DEF ReadFails
<1>4. CASE ConnectClient(k)
  BY <1>4 DEF ConnectClient, LockMetas
<1>5. CASE LockToLeave(k)
  BY <1>5 DEF LockToLeave
<1>6. CASE DisconnectClientFormChat(k)
  BY <1>6 DEF DisconnectClientFormChat
<1>7. CASE ReadPrevChat(k)
  BY <1>7 DEF ReadPrevChat
<1>8. CASE LockToJoin(k)
  BY <1>8 DEF LockToJoin
<1>9. CASE \E c \in Chats : EnterAsDisconnected(k, c)
  BY <1>9 DEF EnterAsDisconnected, locks
<1>10. CASE JoinChat(k)
  BY <1>10 DEF JoinChat, UnlockMetas
<1>11. CASE JoinNothing(k)
  BY <1>11 DEF JoinNothing, UnlockMetas
<1>12. CASE ViewFails(k)
  BY <1>12 DEF ViewFails
<1>13. CASE LockToSend(k)
  BY <1>13 DEF LockToSend
<1>14. CASE Send(k)
  BY <1>14 DEF Send
<1>15. CASE RemoveClient(k)
  BY <1>15 DEF RemoveClient, LockMetas
<1>16. CASE LockToRemove(k)
  BY <1>16 DEF LockToRemove
<1>17. CASE RemoveFromChat(k)
  BY <1>17 DEF RemoveFromChat, UnlockMetas
<1> QED
  BY <1>1, <1>2, <1>3, <1>4, <1>5, <1>6, <1>7, <1>8, <1>9, <1>10, <1>11, <1>12,
        <1>13, <1>14, <1>15, <1>16, <1>17 DEF HandlerNext

LEMMA ConsumerLockInv ==
    ASSUME TypeOK, LockInv, ConsumerNext
    PROVE  LockInv'
<1> USE NamesAssumption
    DEF TypeOK, LockInv, MetasLocked, NoteInHand, HasSession, HoldingMetas, Connecting,
        Threads, Goto, consumerSide, consumerVars, handlerVars, locks
<1>1. CASE \E c \in Chats : ReceiveNewChat(c) \/ ReceiveMessage(c)
  BY <1>1 DEF ReceiveNewChat, ReceiveMessage, Receive
<1>2. CASE LockToPut
  BY <1>2 DEF LockToPut, LockChats
<1>3. CASE PutChat
  BY <1>3 DEF PutChat
<1>4. CASE LockToAnnounce
  BY <1>4 DEF LockToAnnounce, LockMetas
<1>5. CASE GetChat
  BY <1>5 DEF GetChat, Done, NoNote
<1>6. CASE Broadcast
  BY <1>6 DEF Broadcast
<1>7. CASE \E k \in Conns : StartWrite(k) \/ FinishWrite(k)
  BY <1>7 DEF StartWrite, FinishWrite
<1>8. CASE FinishDelivery
  BY <1>8 DEF FinishDelivery, Done, NoNote, UnlockMetas
<1> QED
  BY <1>1, <1>2, <1>3, <1>4, <1>5, <1>6, <1>7, <1>8 DEF ConsumerNext
-----------------------------------------------------------------------------
(* Clients.                                                                *)

LEMMA InitHubInv == Init => LockInv /\ ClientInv
BY NamesAssumption
   DEF Init, LockInv, MetasLocked, NoteInHand, HasSession, ClientInv, HasMeta, HasLeft,
       ConnectedIsKnown, ConnectedIsCurrent, ConnectedIsLive, HoldingMetas, Connecting,
       Between, Threads, NoNote

\* A step that connects nobody, leaves clientMetas alone, and after which no
\* handler is further in ConnectClient or over.
LEMMA Quiet ==
    ASSUME TypeOK, LockInv, ClientInv,
           known \subseteq known', metas' = metas,
           \A c \in Chats, s \in Sessions : connected'[c][s] \in {connected[c][s], NoConn},
           \A j \in Conns : pc[j] = "new" \/ session'[j] = session[j],
           \A j \in Conns, L \in {Connecting, Between, Over} : pc'[j] \in L => pc[j] \in L
    PROVE  ClientInv'
<1> USE NamesAssumption DEF TypeOK, LockInv, ClientInv
<1>1. \A c \in Chats, s \in Sessions :
          connected'[c][s] # NoConn
              => /\ connected'[c][s] = connected[c][s]
                 /\ connected[c][s] \in Conns
                 /\ session'[connected[c][s]] = s
  BY DEF ConnectedIsKnown, HasSession
<1>2. \A j \in Conns : /\ pc'[j] \in Connecting => pc[j] \in Connecting
                       /\ pc'[j] \in Between => pc[j] \in Between
                       /\ pc'[j] \in Over => pc[j] \in Over
  OBVIOUS
<1>3. HasMeta'
  BY <1>2 DEF HasMeta, Connecting
<1>4. HasLeft'
  <2> SUFFICES ASSUME NEW j \in Conns, pc'[j] \in Between, NEW c \in Chats
               PROVE  connected'[c][session'[j]] = NoConn
    BY DEF HasLeft
  <2>1. pc[j] \in Between
    BY <1>2
  <2>2. session'[j] = session[j] /\ session[j] \in Sessions
    BY <2>1 DEF Between, HasSession
  <2> QED
    BY <2>1, <2>2 DEF HasLeft
<1>5. ConnectedIsKnown'
  BY <1>1 DEF ConnectedIsKnown
<1>6. ConnectedIsCurrent'
  BY <1>1 DEF ConnectedIsCurrent
<1>7. ConnectedIsLive'
  <2> SUFFICES ASSUME NEW c \in Chats, NEW r \in Sessions, connected'[c][r] # NoConn
               PROVE  pc'[connected'[c][r]] \notin Over
    BY DEF ConnectedIsLive, Over
  <2>1. pc[connected[c][r]] \notin Over /\ connected'[c][r] \in Conns
    BY <1>1 DEF ConnectedIsLive, Over
  <2> QED
    BY <1>1, <1>2, <2>1
<1> QED
  BY <1>3, <1>4, <1>5, <1>6, <1>7

\* What a session is connected to follows from its ClientMeta.
LEMMA OnlyInCurrent ==
    ASSUME TypeOK, ClientInv, NEW c \in Chats, NEW s \in Sessions,
           connected[c][s] # NoConn
    PROVE  /\ connected[c][s] \in Conns
           /\ session[connected[c][s]] = s
           /\ c = metas[s].chat /\ c \in known /\ metas[s].client # NoConn
BY DEF TypeOK, ClientInv, ConnectedIsKnown, ConnectedIsCurrent

LEMMA ConnectClientInv ==
    ASSUME TypeOK, LockInv, ClientInv, NEW k \in Conns, ConnectClient(k)
    PROVE  ClientInv'
<1> DEFINE s == session[k]
<1>1. s \in Sessions
  BY DEF ConnectClient, LockInv, HasSession
<1>2. /\ known' = known /\ connected' = connected /\ session' = session
      /\ pc[k] = "connect" /\ pc' = [pc EXCEPT ![k] = "leave"]
      /\ metasLock = Nobody
  BY DEF ConnectClient, LockMetas, clients, handlerVars, Goto
<1>3. /\ metas'[s].client # NoConn
      /\ \A r \in Sessions : metas[r].client # NoConn => metas'[r] = metas[r]
  BY <1>1, NamesAssumption DEF ConnectClient, TypeOK
<1>4. \A j \in Conns \ {k} : pc[j] \notin Connecting
  BY <1>2, NamesAssumption DEF LockInv, MetasLocked, HoldingMetas, Threads
<1>5. pc'[k] = "leave" /\ \A j \in Conns \ {k} : pc'[j] = pc[j]
  BY <1>2 DEF TypeOK, Threads
<1>6. HasMeta'
  BY <1>2, <1>3, <1>4, <1>5 DEF HasMeta
<1>7. HasLeft'
  BY <1>4, <1>5 DEF HasLeft, Between, Connecting
<1>8. ConnectedIsKnown'
  BY <1>2 DEF ClientInv, ConnectedIsKnown
<1>9. ConnectedIsCurrent'
  BY <1>2, <1>3 DEF ClientInv, ConnectedIsCurrent
<1>10. ConnectedIsLive'
  BY <1>2, <1>5, OnlyInCurrent DEF ClientInv, ConnectedIsLive
<1> QED
  BY <1>6, <1>7, <1>8, <1>9, <1>10 DEF ClientInv

LEMMA LeaveClientInv ==
    ASSUME TypeOK, LockInv, ClientInv, NEW k \in Conns, DisconnectClientFormChat(k)
    PROVE  ClientInv'
<1> DEFINE s == session[k]
           d == metas[s].chat
<1>1. s \in Sessions
  BY DEF DisconnectClientFormChat, LockInv, HasSession
<1>2. /\ known' = known /\ metas' = metas /\ session' = session
      /\ pc[k] = "leaveChat" /\ pc' = [pc EXCEPT ![k] = "readPrev"]
      /\ connected' = IF d \in known THEN [connected EXCEPT ![d][s] = NoConn] ELSE connected
  BY DEF DisconnectClientFormChat, MoveToDisconnected, clients, handlerVars, Goto
<1>3. pc'[k] = "readPrev" /\ \A j \in Conns \ {k} : pc'[j] = pc[j]
  BY <1>2 DEF TypeOK, Threads
<1>4. \A c \in Chats, r \in Sessions : connected'[c][r] \in {connected[c][r], NoConn}
  BY <1>1, <1>2 DEF TypeOK
<1>5. \A c \in Chats : connected'[c][s] = NoConn
  <2> SUFFICES ASSUME NEW c \in Chats, connected[c][s] # NoConn
               PROVE  connected'[c][s] = NoConn
    BY <1>1, <1>4
  <2>1. c = d /\ d \in known
    BY <1>1, OnlyInCurrent
  <2> QED
    BY <1>1, <1>2, <2>1 DEF TypeOK
<1>6. HasMeta'
  BY <1>2, <1>3 DEF ClientInv, HasMeta, Connecting
<1>7. HasLeft'
  <2> SUFFICES ASSUME NEW j \in Conns, pc'[j] \in Between, NEW c \in Chats
               PROVE  connected'[c][session'[j]] = NoConn
    BY DEF HasLeft
  <2>1. CASE j = k
    BY <1>2, <1>5, <2>1
  <2>2. CASE j # k
    <3>1. pc[j] \in Between /\ session[j] \in Sessions
      BY <1>3, <2>2 DEF LockInv, HasSession, Between
    <3> QED
      BY <1>2, <1>4, <3>1 DEF ClientInv, HasLeft
  <2> QED
    BY <2>1, <2>2
<1>8. ConnectedIsKnown'
  BY <1>2, <1>4 DEF ClientInv, ConnectedIsKnown
<1>9. ConnectedIsCurrent'
  BY <1>2, <1>4 DEF ClientInv, ConnectedIsCurrent
<1>10. ConnectedIsLive'
  <2> SUFFICES ASSUME NEW c \in Chats, NEW r \in Sessions, connected'[c][r] # NoConn
               PROVE  pc'[connected'[c][r]] \notin Over
    BY DEF ConnectedIsLive, Over
  <2>1. connected'[c][r] = connected[c][r] /\ connected[c][r] \in Conns
    BY <1>4, OnlyInCurrent
  <2> QED
    BY <1>3, <2>1 DEF ClientInv, ConnectedIsLive, Over
<1> QED
  BY <1>6, <1>7, <1>8, <1>9, <1>10 DEF ClientInv

LEMMA JoinClientInv ==
    ASSUME TypeOK, LockInv, ClientInv, NEW k \in Conns, JoinChat(k)
    PROVE  ClientInv'
<1> DEFINE s == session[k]
           d == target[k]
<1>1. s \in Sessions /\ d \in known /\ d \in Chats
  BY DEF JoinChat, LockInv, HasSession, TypeOK
<1>2. /\ known' = known /\ session' = session
      /\ pc[k] = "joinChat" /\ pc' = [pc EXCEPT ![k] = "view"]
      /\ connected' = [connected EXCEPT ![d][s] = k]
      /\ metas' = [metas EXCEPT ![s].chat = d]
  BY DEF JoinChat, handlerVars, Goto
<1>3. pc'[k] = "view" /\ \A j \in Conns \ {k} : pc'[j] = pc[j]
  BY <1>2 DEF TypeOK, Threads
<1>4. \A j \in Conns \ {k} : pc[j] \notin Connecting
  BY <1>2, NamesAssumption DEF LockInv, MetasLocked, HoldingMetas, Connecting, Threads
<1>5. /\ metas'[s].client = metas[s].client /\ metas'[s].chat = d
      /\ \A r \in Sessions \ {s} : metas'[r] = metas[r]
  BY <1>1, <1>2 DEF TypeOK
<1>6. metas[s].client # NoConn /\ \A c \in Chats : connected[c][s] = NoConn
  BY <1>2 DEF ClientInv, HasMeta, HasLeft, Connecting, Between
<1>7. ASSUME NEW c \in Chats, NEW r \in Sessions, connected'[c][r] # NoConn
      PROVE  \/ c = d /\ r = s /\ connected'[c][r] = k
             \/ r # s /\ connected'[c][r] = connected[c][r]
  <2>1. CASE c = d /\ r = s
    BY <1>1, <1>2, <2>1 DEF TypeOK
  <2>2. CASE ~ (c = d /\ r = s)
    <3>1. connected'[c][r] = connected[c][r]
      BY <1>1, <1>2, <2>2 DEF TypeOK
    <3> QED
      BY <1>6, <1>7, <3>1
  <2> QED
    BY <2>1, <2>2
<1>8. HasMeta' /\ HasLeft'
  BY <1>3, <1>4 DEF HasMeta, HasLeft, Connecting, Between
<1>9. ConnectedIsKnown'
  BY <1>1, <1>2, <1>7 DEF ClientInv, ConnectedIsKnown
<1>10. ConnectedIsCurrent'
  BY <1>1, <1>5, <1>6, <1>7 DEF ClientInv, ConnectedIsCurrent
<1>11. ConnectedIsLive'
  <2> SUFFICES ASSUME NEW c \in Chats, NEW r \in Sessions, connected'[c][r] # NoConn
               PROVE  pc'[connected'[c][r]] \notin Over
    BY DEF ConnectedIsLive, Over
  <2>1. CASE connected'[c][r] = k
    BY <1>3, <2>1 DEF Over
  <2>2. CASE connected'[c][r] # k
    <3>1. connected'[c][r] = connected[c][r] /\ connected[c][r] \in Conns \ {k}
      BY <1>7, <2>2, OnlyInCurrent
    <3> QED
      BY <1>3, <3>1 DEF ClientInv, ConnectedIsLive, Over
  <2> QED
    BY <2>1, <2>2
<1> QED
  BY <1>8, <1>9, <1>10, <1>11 DEF ClientInv

\* A changeChat to an unknown chat ends the handler of a session that is in no
\* chat.
LEMMA PanicClientInv ==
    ASSUME TypeOK, LockInv, ClientInv, NEW k \in Conns, JoinNothing(k)
    PROVE  ClientInv'
<1>1. /\ known' = known /\ session' = session /\ connected' = connected
      /\ metas' = metas /\ pc[k] = "joinChat"
      /\ pc'[k] \notin Connecting
      /\ \A j \in Conns \ {k} : pc'[j] = pc[j]
  BY DEF JoinNothing, registry, clients, handlerVars, Goto, TypeOK, Threads, Connecting
<1>2. \A c \in Chats : connected[c][session[k]] = NoConn
  BY <1>1 DEF ClientInv, HasLeft, Between
<1>3. HasMeta' /\ HasLeft'
  BY <1>1 DEF ClientInv, HasMeta, HasLeft, Connecting, Between
<1>4. ConnectedIsKnown' /\ ConnectedIsCurrent'
  BY <1>1 DEF ClientInv, ConnectedIsKnown, ConnectedIsCurrent
<1>5. ConnectedIsLive'
  <2> SUFFICES ASSUME NEW c \in Chats, NEW r \in Sessions, connected[c][r] # NoConn
               PROVE  pc'[connected[c][r]] \notin Over
    BY <1>1 DEF ConnectedIsLive, Over
  <2>1. connected[c][r] \in Conns \ {k}
    BY <1>2, OnlyInCurrent
  <2> QED
    BY <1>1, <2>1 DEF ClientInv, ConnectedIsLive, Over
<1> QED
  BY <1>3, <1>4, <1>5 DEF ClientInv

LEMMA RemoveClientInv ==
    ASSUME TypeOK, LockInv, ClientInv, NEW k \in Conns, RemoveFromChat(k)
    PROVE  ClientInv'
<1> DEFINE s == session[k]
           d == metas[s].chat
<1>1. s \in Sessions
  BY DEF RemoveFromChat, LockInv, HasSession
<1>2. /\ known' = known /\ session' = session
      /\ pc[k] = "removeChat" /\ pc' = [pc EXCEPT ![k] = "gone"]
      /\ connected' = IF d \in known THEN [connected EXCEPT ![d][s] = NoConn] ELSE connected
      /\ metas' = [metas EXCEPT ![s] = NoMeta]
  BY DEF RemoveFromChat, clients, handlerVars, Goto
<1>3. pc'[k] = "gone" /\ \A j \in Conns \ {k} : pc'[j] = pc[j]
  BY <1>2 DEF TypeOK, Threads
<1>4. \A j \in Conns \ {k} : pc[j] \notin Connecting
  BY <1>2, NamesAssumption DEF LockInv, MetasLocked, HoldingMetas, Threads
<1>5. \A r \in Sessions \ {s} : metas'[r] = metas[r]
  BY <1>1, <1>2 DEF TypeOK
<1>6. ASSUME NEW c \in Chats, NEW r \in Sessions, connected'[c][r] # NoConn
      PROVE  r # s /\ connected'[c][r] = connected[c][r]
  <2>1. connected'[c][r] = connected[c][r]
    BY <1>1, <1>2, <1>6 DEF TypeOK
  <2>2. c = metas[r].chat /\ c \in known
    BY <1>6, <2>1, OnlyInCurrent
  <2>3. r # s
    BY <1>1, <1>2, <1>6, <2>2 DEF TypeOK
  <2> QED
    BY <2>1, <2>3
<1>7. HasMeta' /\ HasLeft'
  BY <1>3, <1>4 DEF HasMeta, HasLeft, Connecting, Between
<1>8. ConnectedIsKnown'
  BY <1>2, <1>6 DEF ClientInv, ConnectedIsKnown
<1>9. ConnectedIsCurrent'
  BY <1>5, <1>6 DEF ClientInv, ConnectedIsCurrent
<1>10. ConnectedIsLive'
  <2> SUFFICES ASSUME NEW c \in Chats, NEW r \in Sessions, connected'[c][r] # NoConn
               PROVE  pc'[connected'[c][r]] \notin Over
    BY DEF ConnectedIsLive, Over
  <2>1. connected'[c][r] = connected[c][r] /\ connected[c][r] \in Conns \ {k}
    BY <1>6, OnlyInCurrent
  <2> QED
    BY <1>3, <2>1 DEF ClientInv, ConnectedIsLive, Over
<1> QED
  BY <1>7, <1>8, <1>9, <1>10 DEF ClientInv

LEMMA HandlerClientInv ==
    ASSUME TypeOK, LockInv, ClientInv, NEW k \in Conns, HandlerNext(k)
    PROVE  ClientInv'
<1> USE NamesAssumption
    DEF registry, clients, handlerVars, Goto, Connecting, Between, Over
<1>20. /\ k \in Threads /\ Conns \subseteq Threads
      /\ pc \in [Threads -> Labels]
  BY DEF Threads, TypeOK
<1>21. /\ connected \in [Chats -> [Sessions -> Conns \cup {NoConn}]]
      /\ session \in [Conns -> Sessions \cup {NoSession}]
  BY DEF TypeOK
<1>1. CASE Open(k)
  <2>1. \A j \in Conns : pc[j] = "new" \/ session'[j] = session[j]
    BY <1>1, <1>21 DEF Open
  <2>2. UNCHANGED <<known, connected, metas>>
    BY <1>1 DEF Open
  <2>3. \A j \in Conns : pc'[j] \in {pc[j], "connect"}
    BY <1>1, <1>20 DEF Open
  <2> QED
    BY <2>1, <2>2, <2>3, Quiet
<1>2. CASE ChangeChat(k)
  <2>1. UNCHANGED <<known, connected, metas, session>>
    BY <1>2 DEF ChangeChat
  <2>2. \A j \in Conns : pc'[j] \in {pc[j], "connect"}
    BY <1>2, <1>20 DEF ChangeChat
  <2> QED
    BY <2>1, <2>2, Quiet
<1>3. CASE ReadFails(k)
  <2>1. UNCHANGED <<known, connected, metas, session>>
    BY <1>3 DEF ReadFails
  <2>2. \A j \in Conns : pc'[j] \in {pc[j], "remove"}
    BY <1>3, <1>20 DEF ReadFails
  <2> QED
    BY <2>1, <2>2, Quiet
<1>4. CASE ViewFails(k)
  <2>1. UNCHANGED <<known, connected, metas, session>>
    BY <1>4 DEF ViewFails
  <2>2. \A j \in Conns : pc'[j] \in {pc[j], "reading"}
    BY <1>4, <1>20 DEF ViewFails
  <2> QED
    BY <2>1, <2>2, Quiet
<1>5. CASE LockToSend(k)
  <2>1. UNCHANGED <<known, connected, metas, session>>
    BY <1>5 DEF LockToSend
  <2>2. \A j \in Conns : pc'[j] \in {pc[j], "write"}
    BY <1>5, <1>20 DEF LockToSend
  <2> QED
    BY <2>1, <2>2, Quiet
<1>6. CASE Send(k)
  <2>1. UNCHANGED <<known, connected, metas, session>>
    BY <1>6 DEF Send
  <2>2. \A j \in Conns : pc'[j] \in {pc[j], "reading"}
    BY <1>6, <1>20 DEF Send
  <2> QED
    BY <2>1, <2>2, Quiet
<1>7. CASE RemoveClient(k)
  <2>1. UNCHANGED <<known, connected, metas, session>>
    BY <1>7 DEF RemoveClient
  <2>2. \A j \in Conns : pc'[j] \in {pc[j], "removeLocked"}
    BY <1>7, <1>20 DEF RemoveClient
  <2> QED
    BY <2>1, <2>2, Quiet
<1>8. CASE LockToRemove(k)
  <2>1. UNCHANGED <<known, connected, metas, session>>
    BY <1>8 DEF LockToRemove
  <2>2. \A j \in Conns : pc'[j] \in {pc[j], "removeChat"}
    BY <1>8, <1>20 DEF LockToRemove
  <2> QED
    BY <2>1, <2>2, Quiet
<1>9. CASE LockToLeave(k)
  <2>1. UNCHANGED <<known, connected, metas, session>>
    BY <1>9 DEF LockToLeave
  <2>2. \A j \in Conns, L \in {Connecting, Between, Over} : pc'[j] \in L => pc[j] \in L
    BY <1>9, <1>20 DEF LockToLeave
  <2> QED
    BY <2>1, <2>2, Quiet
<1>10. CASE ReadPrevChat(k)
  <2>1. UNCHANGED <<known, connected, metas, session>>
    BY <1>10 DEF ReadPrevChat
  <2>2. \A j \in Conns, L \in {Connecting, Between, Over} : pc'[j] \in L => pc[j] \in L
    BY <1>10, <1>20 DEF ReadPrevChat
  <2> QED
    BY <2>1, <2>2, Quiet
<1>11. CASE LockToJoin(k)
  <2>1. UNCHANGED <<known, connected, metas, session>>
    BY <1>11 DEF LockToJoin
  <2>2. \A j \in Conns, L \in {Connecting, Between, Over} : pc'[j] \in L => pc[j] \in L
    BY <1>11, <1>20 DEF LockToJoin
  <2> QED
    BY <2>1, <2>2, Quiet
<1>12. ASSUME NEW c \in Chats, EnterAsDisconnected(k, c)
      PROVE  ClientInv'
  <2>1. UNCHANGED <<known, pc, metas, session>>
    BY <1>12 DEF EnterAsDisconnected
  <2>2. \A d \in Chats, r \in Sessions : connected'[d][r] \in {connected[d][r], NoConn}
    BY <1>12, <1>21 DEF EnterAsDisconnected, MoveToDisconnected
  <2> QED
    BY <2>1, <2>2, Quiet
<1> QED
  BY <1>1, <1>2, <1>3, <1>4, <1>5, <1>6, <1>7, <1>8, <1>9, <1>10, <1>11, <1>12,
     ConnectClientInv, LeaveClientInv, JoinClientInv, PanicClientInv, RemoveClientInv
     DEF HandlerNext

LEMMA ConsumerClientInv ==
    ASSUME TypeOK, LockInv, ClientInv, ConsumerNext
    PROVE  ClientInv'
<1>1. \A j \in Conns : pc'[j] = pc[j]
  BY NamesAssumption DEF ConsumerNext, ReceiveNewChat, ReceiveMessage, Receive, LockToPut,
     PutChat, LockToAnnounce, GetChat, Broadcast, StartWrite, FinishWrite, FinishDelivery,
     Done, Goto, TypeOK, Threads
<1>2. UNCHANGED <<metas, session>>
  BY DEF ConsumerNext, ReceiveNewChat, ReceiveMessage, Receive, LockToPut,
     PutChat, LockToAnnounce, GetChat, Broadcast, StartWrite, FinishWrite, FinishDelivery,
     Done, registry, handlerVars
<1>3. CASE PutChat
  <2>1. known \subseteq known'
    BY <1>3 DEF PutChat
  <2>2. \A c \in Chats, s \in Sessions : connected'[c][s] \in {connected[c][s], NoConn}
    BY <1>3 DEF PutChat, TypeOK
  <2> QED
    BY <1>1, <1>2, <2>1, <2>2, Quiet
<1>4. CASE ~ PutChat
  <2>1. UNCHANGED <<known, connected>>
    BY <1>4 DEF ConsumerNext, ReceiveNewChat, ReceiveMessage, Receive, LockToPut,
       LockToAnnounce, GetChat, Broadcast, StartWrite, FinishWrite, FinishDelivery,
       Done, registry, clients
  <2> QED
    BY <1>1, <1>2, <2>1, Quiet
<1> QED
  BY <1>3, <1>4

-----------------------------------------------------------------------------
LEMMA StepHubInv == HubInv /\ [Next]_vars => HubInv'
<1> SUFFICES ASSUME HubInv, [Next]_vars
             PROVE  HubInv'
  OBVIOUS
<1> USE DEF HubInv
<1>1. ASSUME NEW k \in Conns, HandlerNext(k)
      PROVE  HubInv'
  BY <1>1, HandlerTypeOK, HandlerLockInv, HandlerClientInv
<1>2. CASE ConsumerNext
  <2>1. TypeOK'
    BY <1>2, ConsumerTypeOK DEF LockInv
  <2> QED
    BY <1>2, <2>1, ConsumerLockInv, ConsumerClientInv
<1>3. CASE UNCHANGED vars
  BY <1>3 DEF vars, registry, clients, locks, innerLocks, handlerVars, consumerSide,
     consumerVars, TypeOK, LockInv, MetasLocked, NoteInHand, HasSession, ClientInv,
     HasMeta, HasLeft, ConnectedIsKnown, ConnectedIsCurrent, ConnectedIsLive
<1>4. Next => ConsumerNext \/ \E k \in Conns : HandlerNext(k)
  BY DEF Next, ConnectStep, SendStep, RemoveStep, ConsumerStep, HandlerNext, ConsumerNext
<1> QED
  BY <1>1, <1>2, <1>3, <1>4

\* The registry, the locks and the goroutines keep to HubInv: whoever stands
\* between the Lock and the Unlock of clientMetasMutex holds it, and what chats,
\* clientMetas and sessions say of a client agrees while nobody is between.
THEOREM RegistryInvariant == Spec => []HubInv
<1>1. Init => HubInv
  BY InitTypeOK, InitHubInv DEF HubInv
<1> QED
  BY <1>1, StepHubInv, PTL DEF Spec

\* The variables of the registry keep their types.
THEOREM HubTypeCorrect == Spec => []TypeOK
<1>1. HubInv => TypeOK
  BY DEF HubInv
<1> QED
  BY <1>1, RegistryInvariant, PTL

\* A session is a connected client of one chat at most, the one its ClientMeta
\* names, although Hub.ConnectClient lets go of chatsMutex between the two chats.
THEOREM SessionInOneChat == Spec => []ConnectedIsCurrent
<1>1. HubInv => ConnectedIsCurrent
  BY DEF HubInv, ClientInv
<1> QED
  BY <1>1, RegistryInvariant, PTL

\* No chat keeps a connected client whose handler has ended, by
\* Hub.RemoveClient or by the panic that skips it.
THEOREM NoDeadClientConnected == Spec => []ConnectedIsLive
<1>1. HubInv => ConnectedIsLive
  BY DEF HubInv, ClientInv
<1> QED
  BY <1>1, RegistryInvariant, PTL
-----------------------------------------------------------------------------
(* What a page hears.                                                      *)

ConnectedTo(k, c) == connected[c][session[k]] = k /\ metas[session[k]].chat = c

Placed(k, c) == k \in {connected[c][session[k]], disconnected[c][session[k]]}

\* Only the first ConnectClient of a connection names no chat and has chats to
\* visit.
FirstVisit(k) ==
    /\ pc[k] = "new" => target[k] = NoChat /\ found[k] = {}
    /\ target[k] = NoChat => shows[k] = NoChat
    /\ todo[k] # {} => pc[k] = "joinChat" /\ target[k] = NoChat

\* The only connection of its session is in the chat it went to, and has its
\* window unless it could not be made.
WindowOK(k) ==
    /\ /\ Alone(k) /\ pc[k] \in {"view", "write", "reading"}
       /\ target[k] \notin replaced \cup {NoChat}
       => ConnectedTo(k, target[k])
    /\ pc[k] = "reading" => shows[k] = target[k] \/ k \in windowless

\* It has a place in the chats it found, or is about to get it.
FoundOK(k) ==
    /\ found[k] \subseteq known
    /\ Alone(k) /\ pc[k] # "gone" =>
          \A c \in found[k] \ replaced : c \in todo[k] \/ Placed(k, c)

PlaceOf(k) == FirstVisit(k) /\ WindowOK(k) /\ FoundOK(k)
PlaceInv == \A k \in Conns : PlaceOf(k)

LEMMA InitPlace == Init => PlaceInv
BY NamesAssumption
   DEF Init, PlaceInv, PlaceOf, FirstVisit, WindowOK, FoundOK, Threads

\* A step that leaves k, its session and its places alone, but for those in
\* chats that are replaced.
LEMMA Bystander ==
    ASSUME HubInv, NEW k \in Conns, PlaceOf(k),
           known \subseteq known', replaced \subseteq replaced',
           session'[k] = session[k], target'[k] = target[k], shows'[k] = shows[k],
           found'[k] = found[k], todo'[k] = todo[k], pc'[k] = pc[k],
           k \in windowless' <=> k \in windowless,
           pc[k] # "new" /\ Alone(k)' =>
               /\ Alone(k)
               /\ metas'[session[k]] = metas[session[k]]
               /\ \A c \in known \ replaced' :
                      /\ connected'[c][session[k]] = connected[c][session[k]]
                      /\ disconnected'[c][session[k]] = disconnected[c][session[k]]
    PROVE  PlaceOf(k)'
<1>1. FirstVisit(k)'
  BY DEF PlaceOf, FirstVisit
<1>2. WindowOK(k)'
  <2> SUFFICES ASSUME Alone(k)', pc'[k] \in {"view", "write", "reading"},
                      target'[k] \notin replaced' \cup {NoChat}
               PROVE  ConnectedTo(k, target[k])'
    BY DEF PlaceOf, WindowOK
  <2> DEFINE w == target[k]
             s == session[k]
  <2>1. target'[k] = w /\ w \in Chats /\ s \in Sessions
    BY DEF HubInv, TypeOK, LockInv, HasSession
  <2>2. connected[w][s] = k /\ metas[s].chat = w
    BY <2>1 DEF PlaceOf, WindowOK, ConnectedTo
  <2>3. w \in known \ replaced'
    BY <2>1, <2>2, NamesAssumption DEF HubInv, ClientInv, ConnectedIsKnown
  <2>4. connected'[w][s] = k /\ metas'[s].chat = w
    BY <2>2, <2>3
  <2> QED
    BY <2>1, <2>4 DEF ConnectedTo
<1>3. FoundOK(k)'
  BY DEF PlaceOf, FirstVisit, FoundOK, Placed
<1> QED
  BY <1>1, <1>2, <1>3 DEF PlaceOf

\* Another session's handler touches entries of its own session only.
LEMMA OthersPlace ==
    ASSUME HubInv, NEW j \in Conns, HandlerNext(j), NEW k \in Conns \ {j}, PlaceOf(k)
    PROVE  PlaceOf(k)'
<1> USE DEF HubInv
<1>1. UNCHANGED <<known, replaced>>
  BY DEF HandlerNext, Open, ChangeChat, ReadFails, ConnectClient, LockToLeave,
     DisconnectClientFormChat, ReadPrevChat, LockToJoin, EnterAsDisconnected, JoinChat,
     JoinNothing, ViewFails, LockToSend, Send, RemoveClient, LockToRemove,
     RemoveFromChat, registry, consumerSide
<1>2. /\ session'[k] = session[k] /\ target'[k] = target[k] /\ shows'[k] = shows[k]
      /\ found'[k] = found[k] /\ todo'[k] = todo[k]
      /\ k \in windowless' <=> k \in windowless
  BY DEF HandlerNext, Open, ChangeChat, ReadFails, ConnectClient, LockToLeave,
     DisconnectClientFormChat, ReadPrevChat, LockToJoin, EnterAsDisconnected, JoinChat,
     JoinNothing, ViewFails, LockToSend, Send, RemoveClient, LockToRemove,
     RemoveFromChat, handlerVars, TypeOK
<1>3. pc'[k] = pc[k]
  BY DEF HandlerNext, Open, ChangeChat, ReadFails, ConnectClient, LockToLeave,
     DisconnectClientFormChat, ReadPrevChat, LockToJoin, EnterAsDisconnected, JoinChat,
     JoinNothing, ViewFails, LockToSend, Send, RemoveClient, LockToRemove,
     RemoveFromChat, Goto, TypeOK, Threads
<1>4. \A i \in Conns : session'[i] = session[i] \/ pc[i] = "new"
  BY DEF HandlerNext, Open, ChangeChat, ReadFails, ConnectClient, LockToLeave,
     DisconnectClientFormChat, ReadPrevChat, LockToJoin, EnterAsDisconnected, JoinChat,
     JoinNothing, ViewFails, LockToSend, Send, RemoveClient, LockToRemove,
     RemoveFromChat, handlerVars, TypeOK
<1>5. ASSUME NEW r \in Sessions, r # session'[j]
      PROVE  /\ metas'[r] = metas[r]
             /\ \A c \in Chats : /\ connected'[c][r] = connected[c][r]
                                 /\ disconnected'[c][r] = disconnected[c][r]
  <2>1. CASE ConnectClient(j)
    <3>1. r # session[j] /\ UNCHANGED <<connected, disconnected>>
      BY <1>5, <2>1 DEF ConnectClient, clients, handlerVars
    <3>2. metas'[r] = metas[r]
      BY <2>1, <3>1 DEF ConnectClient, TypeOK
    <3> QED
      BY <3>1, <3>2
  <2>2. CASE DisconnectClientFormChat(j)
    <3>1. r # session[j] /\ metas' = metas
      BY <1>5, <2>2 DEF DisconnectClientFormChat, handlerVars
    <3>2. \/ UNCHANGED <<connected, disconnected>>
          \/ MoveToDisconnected(j, metas[session[j]].chat)
      BY <2>2 DEF DisconnectClientFormChat, clients
    <3> QED
      BY <3>1, <3>2 DEF MoveToDisconnected, TypeOK
  <2>3. CASE \E d \in Chats : EnterAsDisconnected(j, d)
    BY <1>5, <2>3 DEF EnterAsDisconnected, MoveToDisconnected, TypeOK
  <2>4. CASE JoinChat(j)
    <3>1. r # session[j]
      BY <1>5, <2>4 DEF JoinChat, handlerVars
    <3>2. metas'[r] = metas[r]
      BY <2>4, <3>1 DEF JoinChat, TypeOK
    <3>3. \A c \in Chats : /\ connected'[c][r] = connected[c][r]
                          /\ disconnected'[c][r] = disconnected[c][r]
      BY <2>4, <3>1 DEF JoinChat, TypeOK
    <3> QED
      BY <3>2, <3>3
  <2>5. CASE RemoveFromChat(j)
    <3>1. r # session[j]
      BY <1>5, <2>5 DEF RemoveFromChat, handlerVars
    <3>2. metas'[r] = metas[r]
      BY <2>5, <3>1 DEF RemoveFromChat, TypeOK
    <3>3. \A c \in Chats : /\ connected'[c][r] = connected[c][r]
                          /\ disconnected'[c][r] = disconnected[c][r]
      <4> DEFINE s == session[j]
                 d == metas[s].chat
      <4>1. \/ UNCHANGED <<connected, disconnected>>
            \/ /\ connected' = [connected EXCEPT ![d][s] = NoConn]
               /\ disconnected' = [disconnected EXCEPT ![d][s] = NoConn]
        BY <2>5 DEF RemoveFromChat, clients
      <4> QED
        BY <3>1, <4>1 DEF TypeOK
    <3> QED
      BY <3>2, <3>3
  <2>6. CASE UNCHANGED registry
    BY <2>6 DEF registry, clients
  <2> QED
    BY <2>1, <2>2, <2>3, <2>4, <2>5, <2>6 DEF HandlerNext, Open, ChangeChat, ReadFails,
       LockToLeave, ReadPrevChat, LockToJoin, JoinNothing, ViewFails, LockToSend, Send,
       RemoveClient, LockToRemove
<1>6. ASSUME pc[k] # "new", Alone(k)'
      PROVE  Alone(k) /\ session[k] \in Sessions /\ session[k] # session'[j]
  <2>1. session[k] \in Sessions
    BY <1>6 DEF LockInv, HasSession
  <2>2. \A i \in Conns : session[i] = session[k] => session'[i] = session'[k]
    BY <1>2, <1>4, <2>1, NamesAssumption DEF LockInv, HasSession
  <2> QED
    BY <1>2, <1>6, <2>1, <2>2 DEF Alone
<1> QED
  BY <1>1, <1>2, <1>3, <1>5, <1>6, Bystander DEF TypeOK

LEMMA ConsumerPlace ==
    ASSUME HubInv, ConsumerNext, NEW k \in Conns, PlaceOf(k)
    PROVE  PlaceOf(k)'
<1> USE DEF HubInv
<1>1. pc'[k] = pc[k]
  BY NamesAssumption DEF ConsumerNext, ReceiveNewChat, ReceiveMessage, Receive, LockToPut,
     PutChat, LockToAnnounce, GetChat, Broadcast, StartWrite, FinishWrite, FinishDelivery,
     Done, Goto, TypeOK, Threads
<1>2. UNCHANGED <<metas, handlerVars>>
  BY DEF ConsumerNext, ReceiveNewChat, ReceiveMessage, Receive, LockToPut,
     PutChat, LockToAnnounce, GetChat, Broadcast, StartWrite, FinishWrite, FinishDelivery,
     Done, registry
<1>3. Alone(k)' => Alone(k)
  BY <1>2 DEF Alone, handlerVars
<1>4. /\ known \subseteq known' /\ replaced \subseteq replaced'
      /\ \A c \in known \ replaced' : connected'[c] = connected[c]
                                    /\ disconnected'[c] = disconnected[c]
  <2>1. CASE PutChat
    BY <2>1 DEF PutChat, TypeOK
  <2>2. CASE ~ PutChat
    BY <2>2 DEF ConsumerNext, ReceiveNewChat, ReceiveMessage, Receive, LockToPut,
       LockToAnnounce, GetChat, Broadcast, StartWrite, FinishWrite, FinishDelivery,
       Done, registry, clients, consumerSide
  <2> QED
    BY <2>1, <2>2
<1> QED
  BY <1>1, <1>2, <1>3, <1>4, Bystander DEF handlerVars

LEMMA OwnPlace ==
    ASSUME HubInv, NEW k \in Conns, HandlerNext(k), PlaceOf(k)
    PROVE  PlaceOf(k)'
<1> USE DEF HubInv, PlaceOf
<1> DEFINE s == session[k]
<1>20. pc \in [Threads -> Labels] /\ k \in Threads /\ Conns \subseteq Threads
  BY DEF TypeOK, Threads
<1>21. pc[k] # "new" => s \in Sessions
  BY DEF LockInv, HasSession
<1>1. CASE Open(k)
  <2>1. /\ pc[k] = "new" /\ pc'[k] = "connect" /\ target'[k] = NoChat
        /\ UNCHANGED <<known, todo, shows, found>>
    BY <1>1, <1>20 DEF Open, Goto, registry, TypeOK
  <2> QED
    BY <2>1 DEF FirstVisit, WindowOK, FoundOK
<1>2. CASE ChangeChat(k)
  <2>1. /\ pc[k] = "reading" /\ pc'[k] = "connect" /\ target'[k] # NoChat
        /\ UNCHANGED <<registry, session, todo, shows, found, replaced>>
    BY <1>2, <1>20, NamesAssumption DEF ChangeChat, Goto, TypeOK, consumerSide
  <2>2. FirstVisit(k)' /\ WindowOK(k)'
    BY <2>1 DEF FirstVisit, WindowOK
  <2>3. FoundOK(k)'
    BY <2>1 DEF FoundOK, Alone, Placed, registry, clients
  <2> QED
    BY <2>2, <2>3
\* Steps of a call that touch neither chats nor window.
<1>3. CASE \/ ConnectClient(k) \/ LockToLeave(k) \/ ReadPrevChat(k)
           \/ RemoveClient(k) \/ LockToRemove(k)
  <2>1. /\ pc[k] \notin {"new", "gone", "joinChat"}
        /\ pc'[k] \notin {"new", "gone", "view", "write", "reading"}
    BY <1>3, <1>20 DEF ConnectClient, LockToLeave, ReadPrevChat, RemoveClient,
       LockToRemove, Goto
  <2>2. UNCHANGED <<known, clients, handlerVars, replaced>>
    BY <1>3 DEF ConnectClient, LockToLeave, ReadPrevChat, RemoveClient,
       LockToRemove, registry, consumerSide
  <2>3. FirstVisit(k)' /\ WindowOK(k)'
    BY <2>1, <2>2 DEF FirstVisit, WindowOK, handlerVars
  <2>4. FoundOK(k)'
    BY <2>1, <2>2 DEF FoundOK, Alone, Placed, clients, handlerVars
  <2> QED
    BY <2>3, <2>4
<1>11. CASE ReadFails(k)
  <2>1. /\ pc[k] = "reading" /\ pc'[k] = "remove" /\ shows'[k] = NoChat
        /\ UNCHANGED <<registry, session, target, todo, found, replaced>>
    BY <1>11, <1>20 DEF ReadFails, Goto, consumerSide, TypeOK
  <2> QED
    BY <2>1 DEF FirstVisit, WindowOK, FoundOK, Alone, Placed, registry, clients
<1>4. CASE DisconnectClientFormChat(k)
  <2>1. /\ pc[k] = "leaveChat" /\ pc'[k] = "readPrev"
        /\ UNCHANGED <<known, handlerVars, replaced>>
    BY <1>4, <1>20 DEF DisconnectClientFormChat, Goto, consumerSide
  <2>2. FirstVisit(k)' /\ WindowOK(k)'
    BY <2>1 DEF FirstVisit, WindowOK, handlerVars
  <2>3. \A c \in Chats : Placed(k, c) => Placed(k, c)'
    BY <1>4, <1>21, <2>1 DEF DisconnectClientFormChat, MoveToDisconnected, Placed,
       handlerVars, clients, TypeOK
  <2>4. FoundOK(k)'
    BY <2>1, <2>3 DEF FoundOK, Alone, handlerVars, TypeOK
  <2> QED
    BY <2>2, <2>4
<1>5. CASE LockToJoin(k)
  <2>1. /\ pc[k] = "join" /\ pc'[k] = "joinChat"
        /\ UNCHANGED <<registry, session, target, shows, replaced>>
    BY <1>5, <1>20 DEF LockToJoin, Goto, consumerSide
  <2>2. \/ target[k] = NoChat /\ todo'[k] = known /\ found'[k] = known
        \/ target[k] # NoChat /\ todo'[k] = {} /\ found'[k] = found[k]
    BY <1>5 DEF LockToJoin, TypeOK
  <2>3. FirstVisit(k)' /\ WindowOK(k)'
    BY <2>1, <2>2 DEF FirstVisit, WindowOK
  <2>4. FoundOK(k)'
    BY <2>1, <2>2 DEF FirstVisit, FoundOK, Alone, Placed, registry, clients
  <2> QED
    BY <2>3, <2>4
<1>6. ASSUME NEW c \in Chats, EnterAsDisconnected(k, c)
      PROVE  PlaceOf(k)'
  <2>1. /\ pc[k] = "joinChat" /\ UNCHANGED <<pc, known, session, target, shows, found, replaced>>
        /\ todo'[k] = todo[k] \ {c}
    BY <1>6 DEF EnterAsDisconnected, consumerSide, TypeOK
  <2>2. /\ Placed(k, c)'
        /\ \A d \in Chats \ {c} : Placed(k, d) => Placed(k, d)'
    BY <1>6, <1>21, <2>1 DEF EnterAsDisconnected, MoveToDisconnected, Placed, TypeOK
  <2>3. FirstVisit(k)' /\ WindowOK(k)'
    BY <2>1 DEF FirstVisit, WindowOK
  <2>4. FoundOK(k)'
    BY <2>1, <2>2 DEF FoundOK, Alone, TypeOK
  <2> QED
    BY <2>3, <2>4
<1>7. CASE JoinChat(k)
  <2> DEFINE c == target[k]
  <2>1. /\ pc[k] = "joinChat" /\ pc'[k] = "view" /\ c \in known /\ c \in Chats
        /\ UNCHANGED <<known, handlerVars, replaced>>
    BY <1>7, <1>20 DEF JoinChat, Goto, consumerSide, TypeOK
  <2>2. todo[k] = {}
    BY <2>1, NamesAssumption DEF FirstVisit
  <2>3. ConnectedTo(k, c)' /\ target'[k] = c
    BY <1>7, <1>21, <2>1 DEF JoinChat, ConnectedTo, handlerVars, TypeOK
  <2>4. \A d \in Chats : Placed(k, d) => Placed(k, d)'
    BY <1>7, <1>21, <2>1 DEF JoinChat, Placed, handlerVars, TypeOK
  <2>5. FirstVisit(k)' /\ WindowOK(k)'
    BY <2>1, <2>2, <2>3 DEF FirstVisit, WindowOK, handlerVars
  <2>6. FoundOK(k)'
    BY <2>1, <2>4 DEF FoundOK, Alone, handlerVars, TypeOK
  <2> QED
    BY <2>5, <2>6
<1>8. CASE JoinNothing(k)
  <2>1. /\ pc[k] = "joinChat" /\ todo[k] = {}
        /\ pc'[k] \in {"reading", "panicked"}
        /\ pc'[k] = "reading" => target[k] = NoChat
        /\ UNCHANGED <<registry, handlerVars, replaced>>
    BY <1>8, <1>20 DEF JoinNothing, Goto, consumerSide
  <2>2. FirstVisit(k)' /\ WindowOK(k)'
    BY <2>1 DEF FirstVisit, WindowOK, handlerVars
  <2>3. FoundOK(k)'
    BY <2>1 DEF FoundOK, Alone, Placed, registry, clients, handlerVars
  <2> QED
    BY <2>2, <2>3
<1>9. CASE ViewFails(k) \/ LockToSend(k) \/ Send(k)
  <2>1. /\ pc[k] \in {"view", "write"} /\ pc'[k] \in {"write", "reading"}
        /\ shows'[k] \in {shows[k], target[k]}
        /\ pc'[k] = "reading" => shows'[k] = target[k] \/ k \in windowless'
        /\ UNCHANGED <<registry, session, target, todo, found, replaced>>
    BY <1>9, <1>20 DEF ViewFails, LockToSend, Send, Goto, consumerSide, handlerVars, TypeOK
  <2>2. FirstVisit(k)'
    BY <2>1 DEF FirstVisit
  <2>4. WindowOK(k)'
    BY <2>1 DEF WindowOK, Alone, ConnectedTo, registry, clients
  <2>5. FoundOK(k)'
    BY <2>1 DEF FoundOK, Alone, Placed, registry, clients
  <2> QED
    BY <2>2, <2>4, <2>5
<1>10. CASE RemoveFromChat(k)
  <2>1. /\ pc[k] = "removeChat" /\ pc'[k] = "gone"
        /\ UNCHANGED <<known, handlerVars, replaced>>
    BY <1>10, <1>20 DEF RemoveFromChat, Goto, consumerSide
  <2> QED
    BY <2>1 DEF FirstVisit, WindowOK, FoundOK, handlerVars
<1> QED
  BY <1>1, <1>2, <1>3, <1>4, <1>5, <1>6, <1>7, <1>8, <1>9, <1>10, <1>11 DEF HandlerNext

LEMMA StepPlace == HubInv /\ PlaceInv /\ [Next]_vars => PlaceInv'
<1> SUFFICES ASSUME HubInv, PlaceInv, [Next]_vars, NEW k \in Conns
             PROVE  PlaceOf(k)'
  BY DEF PlaceInv
<1>1. PlaceOf(k)
  BY DEF PlaceInv
<1>2. ASSUME NEW j \in Conns, HandlerNext(j)
      PROVE  PlaceOf(k)'
  BY <1>1, <1>2, OwnPlace, OthersPlace
<1>3. CASE ConsumerNext
  BY <1>1, <1>3, ConsumerPlace
<1>4. CASE UNCHANGED vars
  BY <1>1, <1>4 DEF vars, registry, clients, handlerVars, consumerSide, PlaceOf,
     FirstVisit, WindowOK, FoundOK, ConnectedTo, Placed, Alone
<1>5. Next => ConsumerNext \/ \E j \in Conns : HandlerNext(j)
  BY DEF Next, ConnectStep, SendStep, RemoveStep, ConsumerStep, HandlerNext, ConsumerNext
<1> QED
  BY <1>2, <1>3, <1>4, <1>5

LEMMA PlaceInvariant == Spec => []PlaceInv
<1>1. Init => HubInv
  BY InitTypeOK, InitHubInv DEF HubInv
<1> QED
  BY <1>1, InitPlace, StepHubInv, StepPlace, PTL DEF Spec

\* The only connection of a session hears the chat it went to last, and has that
\* chat's window unless its messages could not be read: neither Hub.ConnectClient, nor a handler of another session, nor an
\* announcement of another chat takes it out.
THEOREM HearsItsChat == Spec => []HearsTheChatItShows
<1>1. PlaceInv => HearsTheChatItShows
  BY DEF PlaceInv, PlaceOf, WindowOK, ConnectedTo, HearsTheChatItShows
<1> QED
  BY <1>1, PlaceInvariant, PTL

\* Such a connection has a place in every chat that its first ConnectClient
\* found, whichever chats it has moved between.
THEOREM HearsOfFoundChats == Spec => []HearsOfEveryChatItFound
<1>1. PlaceInv => HearsOfEveryChatItFound
  BY DEF PlaceInv, PlaceOf, FirstVisit, FoundOK, Placed, HearsOfEveryChatItFound
<1> QED
  BY <1>1, PlaceInvariant, PTL
-----------------------------------------------------------------------------
(* Nobody waits in a circle.                                               *)

\* Who holds a lock stands between its Lock and its Unlock.
MetasHolder ==
    \A t \in Threads : metasLock = t =>
        \/ t \in Conns /\ pc[t] \in HoldingMetas
        \/ /\ t = Consumer /\ pc[Consumer] \in {"deliver", "writing"}
           /\ note.type = "newChat"

ChatsHolder ==
    \A t \in Threads :
        chatsLock = t => pc[t] \in {"leaveChat", "joinChat", "removeChat", "putChat"}

ClientsHolder ==
    \A c \in Chats : clientsLock[c] # Nobody =>
        /\ pc[Consumer] \in {"deliver", "writing"}
        /\ note.type = "message" /\ note.chat = c

ConnHolder ==
    \A k \in Conns :
        /\ connMux[k] \in Conns => connMux[k] = k /\ pc[k] = "write"
        /\ connMux[k] = Consumer =>
              /\ pc[Consumer] = "writing"
              /\ \A j \in Conns : connMux[j] = Consumer => j = k

HolderInv == MetasHolder /\ ChatsHolder /\ ClientsHolder /\ ConnHolder

LEMMA InitHolder == Init => HolderInv
BY NamesAssumption
   DEF Init, HolderInv, MetasHolder, ChatsHolder, ClientsHolder, ConnHolder, Threads

LEMMA HandlerHolder ==
    ASSUME HubInv, HolderInv, NEW k \in Conns, HandlerNext(k)
    PROVE  HolderInv'
<1> USE NamesAssumption
    DEF HubInv, TypeOK, HolderInv, MetasHolder, ChatsHolder, ClientsHolder, ConnHolder,
        HoldingMetas, Connecting, Threads, Goto, consumerSide, consumerVars, locks,
        innerLocks
<1>1. CASE Open(k)
  BY <1>1 DEF Open
<1>2. CASE ChangeChat(k)
  BY <1>2 DEF ChangeChat
<1>3. CASE ReadFails(k)
  BY <1>3 DEF ReadFails
<1>4. CASE ConnectClient(k)
  BY <1>4 DEF ConnectClient, LockMetas
<1>5. CASE LockToLeave(k)
  BY <1>5 DEF LockToLeave, LockChats
<1>6. CASE DisconnectClientFormChat(k)
  BY <1>6 DEF DisconnectClientFormChat, UnlockChats
<1>7. CASE ReadPrevChat(k)
  BY <1>7 DEF ReadPrevChat
<1>8. CASE LockToJoin(k)
  BY <1>8 DEF LockToJoin, LockChats
<1>9. CASE \E c \in Chats : EnterAsDisconnected(k, c)
  BY <1>9 DEF EnterAsDisconnected
<1>10. CASE JoinChat(k)
  BY <1>10 DEF JoinChat, UnlockMetas, UnlockChats
<1>11. CASE JoinNothing(k)
  BY <1>11 DEF JoinNothing, UnlockMetas, UnlockChats
<1>12. CASE ViewFails(k)
  BY <1>12 DEF ViewFails
<1>13. CASE LockToSend(k)
  BY <1>13 DEF LockToSend
<1>14. CASE Send(k)
  BY <1>14 DEF Send
<1>15. CASE RemoveClient(k)
  BY <1>15 DEF RemoveClient, LockMetas
<1>16. CASE LockToRemove(k)
  BY <1>16 DEF LockToRemove, LockChats
<1>17. CASE RemoveFromChat(k)
  BY <1>17 DEF RemoveFromChat, UnlockMetas, UnlockChats
<1> QED
  BY <1>1, <1>2, <1>3, <1>4, <1>5, <1>6, <1>7, <1>8, <1>9, <1>10, <1>11, <1>12,
        <1>13, <1>14, <1>15, <1>16, <1>17 DEF HandlerNext

LEMMA ConsumerHolder ==
    ASSUME HubInv, HolderInv, ConsumerNext
    PROVE  HolderInv'
<1> USE NamesAssumption
    DEF HubInv, TypeOK, LockInv, NoteInHand, HolderInv, MetasHolder, ChatsHolder,
        ClientsHolder, ConnHolder, HoldingMetas, Connecting, Threads, Goto, consumerSide,
        consumerVars, locks, innerLocks
<1>1. CASE \E c \in Chats : ReceiveNewChat(c) \/ ReceiveMessage(c)
  BY <1>1 DEF ReceiveNewChat, ReceiveMessage, Receive
<1>2. CASE LockToPut
  BY <1>2 DEF LockToPut, LockChats
<1>3. CASE PutChat
  BY <1>3 DEF PutChat, UnlockChats
<1>4. CASE LockToAnnounce
  BY <1>4 DEF LockToAnnounce, LockMetas
<1>5. CASE GetChat
  BY <1>5 DEF GetChat, Done
<1>6. CASE Broadcast
  BY <1>6 DEF Broadcast
<1>7. ASSUME NEW k \in Conns, StartWrite(k) \/ FinishWrite(k)
      PROVE  HolderInv'
  <2>1. CASE StartWrite(k)
    BY <2>1, SMTT(30) DEF StartWrite
  <2>2. CASE FinishWrite(k)
    BY <2>2, SMTT(30) DEF FinishWrite
  <2> QED
    BY <1>7, <2>1, <2>2
<1>8. CASE FinishDelivery
  BY <1>8 DEF FinishDelivery, Done, UnlockMetas
<1> QED
  BY <1>1, <1>2, <1>3, <1>4, <1>5, <1>6, <1>7, <1>8 DEF ConsumerNext

LEMMA StepHolder == HubInv /\ HolderInv /\ [Next]_vars => HolderInv'
<1> SUFFICES ASSUME HubInv, HolderInv, [Next]_vars PROVE HolderInv'
  OBVIOUS
<1>1. CASE UNCHANGED vars
  BY <1>1 DEF vars, HolderInv, MetasHolder, ChatsHolder, ClientsHolder, ConnHolder,
     consumerSide, consumerVars, locks, innerLocks
<1>2. CASE Next
  <2>1. (\E k \in Conns : HandlerNext(k)) \/ ConsumerNext
    BY <1>2 DEF Next, HandlerNext, ConsumerNext, ConnectStep, SendStep, RemoveStep,
       ConsumerStep
  <2> QED
    BY <2>1, HandlerHolder, ConsumerHolder
<1> QED
  BY <1>1, <1>2

\* The locks in the order in which they are taken, and a goroutine's place in
\* that order: the lock it stands before.
Level(t) ==
    IF pc[t] \in {"connect", "remove", "lockMetas"} THEN 1
    ELSE IF pc[t] \in {"leave", "join", "removeLocked", "lockChats", "getChat"} THEN 2
    ELSE IF pc[t] \in {"leaveChat", "joinChat", "removeChat", "broadcast"} THEN 3
    ELSE IF pc[t] \in {"view", "deliver"} THEN 4
    ELSE 5

\* Whoever holds a lock is past it: it stands before a later one or before none.
LEMMA WaitsForLaterLock ==
    ASSUME TypeOK, HolderInv, NEW t \in Threads, NEW u \in Threads, WaitsFor(t, u)
    PROVE  Level(t) < Level(u)
<1> USE NamesAssumption DEF Threads
<1>1. CASE pc[t] \in {"connect", "remove", "lockMetas"} /\ metasLock = u
  <2>1. pc[u] \in HoldingMetas \cup {"deliver", "writing"}
    BY <1>1 DEF HolderInv, MetasHolder
  <2> QED
    BY <1>1, <2>1 DEF Level, HoldingMetas, Connecting
<1>2. CASE /\ pc[t] \in {"leave", "join", "removeLocked", "lockChats", "getChat"}
           /\ chatsLock = u
  <2>1. pc[u] \in {"leaveChat", "joinChat", "removeChat", "putChat"}
    BY <1>2 DEF HolderInv, ChatsHolder
  <2> QED
    BY <1>2, <2>1 DEF Level
<1>3. ASSUME NEW c \in known, clientsLock[c] = u,
             pc[t] \in {"leaveChat", "removeChat", "joinChat", "broadcast"}
      PROVE  Level(t) < Level(u)
  <2>1. c \in Chats /\ u = Consumer
    BY <1>3 DEF TypeOK
  <2>2. pc[u] \in {"deliver", "writing"}
    BY <1>3, <2>1 DEF HolderInv, ClientsHolder
  <2> QED
    BY <1>3, <2>2 DEF Level
<1>4. ASSUME NEW k \in Conns, connMux[k] = u, pc[t] \in {"view", "deliver"}
      PROVE  Level(t) < Level(u)
  <2>1. pc[u] \in {"write", "writing"}
    BY <1>4 DEF HolderInv, ConnHolder
  <2> QED
    BY <1>4, <2>1 DEF Level
<1> QED
  BY <1>1, <1>2, <1>3, <1>4 DEF WaitsFor

\* Among any goroutines the one furthest in the order waits for none of them.
LEMMA FurthestIsFree ==
    ASSUME TypeOK, HolderInv
    PROVE  NoCircularWait
<1> SUFFICES ASSUME NEW S \in SUBSET Threads, S # {}
             PROVE  \E t \in S : \A u \in S : ~ WaitsFor(t, u)
  BY DEF NoCircularWait
<1>1. \A t \in S : Level(t) \in 1 .. 5
  BY DEF Level
<1>2. PICK t \in S : \A u \in S : Level(u) <= Level(t)
  <2> DEFINE At(n) == \E t \in S : Level(t) = n
  <2>1. CASE At(5)
    BY <1>1, <2>1
  <2>2. CASE ~ At(5) /\ At(4)
    BY <1>1, <2>2
  <2>3. CASE ~ At(5) /\ ~ At(4) /\ At(3)
    BY <1>1, <2>3
  <2>4. CASE ~ At(5) /\ ~ At(4) /\ ~ At(3) /\ At(2)
    BY <1>1, <2>4
  <2>5. CASE ~ At(5) /\ ~ At(4) /\ ~ At(3) /\ ~ At(2)
    BY <1>1, <2>5
  <2> QED
    BY <2>1, <2>2, <2>3, <2>4, <2>5
<1>3. ASSUME NEW u \in S, WaitsFor(t, u)
      PROVE  FALSE
  <2>1. Level(t) < Level(u)
    BY <1>3, WaitsForLaterLock
  <2> QED
    BY <1>1, <1>2, <2>1
<1> QED
  BY <1>3

\* No goroutines of the webapp wait for one another in a circle, however many
\* connections and chats there are.
THEOREM NobodyWaitsInACircle == Spec => []NoCircularWait
<1>1. Init => HolderInv
  BY InitHolder
<1>2. HubInv => TypeOK
  BY DEF HubInv
<1>3. TypeOK /\ HolderInv => NoCircularWait
  BY FurthestIsFree
<1> QED
  BY <1>1, <1>2, <1>3, StepHolder, RegistryInvariant, PTL DEF Spec
=============================================================================
