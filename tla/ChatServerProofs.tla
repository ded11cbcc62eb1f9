-------------------------- MODULE ChatServerProofs --------------------------
(***************************************************************************)
(* Theorems about ChatServer, for any number of workers, webapps, users,   *)
(* events and faults.                                                      *)
(***************************************************************************)
EXTENDS ChatServer, SequenceTheorems, TLAPS

Changes == {"edit", "hide", "show", "delete"}

\* What is queued, delivered or buffered is an event that was published.
DeliveriesOK ==
    /\ ready \subseteq DOMAIN events
    /\ \A w \in Workers : unacked[w] \subseteq DOMAIN events
    /\ \A w \in Workers : \A i \in DOMAIN buffer[w] : buffer[w][i] \in DOMAIN events

\* A worker at work has an event in hand.
InHandOK ==
    \A w \in Workers : pc[w] \notin {"off", "idle"} => cur[w] \in DOMAIN events

\* A change names a message that is stored, and a user where it needs one.
EventRefsOK ==
    \A e \in DOMAIN events :
        /\ events[e].type \in Changes => events[e].msg \in DOMAIN docs
        /\ events[e].type \in {"hide", "show"} => events[e].user \in Users

TypeInv == TypeOK /\ DeliveriesOK /\ InHandOK /\ EventRefsOK

LEMMA InitTypeInv == Init => TypeInv
BY ConstantsAssumption DEF Init, TypeInv, TypeOK, BrokerOK, WorkersOK, StoreOK, HubsOK,
   HistoryOK, DeliveriesOK, InHandOK, EventRefsOK, NoResult, NoDoc,
   Notification, Doc, MessageTypes


-----------------------------------------------------------------------------
(* Data in hand has its type.                                              *)

LEMMA InHandEvent ==
    ASSUME TypeInv, NEW w \in Workers, pc[w] \notin {"off", "idle"}
    PROVE  /\ cur[w] \in Nat
           /\ cur[w] \in DOMAIN events
           /\ events[cur[w]] \in Event
BY DEF TypeInv, TypeOK, BrokerOK, WorkersOK, InHandOK

LEMMA SubjectType == \A n \in Notification : Subject(n) \in Subjects
BY DEF Notification, Subject, Subjects

LEMMA NoResultType == NoResult \in Notification
BY DEF NoResult, NoDoc, Notification, Doc, MessageTypes

-----------------------------------------------------------------------------
(* Publishing.                                                             *)

LEMMA PublishEventTypeInv ==
    ASSUME TypeInv, NEW h \in Hubs, NEW evt \in Event, PublishEvent(h, evt),
           evt.type \in Changes => evt.msg \in DOMAIN docs,
           evt.type \in {"hide", "show"} => evt.user \in Users
    PROVE  TypeInv'
<1>1. /\ events \in Seq(Event)
      /\ events' = Append(events, evt)
      /\ ready' = ready \cup {Len(events) + 1}
  BY DEF TypeInv, TypeOK, BrokerOK, PublishEvent
<1>2. /\ events' \in Seq(Event)
      /\ DOMAIN events' = DOMAIN events \cup {Len(events) + 1}
      /\ Len(events) + 1 \in Nat
      /\ \A e \in DOMAIN events : events'[e] = events[e]
      /\ events'[Len(events) + 1] = evt
  BY <1>1
<1>3. UNCHANGED <<redelivered, attached, connected, held, unacked, buffer, workerVars,
                  storeVars, hubVars, faults, history>>
  BY DEF PublishEvent
<1>4. BrokerOK'
  BY <1>1, <1>2, <1>3 DEF TypeInv, TypeOK, BrokerOK
<1>5. WorkersOK' /\ StoreOK' /\ HubsOK' /\ HistoryOK'
  BY <1>3 DEF TypeInv, TypeOK, WorkersOK, StoreOK, HubsOK, HistoryOK, workerVars,
     storeVars, hubVars, history
<1>6. DeliveriesOK'
  <2>1. ready' \subseteq DOMAIN events'
    BY <1>1, <1>2 DEF TypeInv, DeliveriesOK
  <2> QED
    BY <2>1, <1>2, <1>3 DEF TypeInv, DeliveriesOK
<1>7. InHandOK'
  BY <1>2, <1>3 DEF TypeInv, InHandOK, workerVars
<1>8. EventRefsOK'
  BY <1>2, <1>3, Zenon DEF TypeInv, EventRefsOK, storeVars
<1> QED
  BY <1>4, <1>5, <1>6, <1>7, <1>8 DEF TypeInv, TypeOK

LEMMA PostTypeInv ==
    ASSUME TypeInv, NEW h \in Hubs, PostMessage(h) \/ PostChange(h) \/ AddChat(h)
    PROVE  TypeInv'
<1>1. CASE PostMessage(h)
  <2>1. PICK c \in known[h] :
           PublishEvent(h, [type |-> "new", chat |-> c, msg |-> 0, user |-> NoUser])
    BY <1>1 DEF PostMessage
  <2>2. [type |-> "new", chat |-> c, msg |-> 0, user |-> NoUser] \in Event
    BY DEF TypeInv, TypeOK, HubsOK, Event, MessageTypes
  <2> QED
    BY <2>1, <2>2, PublishEventTypeInv DEF Changes
<1>2. CASE PostChange(h)
  <2>1. PICK m \in DOMAIN docs :
           \/ \E t \in {"edit", "delete"} :
                PublishEvent(h, [type |-> t, chat |-> docs[m].chat, msg |-> m,
                                 user |-> NoUser])
           \/ \E t \in {"hide", "show"}, u \in Users :
                PublishEvent(h, [type |-> t, chat |-> docs[m].chat, msg |-> m,
                                 user |-> u])
    BY <1>2 DEF PostChange
  <2>2. m \in Nat /\ docs[m].chat \in Nat
    <3>1. docs \in Seq(Doc)
      BY DEF TypeInv, TypeOK, StoreOK
    <3>2. m \in Nat /\ docs[m] \in Doc
      BY <3>1
    <3> QED
      BY <3>2 DEF Doc
  <2>3. ASSUME NEW t \in Changes, NEW u \in Users \cup {NoUser},
               t \in {"hide", "show"} => u \in Users,
               PublishEvent(h, [type |-> t, chat |-> docs[m].chat, msg |-> m, user |-> u])
        PROVE  TypeInv'
    <3>1. [type |-> t, chat |-> docs[m].chat, msg |-> m, user |-> u] \in Event
      BY <2>2 DEF Event, MessageTypes, Changes
    <3> QED
      BY <2>3, <3>1, PublishEventTypeInv
  <2> QED
    BY <2>1, <2>3 DEF Changes
<1>3. CASE AddChat(h)
  <2>1. [type |-> "newChat", chat |-> 0, msg |-> 0, user |-> NoUser] \in Event
    BY DEF Event
  <2> QED
    BY <1>3, <2>1, PublishEventTypeInv DEF AddChat, Changes
<1> QED
  BY <1>1, <1>2, <1>3

-----------------------------------------------------------------------------
(* Handling.                                                               *)

LEMMA ReturnType ==
    ASSUME TypeInv, NEW w \in Workers, NEW n \in Notification,
           pc[w] \notin {"off", "idle"}, Return(w, n), UNCHANGED <<cur, dropped>>
    PROVE  WorkersOK' /\ HistoryOK'
<1>1. cur[w] \in Nat /\ committed' = committed \cup {cur[w]}
  BY InHandEvent DEF Return
<1>2. CASE /\ result' = [result EXCEPT ![w] = n]
           /\ pc' = [pc EXCEPT ![w] = "broadcast"]
           /\ UNCHANGED <<faults, missed>>
  BY <1>1, <1>2 DEF TypeInv, TypeOK, WorkersOK, HistoryOK
<1>3. CASE /\ Fault("store")
           /\ pc' = [pc EXCEPT ![w] = "ack"]
           /\ missed' = [h \in Hubs |-> missed[h] \cup {Subject(n)}]
           /\ UNCHANGED result
  <2>1. Subject(n) \in Subjects
    BY SubjectType
  <2>2. missed' \in [Hubs -> SUBSET Subjects]
    BY <1>3, <2>1, Zenon DEF TypeInv, TypeOK, HistoryOK
  <2>3. faults' \in Nat
    BY <1>3 DEF TypeInv, TypeOK, HistoryOK, Fault
  <2>4. WorkersOK'
    BY <1>3 DEF TypeInv, TypeOK, WorkersOK
  <2> QED
    BY <1>1, <2>2, <2>3, <2>4 DEF TypeInv, TypeOK, HistoryOK
<1> QED
  BY <1>2, <1>3 DEF Return

LEMMA newMessageTypeInv ==
    ASSUME TypeInv, NEW w \in Workers, newMessage(w)
    PROVE  TypeInv'
<1> DEFINE evt == events[cur[w]]
           d == [origin |-> cur[w], chat |-> evt.chat, content |-> cur[w],
                 hiddenFor |-> {}, deleted |-> FALSE]
           n == [type |-> "new", chat |-> evt.chat, msg |-> Len(docs) + 1, doc |-> d]
<1>1. pc[w] = "handle"
  BY DEF newMessage, Handling
<1>2. cur[w] \in Nat /\ cur[w] \in DOMAIN events /\ evt \in Event
  BY <1>1, InHandEvent
<1>3. docs' = Append(docs, d) /\ Return(w, n)
  BY Zenon DEF newMessage
<1>4. UNCHANGED <<brokerVars, cur, chats, hubVars, dropped>>
  BY DEF newMessage
<1>5. d \in Doc
  BY <1>2 DEF Doc, Event
<1>6. docs \in Seq(Doc) /\ Len(docs) + 1 \in Nat
  BY DEF TypeInv, TypeOK, StoreOK
<1>7. n \in Notification
  BY <1>2, <1>5, <1>6 DEF Notification, MessageTypes, Event
<1>8. docs' \in Seq(Doc) /\ DOMAIN docs \subseteq DOMAIN docs'
  <2> HIDE DEF d, n
  <2> QED
    BY <1>3, <1>5, <1>6
<1>9. WorkersOK' /\ HistoryOK'
  <2> HIDE DEF d, n
  <2> QED
    BY <1>1, <1>3, <1>4, <1>7, ReturnType
<1>10. BrokerOK' /\ StoreOK' /\ HubsOK'
  BY <1>4, <1>8 DEF TypeInv, TypeOK, BrokerOK, StoreOK, HubsOK, brokerVars, hubVars
<1>11. DeliveriesOK' /\ EventRefsOK'
  BY <1>4, <1>8, Zenon DEF TypeInv, DeliveriesOK, EventRefsOK, brokerVars
<1>12. InHandOK'
  BY <1>1, <1>2, <1>3, <1>4 DEF TypeInv, TypeOK, WorkersOK, InHandOK, Return, brokerVars
<1> QED
  BY <1>9, <1>10, <1>11, <1>12 DEF TypeInv, TypeOK

LEMMA FindOneAndUpdateTypeInv ==
    ASSUME TypeInv, NEW w \in Workers, NEW d \in Doc, pc[w] = "handle",
           events[cur[w]].type \in Changes, FindOneAndUpdate(w, d)
    PROVE  TypeInv'
<1> DEFINE evt == events[cur[w]]
           n == [type |-> evt.type, chat |-> evt.chat, msg |-> evt.msg, doc |-> d]
<1>1. cur[w] \in Nat /\ cur[w] \in DOMAIN events /\ evt \in Event
  BY InHandEvent
<1>2. n \in Notification
  BY <1>1 DEF Notification, Event
<1>3. /\ docs' = [docs EXCEPT ![evt.msg] = d]
      /\ UNCHANGED <<brokerVars, cur, chats, hubVars, dropped>>
  BY DEF FindOneAndUpdate
<1>4. docs' \in Seq(Doc) /\ DOMAIN docs' = DOMAIN docs
  <2>1. docs \in Seq(Doc) /\ evt.msg \in 1..Len(docs)
    BY <1>1 DEF TypeInv, TypeOK, StoreOK, EventRefsOK
  <2> QED
    BY <1>3, <2>1, ExceptSeq
<1>5. /\ committed' = committed \cup {cur[w]}
      /\ pc' \in {[pc EXCEPT ![w] = "broadcast"], [pc EXCEPT ![w] = "ack"]}
  BY DEF FindOneAndUpdate, Return
<1>6. WorkersOK' /\ HistoryOK'
  <2>1. Return(w, n)
    BY DEF FindOneAndUpdate
  <2> HIDE DEF n
  <2> QED
    BY <1>2, <1>3, <2>1, ReturnType
<1>7. BrokerOK' /\ StoreOK' /\ HubsOK'
  BY <1>3, <1>4 DEF TypeInv, TypeOK, BrokerOK, StoreOK, HubsOK, brokerVars, hubVars
<1>9. DeliveriesOK' /\ EventRefsOK'
  BY <1>3, <1>4, Zenon DEF TypeInv, DeliveriesOK, EventRefsOK, brokerVars
<1>10. InHandOK'
  BY <1>1, <1>3, <1>5 DEF TypeInv, TypeOK, WorkersOK, InHandOK, brokerVars
<1> QED
  BY <1>6, <1>7, <1>9, <1>10 DEF TypeInv, TypeOK

LEMMA ChangeTypeInv ==
    ASSUME TypeInv, NEW w \in Workers, editMessage(w) \/ hideMessage(w) \/ deleteMessage(w)
    PROVE  TypeInv'
<1> DEFINE evt == events[cur[w]]
           d == docs[evt.msg]
<1>1. pc[w] = "handle" /\ evt.type \in Changes
  BY DEF editMessage, hideMessage, deleteMessage, Handling, Changes
<1>2. cur[w] \in Nat /\ cur[w] \in DOMAIN events
  BY <1>1, InHandEvent
<1>3. d \in Doc
  BY <1>1, <1>2 DEF TypeInv, TypeOK, StoreOK, EventRefsOK
<1>4. CASE editMessage(w)
  <2>1. [d EXCEPT !.content = cur[w]] \in Doc
    BY <1>2, <1>3 DEF Doc
  <2> QED
    BY <1>1, <1>4, <2>1, FindOneAndUpdateTypeInv DEF editMessage
<1>5. CASE hideMessage(w)
  <2>1. evt.type \in {"hide", "show"}
    BY <1>5 DEF hideMessage, Handling
  <2>2. evt.user \in Users
    BY <1>2, <2>1 DEF TypeInv, EventRefsOK
  <2>3. /\ [d EXCEPT !.hiddenFor = @ \cup {evt.user}] \in Doc
        /\ [d EXCEPT !.hiddenFor = @ \ {evt.user}] \in Doc
    BY <1>3, <2>2 DEF Doc
  <2> QED
    BY <1>1, <1>5, <2>3, FindOneAndUpdateTypeInv DEF hideMessage
<1>6. CASE deleteMessage(w)
  <2>1. [d EXCEPT !.deleted = TRUE] \in Doc
    BY <1>3 DEF Doc
  <2> QED
    BY <1>1, <1>6, <2>1, FindOneAndUpdateTypeInv DEF deleteMessage
<1> QED
  BY <1>4, <1>5, <1>6

LEMMA newChatTypeInv ==
    ASSUME TypeInv, NEW w \in Workers, newChat(w)
    PROVE  TypeInv'
<1> DEFINE n == [type |-> "newChat", chat |-> chats + 1, msg |-> 0, doc |-> NoDoc]
<1>1. pc[w] = "handle" /\ chats' = chats + 1 /\ Return(w, n)
  BY DEF newChat, Handling
<1>2. UNCHANGED <<brokerVars, cur, docs, hubVars, dropped>>
  BY DEF newChat
<1>3. cur[w] \in Nat /\ cur[w] \in DOMAIN events
  BY <1>1, InHandEvent
<1>4. n \in Notification
  BY DEF TypeInv, TypeOK, StoreOK, Notification, NoDoc, Doc
<1>5. WorkersOK' /\ HistoryOK'
  <2> HIDE DEF n
  <2> QED
    BY <1>1, <1>2, <1>4, ReturnType
<1>6. BrokerOK' /\ StoreOK' /\ HubsOK'
  BY <1>1, <1>2 DEF TypeInv, TypeOK, BrokerOK, StoreOK, HubsOK, brokerVars, hubVars
<1>7. DeliveriesOK' /\ EventRefsOK'
  BY <1>2, Zenon DEF TypeInv, DeliveriesOK, EventRefsOK, brokerVars
<1>8. InHandOK'
  BY <1>1, <1>2, <1>3 DEF TypeInv, TypeOK, WorkersOK, InHandOK, Return, brokerVars
<1> QED
  BY <1>5, <1>6, <1>7, <1>8 DEF TypeInv, TypeOK

-----------------------------------------------------------------------------
(* The other steps of a worker and of the broker.                          *)

LEMMA WorkerTypeInv ==
    ASSUME TypeInv, NEW w \in Workers,
           \/ Subscribe(w) \/ Deliver(w) \/ Take(w) \/ StoreError(w)
           \/ broadcast(w) \/ BroadcastLost(w) \/ Ack(w)
    PROVE  TypeInv'
<1> USE DEF TypeInv, TypeOK, brokerVars, workerVars, storeVars, hubVars, history
<1>1. CASE Subscribe(w)
  <2>1. BrokerOK' /\ WorkersOK' /\ StoreOK' /\ HubsOK' /\ HistoryOK'
    BY <1>1 DEF Subscribe, BrokerOK, WorkersOK, StoreOK, HubsOK, HistoryOK
  <2>2. DeliveriesOK'
    BY <1>1 DEF Subscribe, BrokerOK, DeliveriesOK
  <2>3. InHandOK' /\ EventRefsOK'
    BY <1>1 DEF Subscribe, WorkersOK, InHandOK, EventRefsOK
  <2> QED
    BY <2>1, <2>2, <2>3
<1>2. CASE Deliver(w)
  <2>1. BrokerOK'
    BY <1>2 DEF Deliver, BrokerOK
  <2>2. WorkersOK' /\ StoreOK' /\ HubsOK' /\ HistoryOK'
    BY <1>2 DEF Deliver, WorkersOK, StoreOK, HubsOK, HistoryOK
  <2>3. DeliveriesOK'
    BY <1>2 DEF Deliver, BrokerOK, DeliveriesOK
  <2>4. InHandOK' /\ EventRefsOK'
    BY <1>2 DEF Deliver, InHandOK, EventRefsOK
  <2> QED
    BY <2>1, <2>2, <2>3, <2>4
<1>3. CASE Take(w)
  <2>1. Head(buffer[w]) \in DOMAIN events
    BY <1>3 DEF Take, BrokerOK, DeliveriesOK
  <2>6. BrokerOK'
    BY <1>3 DEF Take, BrokerOK
  <2>7. WorkersOK'
    BY <1>3 DEF Take, BrokerOK, WorkersOK
  <2>2. BrokerOK' /\ WorkersOK' /\ StoreOK' /\ HubsOK' /\ HistoryOK'
    BY <1>3, <2>6, <2>7 DEF Take, StoreOK, HubsOK, HistoryOK
  <2>3. DeliveriesOK'
    BY <1>3 DEF Take, BrokerOK, DeliveriesOK
  <2>4. InHandOK'
    <3>1. /\ cur' = [cur EXCEPT ![w] = Head(buffer[w])]
          /\ pc' = [pc EXCEPT ![w] = "handle"]
          /\ UNCHANGED events
      BY <1>3 DEF Take
    <3> QED
      BY <2>1, <3>1 DEF WorkersOK, InHandOK
  <2>5. EventRefsOK'
    BY <1>3 DEF Take, EventRefsOK
  <2> QED
    BY <2>2, <2>3, <2>4, <2>5
<1>4. CASE StoreError(w)
  <2>1. BrokerOK' /\ WorkersOK' /\ StoreOK' /\ HubsOK'
    BY <1>4 DEF StoreError, BrokerOK, WorkersOK, StoreOK, HubsOK
  <2>2. HistoryOK'
    <3>1. cur[w] \in Nat /\ dropped' = dropped \cup {cur[w]}
      BY <1>4 DEF StoreError, WorkersOK
    <3>2. faults' \in Nat /\ UNCHANGED <<committed, missed>>
      BY <1>4 DEF StoreError, Fault, HistoryOK
    <3> QED
      BY <3>1, <3>2 DEF HistoryOK
  <2>3. DeliveriesOK' /\ InHandOK' /\ EventRefsOK'
    BY <1>4 DEF StoreError, WorkersOK, DeliveriesOK, InHandOK, EventRefsOK
  <2> QED
    BY <2>1, <2>2, <2>3
<1>5. CASE broadcast(w) \/ BroadcastLost(w)
  <2>1. pc[w] = "broadcast" /\ result[w] \in Notification
    BY <1>5 DEF broadcast, BroadcastLost, WorkersOK
  <2>2. Subject(result[w]) \in Subjects
    BY <2>1, SubjectType
  <2>3. /\ pc' = [pc EXCEPT ![w] = "ack"]
        /\ result' = [result EXCEPT ![w] = NoResult]
        /\ UNCHANGED <<brokerVars, cur, storeVars, hubState, known, shown, late,
                       committed, dropped>>
        /\ faults' \in Nat
    BY <1>5 DEF broadcast, BroadcastLost, Fault, HistoryOK
  <2>4. WorkersOK'
    BY <2>3, NoResultType DEF WorkersOK
  <2>5. missed' \in [Hubs -> SUBSET Subjects]
    <3>1. CASE broadcast(w)
      BY <2>2, <3>1, Zenon DEF broadcast, HistoryOK
    <3>2. CASE BroadcastLost(w)
      BY <2>2, <3>2, Zenon DEF BroadcastLost, HistoryOK
    <3> QED
      BY <1>5, <3>1, <3>2
  <2>6. inbox' \in [Hubs -> Seq(Notification)]
    <3>1. CASE broadcast(w)
      <4>1. inbox' = [h \in Hubs |-> IF hubState[h] = "bound"
                                     THEN Append(inbox[h], result[w]) ELSE inbox[h]]
        BY <3>1 DEF broadcast
      <4> QED
        BY <2>1, <4>1 DEF HubsOK
    <3>2. CASE BroadcastLost(w)
      BY <3>2 DEF BroadcastLost, HubsOK
    <3> QED
      BY <1>5, <3>1, <3>2
  <2>7. BrokerOK' /\ StoreOK' /\ HubsOK' /\ HistoryOK'
    BY <2>3, <2>5, <2>6 DEF BrokerOK, StoreOK, HubsOK, HistoryOK
  <2>8. DeliveriesOK' /\ InHandOK' /\ EventRefsOK'
    BY <2>1, <2>3 DEF WorkersOK, DeliveriesOK, InHandOK, EventRefsOK
  <2> QED
    BY <2>4, <2>7, <2>8
<1>6. CASE Ack(w)
  <2>1. StoreOK' /\ HubsOK' /\ HistoryOK'
    BY <1>6 DEF Ack, StoreOK, HubsOK, HistoryOK
  <2>5. WorkersOK'
    BY <1>6 DEF Ack, WorkersOK
  <2>6. BrokerOK'
    BY <1>6 DEF Ack, BrokerOK
  <2>2. unacked' \in {unacked, [unacked EXCEPT ![w] = @ \ {cur[w]}]}
    BY <1>6 DEF Ack
  <2>3. DeliveriesOK'
    BY <1>6, <2>2 DEF Ack, BrokerOK, DeliveriesOK
  <2>4. InHandOK' /\ EventRefsOK'
    BY <1>6 DEF Ack, WorkersOK, InHandOK, EventRefsOK
  <2> QED
    BY <2>1, <2>3, <2>4, <2>5, <2>6
<1> QED
  BY <1>1, <1>2, <1>3, <1>4, <1>5, <1>6

LEMMA WorkerFaultTypeInv ==
    ASSUME TypeInv, NEW w \in Workers,
           Disconnect(w) \/ ClientNotices(w) \/ BrokerNotices(w) \/ Crash(w)
    PROVE  TypeInv'
<1> USE DEF TypeInv, TypeOK
<1>1. UNCHANGED <<events, storeVars, hubVars, committed, dropped>> /\ faults' \in Nat
  BY DEF Disconnect, ClientNotices, BrokerNotices, Crash, Fault, history, HistoryOK
<1>2. unacked[w] \subseteq Nat /\ unacked[w] \subseteq DOMAIN events
  BY DEF BrokerOK, DeliveriesOK
<1>3. ready' \subseteq Nat /\ ready' \subseteq DOMAIN events /\ redelivered' \subseteq Nat
  BY <1>1, <1>2 DEF Disconnect, ClientNotices, BrokerNotices, Crash, BrokerOK,
     DeliveriesOK
<1>4. /\ unacked' \in {unacked, [unacked EXCEPT ![w] = {}]}
      /\ UNCHANGED buffer \/ buffer' = [buffer EXCEPT ![w] = <<>>]
  BY DEF Disconnect, ClientNotices, BrokerNotices, Crash
<1>5. /\ connected' \subseteq attached' /\ attached' \subseteq Workers
      /\ held' \subseteq Workers
  BY DEF Disconnect, ClientNotices, BrokerNotices, Crash, BrokerOK
<1>6. BrokerOK'
  <2>1. BrokerOK
    OBVIOUS
  <2>2. unacked' \in [Workers -> SUBSET Nat]
    BY <1>4, <2>1 DEF BrokerOK
  <2>3. buffer' \in [Workers -> Seq(Nat)]
    <3>1. CASE UNCHANGED buffer
      BY <2>1, <3>1 DEF BrokerOK
    <3>2. CASE buffer' = [buffer EXCEPT ![w] = <<>>]
      BY <2>1, <3>2 DEF BrokerOK
    <3> QED
      BY <1>4, <3>1, <3>2
  <2> QED
    BY <1>1, <1>3, <1>5, <2>1, <2>2, <2>3 DEF BrokerOK
<1>7. DeliveriesOK'
  <2>1. \A v \in Workers : unacked'[v] \subseteq DOMAIN events
    BY <1>4 DEF BrokerOK, DeliveriesOK
  <2>2. \A v \in Workers : \A i \in DOMAIN buffer'[v] : buffer'[v][i] \in DOMAIN events
    <3>1. CASE UNCHANGED buffer
      BY <3>1 DEF DeliveriesOK
    <3>2. CASE buffer' = [buffer EXCEPT ![w] = <<>>]
      BY <3>2 DEF BrokerOK, DeliveriesOK
    <3> QED
      BY <1>4, <3>1, <3>2
  <2> QED
    BY <1>1, <1>3, <2>1, <2>2 DEF DeliveriesOK
<1>8. WorkersOK' /\ InHandOK'
  <2>1. CASE Disconnect(w) \/ ClientNotices(w) \/ BrokerNotices(w)
    BY <2>1 DEF Disconnect, ClientNotices, BrokerNotices, WorkersOK, InHandOK, workerVars
  <2>2. CASE Crash(w)
    <3>1. /\ pc' = [pc EXCEPT ![w] = "off"]
          /\ cur' = [cur EXCEPT ![w] = 0]
          /\ result' = [result EXCEPT ![w] = NoResult]
      BY <2>2 DEF Crash
    <3> QED
      BY <1>1, <3>1, NoResultType DEF WorkersOK, InHandOK
  <2> QED
    BY <2>1, <2>2
<1>9. missed' \in [Hubs -> SUBSET Subjects]
  <2>1. CASE Disconnect(w) \/ ClientNotices(w) \/ BrokerNotices(w)
    BY <2>1 DEF Disconnect, ClientNotices, BrokerNotices, HistoryOK, history
  <2>2. CASE Crash(w)
    <3>1. Subject(result[w]) \in Subjects
      BY SubjectType DEF WorkersOK
    <3>2. missed' \in {missed, [h \in Hubs |-> missed[h] \cup {Subject(result[w])}]}
      BY <2>2 DEF Crash
    <3> QED
      BY <3>1, <3>2, Zenon DEF HistoryOK
  <2> QED
    BY <2>1, <2>2
<1>10. StoreOK' /\ HubsOK' /\ HistoryOK'
  BY <1>1, <1>9 DEF StoreOK, HubsOK, HistoryOK, storeVars, hubVars
<1>11. EventRefsOK'
  BY <1>1 DEF EventRefsOK, storeVars
<1> QED
  BY <1>6, <1>7, <1>8, <1>10, <1>11

-----------------------------------------------------------------------------
(* The steps of a webapp.                                                  *)

LEMMA ApplyTypeInv ==
    ASSUME TypeInv, NEW h \in Hubs, NEW n \in Notification, Apply(h, n),
           hubState' \in [Hubs -> {"down", "loaded", "bound", "lost"}],
           inbox' \in [Hubs -> Seq(Notification)],
           late' \in [Hubs -> SUBSET (Nat \X Notification)]
    PROVE  HubsOK'
<1> DEFINE row == [m \in DOMAIN shown[h] \cup {n.msg} |->
                     IF m = n.msg THEN n.doc ELSE shown[h][m]]
<1>1. n.chat \in Nat /\ n.msg \in Nat /\ n.doc \in Doc
  BY DEF Notification
<1>2. HubsOK
  BY DEF TypeInv, TypeOK
<1>3. known' \in [Hubs -> SUBSET Nat]
  <2>1. known' \in {known, [known EXCEPT ![h] = @ \cup {n.chat}]}
    BY DEF Apply
  <2>2. known[h] \cup {n.chat} \in SUBSET Nat
    BY <1>1, <1>2 DEF HubsOK
  <2> QED
    BY <1>2, <2>1, <2>2 DEF HubsOK
<1>4. shown' \in {shown, [shown EXCEPT ![h] = row]}
  BY DEF Apply
<1>5. DOMAIN row \subseteq Nat /\ row \in [DOMAIN row -> Doc]
  BY <1>1, <1>2 DEF HubsOK
<1>6. /\ shown' = [g \in Hubs |-> shown'[g]]
      /\ \A g \in Hubs : shown'[g] \in {shown[g], row}
  <2> HIDE DEF row
  <2> QED
    BY <1>2, <1>4 DEF HubsOK
<1>7. \A g \in Hubs : /\ DOMAIN shown'[g] \subseteq Nat
                      /\ shown'[g] \in [DOMAIN shown'[g] -> Doc]
  <2> HIDE DEF row
  <2> QED
    BY <1>2, <1>5, <1>6 DEF HubsOK
<1> QED
  BY <1>3, <1>6, <1>7 DEF HubsOK

LEMMA HubTypeInv ==
    ASSUME TypeInv, NEW h \in Hubs,
           \/ processRabbitmqMessage(h) \/ LateNotification(h)
           \/ HubDisconnect(h) \/ HubCrash(h)
           \/ LoadChatsFromStore(h) \/ BindQueue(h)
    PROVE  TypeInv'
<1> USE DEF TypeInv, TypeOK
<1>1. UNCHANGED <<brokerVars, workerVars, storeVars, committed, dropped>>
  BY DEF processRabbitmqMessage, LateNotification, HubDisconnect, HubCrash,
     LoadChatsFromStore, BindQueue, history
<1>2. BrokerOK' /\ WorkersOK' /\ StoreOK' /\ DeliveriesOK' /\ InHandOK' /\ EventRefsOK'
  BY <1>1 DEF BrokerOK, WorkersOK, StoreOK, DeliveriesOK, InHandOK, EventRefsOK,
     brokerVars, workerVars, storeVars
<1>3. HubsOK' /\ HistoryOK'
  <2>1. CASE processRabbitmqMessage(h)
    <3>1. inbox[h] \in Seq(Notification) /\ inbox[h] # <<>>
      BY <2>1 DEF processRabbitmqMessage, HubsOK
    <3>2. Head(inbox[h]) \in Notification /\ Tail(inbox[h]) \in Seq(Notification)
      BY <3>1
    <3>3. inbox' \in [Hubs -> Seq(Notification)]
      BY <2>1, <3>2 DEF processRabbitmqMessage, HubsOK
    <3>4. Apply(h, Head(inbox[h])) /\ UNCHANGED <<hubState, late, faults, history>>
      BY <2>1 DEF processRabbitmqMessage
    <3>5. HubsOK'
      BY <3>2, <3>3, <3>4, ApplyTypeInv DEF HubsOK
    <3> QED
      BY <3>4, <3>5 DEF HistoryOK, history
  <2>2. CASE LateNotification(h)
    <3>1. PICK l \in late[h] :
            /\ late' = [late EXCEPT ![h] = @ \ {l}]
            /\ Apply(h, l[2])
            /\ missed' = [missed EXCEPT ![h] = @ \cup {Subject(l[2])}]
            /\ UNCHANGED <<hubState, inbox, faults, committed, dropped>>
      BY <2>2 DEF LateNotification
    <3>2. l[2] \in Notification
      BY DEF HubsOK
    <3>3. Subject(l[2]) \in Subjects
      BY <3>2, SubjectType
    <3>4. missed' \in [Hubs -> SUBSET Subjects]
      BY <3>1, <3>3, Zenon DEF HistoryOK
    <3>5. late' \in [Hubs -> SUBSET (Nat \X Notification)]
      BY <3>1 DEF HubsOK
    <3>6. HubsOK'
      BY <3>1, <3>2, <3>5, ApplyTypeInv DEF HubsOK
    <3> QED
      BY <3>1, <3>4, <3>6 DEF HistoryOK
  <2>3. CASE HubDisconnect(h)
    <3>1. InboxSubjects(h) \subseteq Subjects
      <4>1. \A i \in DOMAIN inbox[h] : inbox[h][i] \in Notification
        BY DEF HubsOK
      <4> QED
        BY <4>1, SubjectType DEF InboxSubjects
    <3>2. missed' = [missed EXCEPT ![h] = @ \cup InboxSubjects(h)]
      BY <2>3 DEF HubDisconnect
    <3>3. missed' \in [Hubs -> SUBSET Subjects]
      BY <3>1, <3>2, Zenon DEF HistoryOK
    <3>4. late' \in [Hubs -> SUBSET (Nat \X Notification)]
      <4>1. CASE UNCHANGED late
        BY <4>1 DEF HubsOK
      <4>2. CASE /\ inbox[h] # <<>>
                 /\ late' = [late EXCEPT ![h] = @ \cup {<<faults, Head(inbox[h])>>}]
        <5>1. inbox[h] \in Seq(Notification) /\ faults \in Nat
          BY DEF HubsOK, HistoryOK
        <5>2. <<faults, Head(inbox[h])>> \in Nat \X Notification
          BY <4>2, <5>1
        <5> QED
          BY <4>2, <5>2, Zenon DEF HubsOK
      <4>3. \/ UNCHANGED late
            \/ /\ inbox[h] # <<>>
               /\ late' = [late EXCEPT ![h] = @ \cup {<<faults, Head(inbox[h])>>}]
        BY <2>3, Zenon DEF HubDisconnect
      <4> QED
        BY <4>1, <4>2, <4>3
    <3>5. HubsOK'
      <4>1. /\ hubState' = [hubState EXCEPT ![h] = "lost"]
            /\ inbox' = [inbox EXCEPT ![h] = <<>>]
            /\ UNCHANGED <<known, shown>>
        BY <2>3, Zenon DEF HubDisconnect
      <4> QED
        BY <3>4, <4>1 DEF HubsOK
    <3>6. faults' \in Nat /\ UNCHANGED <<committed, dropped>>
      BY <2>3 DEF HubDisconnect, Fault, HistoryOK
    <3> QED
      BY <3>3, <3>5, <3>6 DEF HistoryOK
  <2>4. CASE HubCrash(h)
    <3>1. {<<"msg", m>> : m \in DOMAIN docs} \subseteq Subjects
      BY DEF StoreOK, Subjects
    <3>2. missed' \in [Hubs -> SUBSET Subjects]
      BY <2>4, <3>1 DEF HubCrash, HistoryOK
    <3>3. shown' = [shown EXCEPT ![h] = <<>>]
      BY <2>4 DEF HubCrash
    <3>4. \A g \in Hubs : /\ DOMAIN shown'[g] \subseteq Nat
                          /\ shown'[g] \in [DOMAIN shown'[g] -> Doc]
      BY <3>3 DEF HubsOK
    <3>5. shown' = [g \in Hubs |-> shown'[g]]
      BY <3>3 DEF HubsOK
    <3>6. HubsOK'
      BY <2>4, <3>4, <3>5 DEF HubCrash, HubsOK
    <3> QED
      BY <2>4, <3>2, <3>6 DEF HubCrash, Fault, HistoryOK
  <2>5. CASE LoadChatsFromStore(h)
    <3>1. 1..chats \in SUBSET Nat /\ {<<"chat", c>> : c \in 1..chats} \subseteq Subjects
      BY DEF StoreOK, Subjects
    <3>2. known' \in [Hubs -> SUBSET Nat]
      BY <2>5, <3>1 DEF LoadChatsFromStore, HubsOK
    <3>3. missed' \in [Hubs -> SUBSET Subjects] /\ faults' \in Nat
      BY <2>5, <3>1 DEF LoadChatsFromStore, HistoryOK, Fault
    <3> QED
      BY <2>5, <3>2, <3>3 DEF LoadChatsFromStore, HubsOK, HistoryOK
  <2>6. CASE BindQueue(h)
    BY <2>6 DEF BindQueue, HubsOK, HistoryOK, history
  <2> QED
    BY <2>1, <2>2, <2>3, <2>4, <2>5, <2>6
<1> QED
  BY <1>2, <1>3

-----------------------------------------------------------------------------
LEMMA StepTypeInv == TypeInv /\ [Next]_vars => TypeInv'
<1> SUFFICES ASSUME TypeInv, [Next]_vars
             PROVE  TypeInv'
  OBVIOUS
<1>1. CASE UNCHANGED vars
  BY <1>1 DEF vars, brokerVars, workerVars, storeVars, hubVars, history, TypeInv, TypeOK,
     BrokerOK, WorkersOK, StoreOK, HubsOK, HistoryOK, DeliveriesOK, InHandOK, EventRefsOK
<1>2. CASE Next
  BY <1>2, PostTypeInv, newMessageTypeInv, ChangeTypeInv, newChatTypeInv, WorkerTypeInv,
     WorkerFaultTypeInv, HubTypeInv DEF Next
<1> QED
  BY <1>1, <1>2

\* Every variable of the pipeline keeps its type, whatever the numbers of workers,
\* webapps and faults: in particular what a handler writes to MongoDB and hands
\* to broadcast is a message.
THEOREM TypeCorrect == Spec => []TypeOK
<1>1. TypeInv => TypeOK
  BY DEF TypeInv
<1> QED
  BY <1>1, InitTypeInv, StepTypeInv, PTL DEF Spec

\* What a handler looks up is there: the event in hand was published, and the
\* message that an edit, hide, show or delete names is stored when the event is
\* handled, after any redelivery.
THEOREM TypeInvariant == Spec => []TypeInv
BY InitTypeInv, StepTypeInv, PTL DEF Spec

-----------------------------------------------------------------------------
(* No event is lost.                                                       *)

\* A worker that is past its handler has left a trace of the event: the ack it
\* is about to send cannot take the last one.
HandledLeavesATrace ==
    \A w \in Workers : pc[w] \in {"broadcast", "ack"} => cur[w] \in committed \cup dropped

NothingLostInv == NothingLost /\ HandledLeavesATrace

LEMMA InitNothingLost == Init => NothingLostInv
BY DEF Init, NothingLostInv, NothingLost, HandledLeavesATrace

\* A step that takes no event out of the queue, out of the unacknowledged ones
\* or out of the history loses none.
LEMMA KeptIsNotLost ==
    ASSUME NothingLost, UNCHANGED events,
           ready \cup committed \cup dropped \subseteq ready' \cup committed' \cup dropped',
           \A w \in Workers : unacked[w] \subseteq unacked'[w]
    PROVE  NothingLost'
BY DEF NothingLost

LEMMA StepNothingLost == TypeInv /\ NothingLostInv /\ [Next]_vars => NothingLostInv'
<1> SUFFICES ASSUME TypeInv, NothingLostInv, [Next]_vars
             PROVE  NothingLostInv'
  OBVIOUS
<1> USE DEF NothingLostInv
<1>1. ASSUME NEW h \in Hubs, NEW evt, PublishEvent(h, evt)
      PROVE  NothingLostInv'
  <2>1. /\ events \in Seq(Event)
        /\ ready' = ready \cup {Len(events) + 1}
        /\ UNCHANGED <<unacked, pc, cur, committed, dropped>>
        /\ events' = Append(events, evt)
    BY <1>1 DEF PublishEvent, workerVars, history, TypeInv, TypeOK, BrokerOK
  <2>2. DOMAIN events' = DOMAIN events \cup {Len(events) + 1}
    BY <2>1
  <2> QED
    BY <2>1, <2>2 DEF NothingLost, HandledLeavesATrace
<1>2. ASSUME NEW w \in Workers, NEW n, Return(w, n), UNCHANGED <<brokerVars, cur, dropped>>
      PROVE  NothingLostInv'
  <2>1. /\ committed' = committed \cup {cur[w]}
        /\ pc' \in {[pc EXCEPT ![w] = "broadcast"], [pc EXCEPT ![w] = "ack"]}
    BY <1>2 DEF Return
  <2>2. NothingLost'
    BY <1>2, <2>1, KeptIsNotLost DEF brokerVars
  <2>3. HandledLeavesATrace'
    BY <1>2, <2>1 DEF HandledLeavesATrace, TypeInv, TypeOK, WorkersOK
  <2> QED
    BY <2>2, <2>3
<1>4. ASSUME NEW w \in Workers, Subscribe(w)
      PROVE  NothingLostInv'
  <2>1. NothingLost'
    BY <1>4, KeptIsNotLost DEF Subscribe, history
  <2>2. HandledLeavesATrace'
    BY <1>4 DEF Subscribe, HandledLeavesATrace, TypeInv, TypeOK, WorkersOK, history
  <2> QED
    BY <2>1, <2>2
<1>5. ASSUME NEW w \in Workers, Deliver(w)
      PROVE  NothingLostInv'
  <2>1. PICK e \in ready : /\ ready' = ready \ {e}
                           /\ unacked' = [unacked EXCEPT ![w] = @ \cup {e}]
    BY <1>5 DEF Deliver
  <2>2. UNCHANGED <<events, committed, dropped, pc, cur>>
    BY <1>5 DEF Deliver, workerVars, history
  <2>3. e \in unacked'[w] /\ \A v \in Workers : unacked[v] \subseteq unacked'[v]
    BY <2>1 DEF TypeInv, TypeOK, BrokerOK
  <2> QED
    BY <2>1, <2>2, <2>3 DEF NothingLost, HandledLeavesATrace
<1>6. ASSUME NEW w \in Workers, Take(w)
      PROVE  NothingLostInv'
  <2>1. NothingLost'
    BY <1>6, KeptIsNotLost DEF Take, history
  <2>2. HandledLeavesATrace'
    BY <1>6 DEF Take, HandledLeavesATrace, TypeInv, TypeOK, WorkersOK, history
  <2> QED
    BY <2>1, <2>2
<1>7. ASSUME NEW w \in Workers, StoreError(w)
      PROVE  NothingLostInv'
  <2>1. NothingLost'
    BY <1>7, KeptIsNotLost DEF StoreError, brokerVars
  <2>2. HandledLeavesATrace'
    BY <1>7 DEF StoreError, HandledLeavesATrace, TypeInv, TypeOK, WorkersOK
  <2> QED
    BY <2>1, <2>2
<1>8. ASSUME NEW w \in Workers, broadcast(w) \/ BroadcastLost(w)
      PROVE  NothingLostInv'
  <2>1. /\ pc[w] = "broadcast" /\ pc' = [pc EXCEPT ![w] = "ack"]
        /\ UNCHANGED <<brokerVars, cur, committed, dropped>>
    BY <1>8 DEF broadcast, BroadcastLost
  <2>2. NothingLost'
    BY <2>1, KeptIsNotLost DEF brokerVars
  <2>3. HandledLeavesATrace'
    BY <2>1 DEF HandledLeavesATrace, TypeInv, TypeOK, WorkersOK
  <2> QED
    BY <2>2, <2>3
<1>9. ASSUME NEW w \in Workers, Ack(w)
      PROVE  NothingLostInv'
  <2>1. /\ pc[w] = "ack"
        /\ pc' \in {[pc EXCEPT ![w] = "idle"], [pc EXCEPT ![w] = "off"]}
        /\ cur' = [cur EXCEPT ![w] = 0]
        /\ unacked' \in {unacked, [unacked EXCEPT ![w] = @ \ {cur[w]}]}
        /\ UNCHANGED <<events, ready, committed, dropped>>
    BY <1>9 DEF Ack, history
  <2>2. cur[w] \in committed \cup dropped
    BY <2>1 DEF HandledLeavesATrace
  <2>3. \A v \in Workers : unacked[v] \ {cur[w]} \subseteq unacked'[v]
    BY <2>1 DEF TypeInv, TypeOK, BrokerOK
  <2>4. NothingLost'
    BY <2>1, <2>2, <2>3 DEF NothingLost
  <2>5. HandledLeavesATrace'
    BY <2>1 DEF HandledLeavesATrace, TypeInv, TypeOK, WorkersOK
  <2> QED
    BY <2>4, <2>5
<1>10. ASSUME NEW w \in Workers,
              Disconnect(w) \/ ClientNotices(w) \/ BrokerNotices(w) \/ Crash(w)
       PROVE  NothingLostInv'
  <2>1. /\ \/ ready' = ready /\ unacked' = unacked
           \/ ready' = ready \cup unacked[w] /\ unacked' = [unacked EXCEPT ![w] = {}]
        /\ UNCHANGED <<events, committed, dropped>>
    BY <1>10 DEF Disconnect, ClientNotices, BrokerNotices, Crash, history
  <2>2. \A v \in Workers : v # w => unacked'[v] = unacked[v]
    BY <2>1 DEF TypeInv, TypeOK, BrokerOK
  <2>3. NothingLost'
    BY <2>1, <2>2 DEF NothingLost
  <2>4. \A v \in Workers : pc'[v] \in {"broadcast", "ack"}
                              => pc'[v] = pc[v] /\ cur'[v] = cur[v]
    BY <1>10 DEF Disconnect, ClientNotices, BrokerNotices, Crash, workerVars, TypeInv,
       TypeOK, WorkersOK
  <2>5. HandledLeavesATrace'
    BY <2>1, <2>4 DEF HandledLeavesATrace
  <2> QED
    BY <2>3, <2>5
<1>11. ASSUME NEW h \in Hubs,
              \/ processRabbitmqMessage(h) \/ LateNotification(h) \/ HubDisconnect(h)
              \/ HubCrash(h) \/ LoadChatsFromStore(h) \/ BindQueue(h)
       PROVE  NothingLostInv'
  <2>1. UNCHANGED <<brokerVars, workerVars, committed, dropped>>
    BY <1>11 DEF processRabbitmqMessage, LateNotification, HubDisconnect, HubCrash,
       LoadChatsFromStore, BindQueue, history
  <2> QED
    BY <2>1 DEF brokerVars, workerVars, NothingLost, HandledLeavesATrace
<1>12. CASE UNCHANGED vars
  BY <1>12 DEF vars, brokerVars, workerVars, history, NothingLost, HandledLeavesATrace
<1>13. ASSUME NEW h \in Hubs, PostMessage(h) \/ PostChange(h) \/ AddChat(h)
       PROVE  NothingLostInv'
  BY <1>1, <1>13 DEF PostMessage, PostChange, AddChat
<1>14. ASSUME NEW w \in Workers, newMessage(w) \/ newChat(w)
       PROVE  NothingLostInv'
  BY <1>2, <1>14, Zenon DEF newMessage, newChat
<1>15. ASSUME NEW w \in Workers, editMessage(w) \/ hideMessage(w) \/ deleteMessage(w)
       PROVE  NothingLostInv'
  BY <1>2, <1>15, Zenon DEF editMessage, hideMessage, deleteMessage, FindOneAndUpdate
<1> QED
  BY <1>4, <1>5, <1>6, <1>7, <1>8, <1>9, <1>10, <1>11, <1>12, <1>13, <1>14, <1>15 DEF Next

\* However many chat-servers share the queue, and however often they crash or
\* lose their connection, an event accepted into the queue stays there until
\* MongoDB has its effect or its handler has failed.
THEOREM NothingIsLost == Spec => []NothingLost
<1>1. NothingLostInv => NothingLost
  BY DEF NothingLostInv
<1> QED
  BY <1>1, TypeInvariant, InitNothingLost, StepNothingLost, PTL DEF Spec

-----------------------------------------------------------------------------
(* What a webapp knows of the chats, with one worker.  With two of them a  *)
(* message can overtake the announcement of its chat: a webapp that        *)
(* restarts reads the chat from MongoDB before it is announced.            *)

\* One goroutine of one chat-server handles all events.
Solo == \E w : Workers = {w}

\* h knows the chat, will read of it, or has missed its announcement.
Told(h, c) ==
    \/ c \in known[h]
    \/ <<"chat", c>> \in missed[h]
    \/ \E i \in DOMAIN inbox[h] : inbox[h][i].type = "newChat" /\ inbox[h][i].chat = c

Announcing(w, c) ==
    pc[w] = "broadcast" /\ result[w].type = "newChat" /\ result[w].chat = c

\* Whatever names a chat names one that is stored.
ChatsOK ==
    /\ \A h \in Hubs : known[h] \subseteq 1..chats
    /\ \A h \in Hubs : \A i \in DOMAIN inbox[h] : inbox[h][i].chat \in 1..chats
    /\ \A h \in Hubs : \A l \in late[h] : l[2].chat \in 1..chats
    /\ \A e \in DOMAIN events : events[e].type # "newChat" => events[e].chat \in 1..chats
    /\ \A w \in Workers : pc[w] = "broadcast" => result[w].chat \in 1..chats

\* A stored chat that a running webapp was not told of is about to be announced.
ToldOrInHand ==
    \A h \in Hubs : \A c \in 1..chats :
        hubState[h] # "down" => Told(h, c) \/ \E w \in Workers : Announcing(w, c)

\* A chat is announced before anything else is said of it.
AnnouncedFirst ==
    \A w \in Workers, h \in Hubs : \A i \in DOMAIN inbox[h] :
        ~ Announcing(w, inbox[h][i].chat)

KnownInv == ChatsOK /\ ToldOrInHand /\ AnnouncedFirst /\ ChatKnownBeforeItsMessages


LEMMA InitKnown == Init => KnownInv
BY DEF Init, KnownInv, ChatsOK, ToldOrInHand, AnnouncedFirst, ChatKnownBeforeItsMessages,
   Told, Announcing

LEMMA SubjectIs ==
    ASSUME NEW n, NEW c
    PROVE  Subject(n) = <<"chat", c>> <=> n.type = "newChat" /\ n.chat = c
BY DEF Subject

\* A step that adds no chat, publishes nothing and takes nothing from an inbox.
LEMMA QuietKnown ==
    ASSUME KnownInv, UNCHANGED <<chats, hubState, known, inbox, late>>,
           \A h \in Hubs : \A c : <<"chat", c>> \in missed'[h] <=> <<"chat", c>> \in missed[h],
           \A e \in DOMAIN events' :
               events'[e].type # "newChat" => events'[e].chat \in 1..chats,
           \A v \in Workers : pc[v] = "broadcast" => pc'[v] = "broadcast",
           \A v \in Workers : pc'[v] = "broadcast" =>
               \/ pc[v] = "broadcast" /\ result'[v] = result[v]
               \/ /\ pc[v] # "broadcast"
                  /\ result'[v].type # "newChat" /\ result'[v].chat \in 1..chats
    PROVE  KnownInv'
<1>1. \A h \in Hubs : \A c : Told(h, c)' <=> Told(h, c)
  <2> SUFFICES ASSUME NEW h \in Hubs, NEW c
               PROVE  Told(h, c)' <=> Told(h, c)
    OBVIOUS
  <2>1. <<"chat", c>> \in missed'[h] <=> <<"chat", c>> \in missed[h]
    OBVIOUS
  <2> QED
    BY <2>1, Zenon DEF Told
<1>2. \A v \in Workers : \A c : Announcing(v, c)' <=> Announcing(v, c)
  BY DEF Announcing
<1>3. ChatsOK'
  BY DEF KnownInv, ChatsOK
<1>4. ToldOrInHand'
  BY <1>1, <1>2 DEF KnownInv, ToldOrInHand
<1>5. AnnouncedFirst'
  BY <1>2 DEF KnownInv, AnnouncedFirst
<1>6. ChatKnownBeforeItsMessages'
  BY DEF KnownInv, ChatKnownBeforeItsMessages
<1> QED
  BY <1>3, <1>4, <1>5, <1>6 DEF KnownInv

LEMMA PublishKnown ==
    ASSUME TypeInv, KnownInv, NEW h \in Hubs, NEW evt, PublishEvent(h, evt),
           evt.type # "newChat" => evt.chat \in known[h]
    PROVE  KnownInv'
<1>1. events \in Seq(Event) /\ events' = Append(events, evt)
      /\ UNCHANGED <<chats, hubState, known, inbox, late, missed, pc, result>>
  BY DEF PublishEvent, TypeInv, TypeOK, BrokerOK, workerVars, storeVars, hubVars, history
<1>2. evt.type # "newChat" => evt.chat \in 1..chats
  BY DEF KnownInv, ChatsOK
<1>3. \A e \in DOMAIN events' :
          events'[e].type # "newChat" => events'[e].chat \in 1..chats
  BY <1>1, <1>2 DEF KnownInv, ChatsOK
<1> QED
  BY <1>1, <1>3, QuietKnown

LEMMA PostKnown ==
    ASSUME TypeInv, KnownInv, NEW h \in Hubs, PostMessage(h) \/ PostChange(h) \/ AddChat(h)
    PROVE  KnownInv'
<1>1. CASE PostMessage(h)
  <2>1. PICK c \in known[h] :
           PublishEvent(h, [type |-> "new", chat |-> c, msg |-> 0, user |-> NoUser])
    BY <1>1 DEF PostMessage
  <2> QED
    BY <2>1, PublishKnown
<1>2. CASE PostChange(h)
  <2>1. PICK m \in DOMAIN docs, t \in MessageTypes, u \in Users \cup {NoUser} :
           /\ docs[m].chat \in known[h]
           /\ PublishEvent(h, [type |-> t, chat |-> docs[m].chat, msg |-> m, user |-> u])
    BY <1>2 DEF PostChange, MessageTypes
  <2> QED
    BY <2>1, PublishKnown
<1>3. CASE AddChat(h)
  BY <1>3, PublishKnown DEF AddChat
<1> QED
  BY <1>1, <1>2, <1>3

\* What a handler returns about a message carries the chat of its event.
LEMMA MessageKnown ==
    ASSUME TypeInv, KnownInv, NEW w \in Workers,
           newMessage(w) \/ editMessage(w) \/ hideMessage(w) \/ deleteMessage(w)
    PROVE  KnownInv'
<1> DEFINE evt == events[cur[w]]
<1>1. /\ pc[w] = "handle" /\ evt.type \in MessageTypes
      /\ UNCHANGED <<events, chats, hubState, known, inbox, late>>
      /\ \/ pc' = [pc EXCEPT ![w] = "ack"] /\ UNCHANGED result
         \/ /\ pc' = [pc EXCEPT ![w] = "broadcast"]
            /\ \E m, d : result' = [result EXCEPT ![w] =
                   [type |-> evt.type, chat |-> evt.chat, msg |-> m, doc |-> d]]
      /\ \/ UNCHANGED missed
         \/ \E m : missed' = [h \in Hubs |-> missed[h] \cup {<<"msg", m>>}]
  <2>1. /\ pc[w] = "handle" /\ evt.type \in MessageTypes
        /\ UNCHANGED <<brokerVars, chats, hubVars>>
        /\ \E m, d : Return(w, [type |-> evt.type, chat |-> evt.chat, msg |-> m, doc |-> d])
    <3>1. CASE newMessage(w)
      BY <3>1, Zenon DEF newMessage, Handling, MessageTypes
    <3>2. CASE editMessage(w) \/ hideMessage(w) \/ deleteMessage(w)
      <4>1. pc[w] = "handle" /\ evt.type \in MessageTypes /\ \E d : FindOneAndUpdate(w, d)
        BY <3>2, Zenon DEF editMessage, hideMessage, deleteMessage, Handling, MessageTypes
      <4> QED
        BY <4>1, Zenon DEF FindOneAndUpdate
    <3> QED
      BY <3>1, <3>2
  <2>2. PICK m, d : Return(w, [type |-> evt.type, chat |-> evt.chat, msg |-> m, doc |-> d])
    BY <2>1
  <2> DEFINE n == [type |-> evt.type, chat |-> evt.chat, msg |-> m, doc |-> d]
  <2>3. Subject(n) = <<"msg", m>>
    BY <2>1 DEF Subject, MessageTypes
  <2>4. \/ /\ result' = [result EXCEPT ![w] = n]
           /\ pc' = [pc EXCEPT ![w] = "broadcast"]
           /\ UNCHANGED missed
        \/ /\ pc' = [pc EXCEPT ![w] = "ack"]
           /\ missed' = [h \in Hubs |-> missed[h] \cup {<<"msg", m>>}]
           /\ UNCHANGED result
    BY <2>2, <2>3, Zenon DEF Return
  <2> QED
    BY <2>1, <2>4, Zenon DEF brokerVars, hubVars
<1>2. evt.chat \in 1..chats /\ evt.type # "newChat"
  BY <1>1, InHandEvent DEF KnownInv, ChatsOK, MessageTypes
<1> HIDE DEF evt
<1>3. /\ pc \in [Workers -> {"off", "idle", "handle", "broadcast", "ack"}]
      /\ result \in [Workers -> Notification]
  BY DEF TypeInv, TypeOK, WorkersOK
<1>4. \A h \in Hubs : \A c : <<"chat", c>> \in missed'[h] <=> <<"chat", c>> \in missed[h]
  BY <1>1
<1>5. \A v \in Workers : pc[v] = "broadcast" => pc'[v] = "broadcast"
  BY <1>1, <1>3
<1>6. \A v \in Workers : pc'[v] = "broadcast" =>
          \/ pc[v] = "broadcast" /\ result'[v] = result[v]
          \/ /\ pc[v] # "broadcast"
             /\ result'[v].type # "newChat" /\ result'[v].chat \in 1..chats
  BY <1>1, <1>2, <1>3
<1>7. \A e \in DOMAIN events' :
          events'[e].type # "newChat" => events'[e].chat \in 1..chats
  BY <1>1 DEF KnownInv, ChatsOK
<1> QED
  BY <1>1, <1>4, <1>5, <1>6, <1>7, QuietKnown

\* SaveChat stores a chat that nothing names yet.
LEMMA newChatKnown ==
    ASSUME TypeInv, KnownInv, NEW w \in Workers, newChat(w)
    PROVE  KnownInv'
<1>0. PICK c0 \in Nat : c0 = chats + 1
  BY DEF TypeInv, TypeOK, StoreOK
<1> DEFINE n == [type |-> "newChat", chat |-> c0, msg |-> 0, doc |-> NoDoc]
<1>1. /\ pc[w] = "handle" /\ chats' = c0
      /\ UNCHANGED <<events, hubState, known, inbox, late>>
      /\ \/ /\ result' = [result EXCEPT ![w] = n]
            /\ pc' = [pc EXCEPT ![w] = "broadcast"]
            /\ UNCHANGED missed
         \/ /\ pc' = [pc EXCEPT ![w] = "ack"]
            /\ missed' = [h \in Hubs |-> missed[h] \cup {Subject(n)}]
            /\ UNCHANGED result
  BY <1>0, Zenon DEF newChat, Handling, Return, brokerVars, hubVars
<1>2. /\ n.type = "newChat" /\ n.chat = c0
      /\ c0 \in 1..c0 /\ c0 \notin 1..chats
      /\ 1..chats \subseteq 1..c0 /\ \A c \in 1..c0 : c \in 1..chats \/ c = c0
  BY <1>0 DEF TypeInv, TypeOK, StoreOK
<1> HIDE DEF n
<1>3. /\ pc'[w] = "broadcast" => result'[w] = n
      /\ \A v \in Workers : v # w => pc'[v] = pc[v] /\ result'[v] = result[v]
  BY <1>1 DEF TypeInv, TypeOK, WorkersOK
<1>4. \A h \in Hubs : \A c : Told(h, c) => Told(h, c)'
  BY <1>1 DEF Told
<1>5. /\ \A v \in Workers : \A c : Announcing(v, c) => Announcing(v, c)'
      /\ Announcing(w, c0)' \/ \A h \in Hubs : Told(h, c0)'
      /\ \A v \in Workers : \A c : Announcing(v, c)' => Announcing(v, c) \/ c = c0
  <2>1. ASSUME NEW v \in Workers, NEW c, Announcing(v, c) PROVE Announcing(v, c)'
    <3>1. v # w
      BY <1>1, <2>1 DEF Announcing
    <3> QED
      BY <1>3, <2>1, <3>1 DEF Announcing
  <2>2. Announcing(w, c0)' \/ \A h \in Hubs : Told(h, c0)'
    <3>1. CASE pc' = [pc EXCEPT ![w] = "broadcast"]
      <4>1. pc'[w] = "broadcast"
        BY <3>1 DEF TypeInv, TypeOK, WorkersOK
      <4> QED
        BY <1>2, <1>3, <4>1 DEF Announcing
    <3>2. CASE missed' = [h \in Hubs |-> missed[h] \cup {Subject(n)}]
      <4>1. Subject(n) = <<"chat", c0>>
        BY <1>2, SubjectIs
      <4> QED
        BY <3>2, <4>1 DEF Told
    <3> QED
      BY <1>1, <3>1, <3>2
  <2>3. ASSUME NEW v \in Workers, NEW c, Announcing(v, c)'
        PROVE  Announcing(v, c) \/ c = c0
    BY <1>2, <1>3, <2>3 DEF Announcing
  <2> QED
    BY <2>1, <2>2, <2>3
<1>6. ChatsOK'
  BY <1>1, <1>2, <1>3 DEF KnownInv, ChatsOK
<1>7. ToldOrInHand'
  <2> SUFFICES ASSUME NEW h \in Hubs, NEW c \in 1..chats', hubState[h] # "down"
               PROVE  Told(h, c)' \/ \E v \in Workers : Announcing(v, c)'
    BY <1>1 DEF ToldOrInHand
  <2>1. CASE c = c0
    BY <1>5, <2>1
  <2>2. CASE c \in 1..chats
    <3>1. Told(h, c) \/ \E v \in Workers : Announcing(v, c)
      BY <2>2 DEF KnownInv, ToldOrInHand
    <3> QED
      BY <1>4, <1>5, <3>1
  <2> QED
    BY <1>1, <1>2, <2>1, <2>2
<1>8. AnnouncedFirst'
  BY <1>1, <1>2, <1>5 DEF KnownInv, AnnouncedFirst, ChatsOK
<1>9. ChatKnownBeforeItsMessages'
  <2>1. \A h \in Hubs : missed[h] \subseteq missed'[h]
    BY <1>1
  <2> QED
    BY <1>1, <2>1 DEF KnownInv, ChatKnownBeforeItsMessages
<1> QED
  BY <1>6, <1>7, <1>8, <1>9 DEF KnownInv

\* An announcement that is lost is one that every webapp misses.
LEMMA LostKnown ==
    ASSUME TypeInv, KnownInv, NEW w \in Workers, pc[w] = "broadcast",
           \A v \in Workers : v # w => pc'[v] = pc[v] /\ result'[v] = result[v],
           pc'[w] # "broadcast",
           missed' = [h \in Hubs |-> missed[h] \cup {Subject(result[w])}],
           UNCHANGED <<events, chats, hubState, known, inbox, late>>
    PROVE  KnownInv'
<1>1. \A h \in Hubs : \A c : Told(h, c) => Told(h, c)'
  BY DEF Told
<1>2. \A h \in Hubs : \A c : Announcing(w, c) => Told(h, c)'
  <2>1. \A c : Announcing(w, c) => Subject(result[w]) = <<"chat", c>>
    BY SubjectIs DEF Announcing
  <2> QED
    BY <2>1 DEF Told
<1>3. /\ \A c : ~ Announcing(w, c)'
      /\ \A v \in Workers : v # w => \A c : Announcing(v, c)' <=> Announcing(v, c)
  BY DEF Announcing
<1>4. ChatsOK'
  BY DEF KnownInv, ChatsOK
<1>5. ToldOrInHand'
  BY <1>1, <1>2, <1>3 DEF KnownInv, ToldOrInHand
<1>6. AnnouncedFirst'
  BY <1>3 DEF KnownInv, AnnouncedFirst
<1>7. ChatKnownBeforeItsMessages'
  BY DEF KnownInv, ChatKnownBeforeItsMessages
<1> QED
  BY <1>4, <1>5, <1>6, <1>7 DEF KnownInv

\* Of the only worker's two cases, a message finds its chat told, an announcement
\* finds nothing said of its chat.
LEMMA broadcastKnown ==
    ASSUME Solo, TypeInv, KnownInv, NEW w \in Workers, broadcast(w)
    PROVE  KnownInv'
<1> DEFINE n == result[w]
<1>1. /\ pc[w] = "broadcast" /\ pc' = [pc EXCEPT ![w] = "ack"]
      /\ inbox' = [h \in Hubs |-> IF hubState[h] = "bound" THEN Append(inbox[h], n)
                                                            ELSE inbox[h]]
      /\ missed' = [h \in Hubs |-> IF hubState[h] = "bound" THEN missed[h] \ {Subject(n)}
                                                             ELSE missed[h] \cup {Subject(n)}]
      /\ UNCHANGED <<events, chats, hubState, known, late>>
  BY DEF broadcast, brokerVars, storeVars
<1>2. \A v \in Workers : v = w /\ pc'[v] # "broadcast"
  BY <1>1 DEF Solo, TypeInv, TypeOK, WorkersOK
<1>3. \A h \in Hubs : inbox[h] \in Seq(Notification)
  BY DEF TypeInv, TypeOK, HubsOK
<1>4. n.chat \in 1..chats
  BY <1>1 DEF KnownInv, ChatsOK
<1> HIDE DEF n
<1>5. ASSUME NEW h \in Hubs, hubState[h] = "bound"
      PROVE  /\ DOMAIN inbox'[h] = DOMAIN inbox[h] \cup {Len(inbox[h]) + 1}
             /\ \A i \in DOMAIN inbox[h] : inbox'[h][i] = inbox[h][i]
             /\ inbox'[h][Len(inbox[h]) + 1] = n
             /\ \A i \in DOMAIN inbox[h] : i \in 1..((Len(inbox[h]) + 1) - 1)
  BY <1>1, <1>3, <1>5
<1>6. ASSUME NEW h \in Hubs, hubState[h] # "bound"
      PROVE  inbox'[h] = inbox[h]
  BY <1>1, <1>6
<1>7. \A h \in Hubs : \A c : Told(h, c) => Told(h, c)'
  <2> SUFFICES ASSUME NEW h \in Hubs, NEW c, Told(h, c)
               PROVE  Told(h, c)'
    OBVIOUS
  <2>1. CASE c \in known[h]
    BY <1>1, <2>1 DEF Told
  <2>2. CASE <<"chat", c>> \in missed[h]
    <3>1. CASE hubState[h] = "bound" /\ Subject(n) = <<"chat", c>>
      <4>1. n.type = "newChat" /\ n.chat = c
        BY <3>1, SubjectIs
      <4> QED
        BY <1>5, <3>1, <4>1 DEF Told
    <3>2. CASE ~ (hubState[h] = "bound" /\ Subject(n) = <<"chat", c>>)
      BY <1>1, <2>2, <3>2 DEF Told
    <3> QED
      BY <3>1, <3>2
  <2>3. CASE \E i \in DOMAIN inbox[h] : inbox[h][i].type = "newChat" /\ inbox[h][i].chat = c
    BY <1>5, <1>6, <2>3 DEF Told
  <2> QED
    BY <2>1, <2>2, <2>3 DEF Told
<1>8. \A h \in Hubs : \A c : Announcing(w, c) => Told(h, c)'
  <2> SUFFICES ASSUME NEW h \in Hubs, NEW c, Announcing(w, c)
               PROVE  Told(h, c)'
    OBVIOUS
  <2>1. n.type = "newChat" /\ n.chat = c /\ Subject(n) = <<"chat", c>>
    BY SubjectIs DEF Announcing, n
  <2>2. CASE hubState[h] = "bound"
    BY <1>5, <2>1, <2>2 DEF Told
  <2>3. CASE hubState[h] # "bound"
    BY <1>1, <2>1, <2>3 DEF Told
  <2> QED
    BY <2>2, <2>3
<1>9. ToldOrInHand'
  BY <1>1, <1>2, <1>7, <1>8 DEF KnownInv, ToldOrInHand
<1>10. AnnouncedFirst'
  BY <1>2 DEF AnnouncedFirst, Announcing
<1>11. ChatsOK'
  <2>1. \A h \in Hubs : \A i \in DOMAIN inbox'[h] : inbox'[h][i].chat \in 1..chats
    BY <1>4, <1>5, <1>6 DEF KnownInv, ChatsOK
  <2> QED
    BY <1>1, <1>2, <2>1 DEF KnownInv, ChatsOK
<1>12. ChatKnownBeforeItsMessages'
  <2> SUFFICES ASSUME NEW h \in Hubs, NEW i \in DOMAIN inbox'[h],
                      inbox'[h][i].type # "newChat",
                      <<"chat", inbox'[h][i].chat>> \notin missed'[h]
               PROVE  \/ inbox'[h][i].chat \in known[h]
                      \/ \E j \in 1..(i - 1) : /\ inbox'[h][j].type = "newChat"
                                               /\ inbox'[h][j].chat = inbox'[h][i].chat
    BY <1>1, Zenon DEF ChatKnownBeforeItsMessages
  <2> DEFINE c == inbox'[h][i].chat
  <2>1. CASE i \in DOMAIN inbox[h]
    <3>1. inbox'[h][i] = inbox[h][i]
      BY <1>5, <1>6, <2>1
    <3>2. <<"chat", c>> \notin missed[h]
      <4>1. n.type = "newChat" => n.chat # c
        BY <1>1, <2>1, <3>1 DEF KnownInv, AnnouncedFirst, Announcing, n
      <4>2. Subject(n) # <<"chat", c>>
        BY <4>1, SubjectIs
      <4> QED
        BY <1>1, <4>2
    <3>3. \/ c \in known[h]
          \/ \E j \in 1..(i - 1) : inbox[h][j].type = "newChat" /\ inbox[h][j].chat = c
      BY <2>1, <3>1, <3>2 DEF KnownInv, ChatKnownBeforeItsMessages
    <3>4. \A j \in 1..(i - 1) : j \in DOMAIN inbox[h] /\ inbox'[h][j] = inbox[h][j]
      BY <1>3, <1>5, <1>6, <2>1
    <3> QED
      BY <3>3, <3>4
  <2>2. CASE i \notin DOMAIN inbox[h]
    <3>1. hubState[h] = "bound" /\ i = Len(inbox[h]) + 1 /\ inbox'[h][i] = n
      BY <1>5, <1>6, <2>2
    <3>2. c \in 1..chats /\ \A v \in Workers : ~ Announcing(v, c)
      BY <1>2, <1>4, <3>1 DEF Announcing, n
    <3>3. Told(h, c)
      BY <3>1, <3>2 DEF KnownInv, ToldOrInHand
    <3>4. Subject(n) # <<"chat", c>>
      BY <3>1, SubjectIs
    <3>5. <<"chat", c>> \notin missed[h]
      BY <1>1, <3>1, <3>4
    <3> QED
      BY <1>5, <3>1, <3>3, <3>5 DEF Told
  <2> QED
    BY <2>1, <2>2
<1> QED
  BY <1>9, <1>10, <1>11, <1>12 DEF KnownInv

\* What is read from an inbox is known from then on.
LEMMA ReadKnown ==
    ASSUME TypeInv, KnownInv, NEW h \in Hubs, processRabbitmqMessage(h)
    PROVE  KnownInv'
<1> DEFINE b == inbox[h]
           n == Head(b)
<1>1. /\ b # <<>> /\ inbox' = [inbox EXCEPT ![h] = Tail(@)]
      /\ \/ n.type = "newChat" /\ known' = [known EXCEPT ![h] = @ \cup {n.chat}]
         \/ n.type # "newChat" /\ known' = known
      /\ UNCHANGED <<events, chats, hubState, late, missed, pc, result>>
  BY DEF processRabbitmqMessage, Apply, brokerVars, workerVars, storeVars, history
<1>2. /\ inbox \in [Hubs -> Seq(Notification)] /\ b \in Seq(Notification)
      /\ known \in [Hubs -> SUBSET Nat]
  BY DEF TypeInv, TypeOK, HubsOK
<1>3. /\ \A g \in Hubs : g # h => inbox'[g] = inbox[g] /\ known'[g] = known[g]
      /\ inbox'[h] = Tail(b)
      /\ known[h] \subseteq known'[h] /\ known'[h] \subseteq known[h] \cup {n.chat}
      /\ n.type = "newChat" => n.chat \in known'[h]
  BY <1>1, <1>2
<1>4. PICK k \in Nat : Len(b) = k + 1
  <2>1. PICK l \in Nat : l = Len(b)
    BY <1>2
  <2>2. l # 0
    BY <1>1, <1>2, <2>1
  <2>3. l - 1 \in Nat /\ l = (l - 1) + 1
    BY <2>2
  <2> QED
    BY <2>1, <2>3
<1>5. /\ n = b[1] /\ DOMAIN b = 1..(k + 1) /\ DOMAIN inbox'[h] = 1..k
      /\ \A i \in 1..k : inbox'[h][i] = b[i + 1]
  BY <1>1, <1>2, <1>3, <1>4
<1> HIDE DEF n
<1>6. \A i \in 1..k : i + 1 \in 1..(k + 1) /\ 1 \in 1..(k + 1)
  OBVIOUS
<1>7. \A i \in 1..(k + 1) : i = 1 \/ \E j \in 1..k : i = j + 1
  <2> SUFFICES ASSUME NEW i \in 1..(k + 1), i # 1
               PROVE  i - 1 \in 1..k /\ i = (i - 1) + 1
    OBVIOUS
  <2> QED
    OBVIOUS
<1>8. n.chat \in 1..chats
  BY <1>5 DEF KnownInv, ChatsOK
<1>9. ChatsOK'
  <2>1. \A i \in DOMAIN inbox'[h] : inbox'[h][i].chat \in 1..chats
    BY <1>5, <1>6 DEF KnownInv, ChatsOK
  <2> QED
    BY <1>1, <1>3, <1>8, <2>1 DEF KnownInv, ChatsOK
<1>10. \A g \in Hubs : \A c : Told(g, c) => Told(g, c)'
  <2> SUFFICES ASSUME NEW g \in Hubs, NEW c, Told(g, c)
               PROVE  Told(g, c)'
    OBVIOUS
  <2>1. CASE g # h
    BY <1>1, <1>3, <2>1 DEF Told
  <2>2. CASE g = h /\ (c \in known[h] \/ <<"chat", c>> \in missed[h])
    BY <1>1, <1>3, <2>2 DEF Told
  <2>3. CASE g = h /\ \E i \in DOMAIN b : b[i].type = "newChat" /\ b[i].chat = c
    <3>1. PICK i \in 1..(k + 1) : b[i].type = "newChat" /\ b[i].chat = c
      BY <1>5, <2>3
    <3>2. CASE i = 1
      BY <1>3, <1>5, <2>3, <3>1, <3>2 DEF Told
    <3>3. CASE \E j \in 1..k : i = j + 1
      BY <1>5, <2>3, <3>1, <3>3 DEF Told
    <3> QED
      BY <1>7, <3>2, <3>3
  <2> QED
    BY <2>1, <2>2, <2>3 DEF Told
<1>11. \A v \in Workers : \A c : Announcing(v, c)' <=> Announcing(v, c)
  BY <1>1 DEF Announcing
<1>12. ToldOrInHand'
  BY <1>1, <1>10, <1>11 DEF KnownInv, ToldOrInHand
<1>13. AnnouncedFirst'
  <2>1. \A g \in Hubs : \A i \in DOMAIN inbox'[g] :
           \E j \in DOMAIN inbox[g] : inbox'[g][i] = inbox[g][j]
    BY <1>3, <1>5, <1>6
  <2> QED
    BY <1>11, <2>1 DEF KnownInv, AnnouncedFirst
<1>14. ChatKnownBeforeItsMessages'
  <2> SUFFICES ASSUME NEW g \in Hubs, NEW i \in DOMAIN inbox'[g],
                      inbox'[g][i].type # "newChat",
                      <<"chat", inbox'[g][i].chat>> \notin missed[g]
               PROVE  \/ inbox'[g][i].chat \in known'[g]
                      \/ \E j \in 1..(i - 1) : /\ inbox'[g][j].type = "newChat"
                                               /\ inbox'[g][j].chat = inbox'[g][i].chat
    BY <1>1, Zenon DEF ChatKnownBeforeItsMessages
  <2> DEFINE c == inbox'[g][i].chat
  <2>1. CASE g # h
    BY <1>3, <2>1 DEF KnownInv, ChatKnownBeforeItsMessages
  <2>2. CASE g = h
    <3>1. i \in 1..k /\ inbox'[h][i] = b[i + 1] /\ i + 1 \in DOMAIN b
      BY <1>5, <1>6, <2>2
    <3>2. \/ c \in known[h]
          \/ \E j \in 1..((i + 1) - 1) : b[j].type = "newChat" /\ b[j].chat = c
      BY <2>2, <3>1 DEF KnownInv, ChatKnownBeforeItsMessages
    <3>3. CASE c \in known[h]
      BY <1>3, <2>2, <3>3
    <3>4. ASSUME NEW j \in 1..i, b[j].type = "newChat", b[j].chat = c
          PROVE  \/ c \in known'[h]
                 \/ \E l \in 1..(i - 1) : inbox'[h][l].type = "newChat" /\ inbox'[h][l].chat = c
      <4>1. CASE j = 1
        BY <1>3, <1>5, <3>4, <4>1
      <4>2. CASE j # 1
        <5>1. j - 1 \in 1..(i - 1) /\ j - 1 \in 1..k /\ (j - 1) + 1 = j
          BY <3>1, <4>2
        <5>2. inbox'[h][j - 1] = b[j]
          BY <1>5, <5>1
        <5> QED
          BY <3>4, <5>1, <5>2
      <4> QED
        BY <4>1, <4>2
    <3>5. (i + 1) - 1 = i
      BY <3>1
    <3> QED
      BY <2>2, <3>2, <3>3, <3>4, <3>5
  <2> QED
    BY <2>1, <2>2
<1> QED
  BY <1>9, <1>12, <1>13, <1>14 DEF KnownInv

\* A webapp that loses its queue misses what was in it; one that starts has read
\* every chat or missed them all; a late notification takes nothing away.
LEMMA RestartKnown ==
    ASSUME TypeInv, KnownInv, NEW h \in Hubs,
           \/ LateNotification(h) \/ HubDisconnect(h) \/ HubCrash(h)
           \/ LoadChatsFromStore(h) \/ BindQueue(h)
    PROVE  KnownInv'
<1> DEFINE Kept == /\ inbox'[h] = inbox[h] /\ missed[h] \subseteq missed'[h]
                   /\ known[h] \subseteq known'[h] /\ known'[h] \subseteq 1..chats
           Emptied == /\ inbox'[h] = <<>> /\ known'[h] = known[h]
                      /\ missed'[h] = missed[h] \cup InboxSubjects(h)
           Ended == hubState'[h] = "down" /\ inbox'[h] = <<>> /\ known'[h] = {}
<1>1. /\ UNCHANGED <<events, chats, pc, result>>
      /\ \A g \in Hubs : g # h =>
             /\ hubState'[g] = hubState[g] /\ known'[g] = known[g]
             /\ inbox'[g] = inbox[g] /\ missed'[g] = missed[g] /\ late'[g] = late[g]
  <2>1. UNCHANGED <<events, chats, pc, result>>
    BY DEF LateNotification, HubDisconnect, HubCrash, LoadChatsFromStore, BindQueue,
       brokerVars, workerVars, storeVars
  <2>2. ASSUME NEW g \in Hubs, g # h
        PROVE  /\ hubState'[g] = hubState[g] /\ known'[g] = known[g]
               /\ inbox'[g] = inbox[g] /\ missed'[g] = missed[g] /\ late'[g] = late[g]
    <3> USE DEF TypeInv, TypeOK, HubsOK, HistoryOK
    <3>1. CASE LateNotification(h)
      BY <2>2, <3>1 DEF LateNotification, Apply
    <3>2. CASE HubDisconnect(h)
      <4>1. UNCHANGED late \/ \E x : late' = [late EXCEPT ![h] = x]
        BY <3>2, Zenon DEF HubDisconnect
      <4>2. late'[g] = late[g]
        BY <2>2, <4>1
      <4>3. /\ hubState' = [hubState EXCEPT ![h] = "lost"] /\ UNCHANGED known
            /\ inbox' = [inbox EXCEPT ![h] = <<>>]
            /\ missed' = [missed EXCEPT ![h] = @ \cup InboxSubjects(h)]
        BY <3>2, Zenon DEF HubDisconnect
      <4> QED
        BY <2>2, <4>2, <4>3
    <3>3. CASE HubCrash(h)
      BY <2>2, <3>3 DEF HubCrash
    <3>4. CASE LoadChatsFromStore(h) \/ BindQueue(h)
      BY <2>2, <3>4 DEF LoadChatsFromStore, BindQueue, history
    <3> QED
      BY <3>1, <3>2, <3>3, <3>4
  <2> QED
    BY <2>1, <2>2
<1>2. /\ known[h] \subseteq 1..chats
      /\ \A i \in DOMAIN inbox[h] : inbox[h][i].chat \in 1..chats
      /\ \A l \in late[h] : l[2].chat \in 1..chats
  BY DEF KnownInv, ChatsOK
<1>3. Kept \/ Emptied \/ Ended
  <2>1. CASE LateNotification(h)
    BY <1>2, <2>1 DEF LateNotification, Apply, TypeInv, TypeOK, HubsOK, HistoryOK
  <2>2. CASE HubDisconnect(h)
    BY <2>2 DEF HubDisconnect, TypeInv, TypeOK, HubsOK, HistoryOK
  <2>3. CASE HubCrash(h)
    BY <2>3 DEF HubCrash, TypeInv, TypeOK, HubsOK
  <2>4. CASE LoadChatsFromStore(h)
    BY <1>2, <2>4 DEF LoadChatsFromStore, TypeInv, TypeOK, HubsOK, HistoryOK
  <2>5. CASE BindQueue(h)
    BY <1>2, <2>5 DEF BindQueue, history
  <2> QED
    BY <2>1, <2>2, <2>3, <2>4, <2>5
<1>4. \A c \in 1..chats : \/ hubState'[h] = "down"
                          \/ hubState[h] # "down"
                          \/ Told(h, c)'
  <2>1. CASE LateNotification(h) \/ HubDisconnect(h) \/ BindQueue(h)
    BY <2>1 DEF LateNotification, HubDisconnect, BindQueue
  <2>2. CASE HubCrash(h)
    BY <2>2 DEF HubCrash, TypeInv, TypeOK, HubsOK
  <2>3. CASE LoadChatsFromStore(h)
    <3>1. known'[h] = 1..chats \/ {<<"chat", c>> : c \in 1..chats} \subseteq missed'[h]
      BY <2>3 DEF LoadChatsFromStore, TypeInv, TypeOK, HubsOK, HistoryOK
    <3>2. \A c \in 1..chats : c \in known'[h] \/ <<"chat", c>> \in missed'[h]
      BY <3>1
    <3> QED
      BY <3>2, Zenon DEF Told
  <2> QED
    BY <2>1, <2>2, <2>3
<1>5. \A l \in late'[h] : l[2].chat \in 1..chats
  <2>1. CASE HubDisconnect(h) /\ ~ UNCHANGED late
    <3>1. inbox[h] # <<>> /\ late' = [late EXCEPT ![h] = @ \cup {<<faults, Head(inbox[h])>>}]
      BY <2>1, Zenon DEF HubDisconnect
    <3>2. inbox[h] \in Seq(Notification)
      BY DEF TypeInv, TypeOK, HubsOK
    <3>3. Head(inbox[h]).chat \in 1..chats
      BY <1>2, <3>1, <3>2
    <3> QED
      BY <1>2, <3>1, <3>3 DEF TypeInv, TypeOK, HubsOK
  <2>2. CASE ~ (HubDisconnect(h) /\ ~ UNCHANGED late)
    <3>1. late'[h] \subseteq late[h]
      BY <2>2 DEF LateNotification, HubDisconnect, HubCrash, LoadChatsFromStore, BindQueue,
         TypeInv, TypeOK, HubsOK
    <3> QED
      BY <1>2, <3>1
  <2> QED
    BY <2>1, <2>2
<1>6. ASSUME NEW g \in Hubs, NEW c, Told(g, c)
      PROVE  Told(g, c)' \/ (g = h /\ hubState'[h] = "down")
  <2>1. CASE g # h
    BY <1>1, <1>6, <2>1, Zenon DEF Told
  <2>2. CASE g = h /\ Emptied
    <3>1. \A i \in DOMAIN inbox[h] : inbox[h][i].type = "newChat" /\ inbox[h][i].chat = c
             => <<"chat", c>> \in missed'[h]
      BY <2>2, SubjectIs DEF InboxSubjects
    <3> QED
      BY <1>6, <2>2, <3>1 DEF Told
  <2>3. CASE g = h /\ Kept
    BY <1>6, <2>3 DEF Told
  <2> QED
    BY <1>3, <2>1, <2>2, <2>3
<1>7. \A v \in Workers : \A c : Announcing(v, c)' <=> Announcing(v, c)
  BY <1>1 DEF Announcing
<1>8. ToldOrInHand'
  BY <1>1, <1>4, <1>6, <1>7 DEF KnownInv, ToldOrInHand
<1>9. Kept \/ (DOMAIN inbox'[h] = {} /\ known'[h] \subseteq 1..chats)
  <2>1. DOMAIN <<>> = {}
    OBVIOUS
  <2>2. inbox'[h] = <<>> => DOMAIN inbox'[h] = {}
    BY <2>1, Zenon
  <2> QED
    BY <1>2, <1>3, <2>2
<1> HIDE DEF Emptied, Ended
<1>10. ChatsOK'
  BY <1>1, <1>5, <1>9 DEF KnownInv, ChatsOK
<1>11. AnnouncedFirst'
  BY <1>1, <1>7, <1>9 DEF KnownInv, AnnouncedFirst
<1>12. ChatKnownBeforeItsMessages'
  BY <1>1, <1>9 DEF KnownInv, ChatKnownBeforeItsMessages
<1> QED
  BY <1>8, <1>10, <1>11, <1>12 DEF KnownInv

LEMMA StepKnown ==
    ASSUME Solo
    PROVE  TypeInv /\ KnownInv /\ [Next]_vars => KnownInv'
<1> SUFFICES ASSUME TypeInv, KnownInv, [Next]_vars
             PROVE  KnownInv'
  OBVIOUS
<1> DEFINE Quiet == /\ UNCHANGED <<events, chats, hubState, known, inbox, late, missed, result>>
                    /\ \A v \in Workers : pc[v] = "broadcast" <=> pc'[v] = "broadcast"
<1>1. ASSUME Quiet PROVE KnownInv'
  <2>1. \A e \in DOMAIN events' :
            events'[e].type # "newChat" => events'[e].chat \in 1..chats
    BY <1>1 DEF KnownInv, ChatsOK
  <2> QED
    BY <1>1, <2>1, QuietKnown
<1>2. pc \in [Workers -> {"off", "idle", "handle", "broadcast", "ack"}]
      /\ result \in [Workers -> Notification]
  BY DEF TypeInv, TypeOK, WorkersOK
<1>3. ASSUME NEW w \in Workers,
             \/ Subscribe(w) \/ Deliver(w) \/ Take(w) \/ StoreError(w) \/ Ack(w)
             \/ Disconnect(w) \/ ClientNotices(w) \/ BrokerNotices(w)
      PROVE  KnownInv'
  <2>1. UNCHANGED <<events, chats, hubState, known, inbox, late, missed, result>>
    BY <1>3 DEF Subscribe, Deliver, Take, StoreError, Ack, Disconnect, ClientNotices,
       BrokerNotices, brokerVars, workerVars, storeVars, hubVars, history
  <2>2. \A v \in Workers : pc[v] = "broadcast" <=> pc'[v] = "broadcast"
    BY <1>2, <1>3 DEF Subscribe, Deliver, Take, StoreError, Ack, Disconnect, ClientNotices,
       BrokerNotices, workerVars
  <2> QED
    BY <1>1, <2>1, <2>2
<1>4. ASSUME NEW w \in Workers, BroadcastLost(w)
      PROVE  KnownInv'
  BY <1>2, <1>4, LostKnown DEF BroadcastLost, brokerVars, storeVars, hubVars
<1>5. ASSUME NEW w \in Workers, Crash(w)
      PROVE  KnownInv'
  <2>1. UNCHANGED <<events, chats, hubState, known, inbox, late>>
    BY <1>5 DEF Crash, storeVars, hubVars
  <2>2. /\ pc' = [pc EXCEPT ![w] = "off"] /\ result' = [result EXCEPT ![w] = NoResult]
        /\ missed' = IF pc[w] = "broadcast"
                     THEN [h \in Hubs |-> missed[h] \cup {Subject(result[w])}]
                     ELSE missed
    BY <1>5 DEF Crash
  <2>3. CASE pc[w] = "broadcast"
    BY <1>2, <2>1, <2>2, <2>3, LostKnown
  <2>4. CASE pc[w] # "broadcast"
    <3>1. \A v \in Workers : /\ pc[v] = "broadcast" => pc'[v] = "broadcast"
                             /\ pc'[v] = "broadcast" => /\ pc[v] = "broadcast"
                                                        /\ result'[v] = result[v]
      BY <1>2, <2>2, <2>4
    <3>2. \A e \in DOMAIN events' :
              events'[e].type # "newChat" => events'[e].chat \in 1..chats
      BY <2>1 DEF KnownInv, ChatsOK
    <3>3. missed' = missed
      BY <2>2, <2>4
    <3> QED
      BY <2>1, <3>1, <3>2, <3>3, QuietKnown
  <2> QED
    BY <2>3, <2>4
<1>6. CASE UNCHANGED vars
  BY <1>1, <1>6 DEF vars, brokerVars, workerVars, storeVars, hubVars, history
<1> HIDE DEF Quiet
<1> QED
  BY <1>3, <1>4, <1>5, <1>6, PostKnown, MessageKnown, newChatKnown, broadcastKnown, ReadKnown,
     RestartKnown DEF Next

\* With one worker a webapp that missed no announcement is told of a chat before
\* it reads anything about the chat's messages, whatever crashes or loses its
\* connection and whichever webapps restart meanwhile.
THEOREM ChatsAreKnown ==
    ASSUME Solo
    PROVE  Spec => []ChatKnownBeforeItsMessages
<1>1. KnownInv => ChatKnownBeforeItsMessages
  BY DEF KnownInv
<1> QED
  BY <1>1, InitTypeInv, StepTypeInv, InitKnown, StepKnown, PTL DEF Spec

=============================================================================
