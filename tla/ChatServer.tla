----------------------------- MODULE ChatServer -----------------------------
(***************************************************************************)
(* The way of a chat event through the system.  A webapp (a hub) publishes *)
(* it to the durable queue "chat_messages"; a consumer goroutine of a      *)
(* chat-server takes it, applies it to MongoDB, publishes the resulting    *)
(* message to the fanout exchange "chat_notifications" and acknowledges    *)
(* the delivery; every webapp reads the notification from its own          *)
(* exclusive, auto-acknowledged queue and hands it to its clients.         *)
(*                                                                         *)
(* A worker is one run of the goroutine `for d := range queueChan`         *)
(* (rabbitmq.go:77).  After a lost connection the reconnecting loop starts *)
(* a new goroutine while the old one still finishes the delivery it has in *)
(* hand: the old one is a worker that is no longer attached.  Several      *)
(* attached workers are several chat-server processes on one queue.        *)
(*                                                                         *)
(* A connection is lost in three steps that may come in any order after    *)
(* the first: it is cut, from which point on no byte of either side        *)
(* arrives; the client notices; the broker notices.  d.Ack and Publish     *)
(* only write, so between the cut and its notice a goroutine goes on with  *)
(* the deliveries it has, and none of its acks and messages arrive.  An    *)
(* ack written before the break that does not arrive is one written after  *)
(* the cut.                                                                *)
(*                                                                         *)
(* The content of a message is the number of the event that wrote it.      *)
(* Store calls appear with their effect on MongoDB; the Redis list they    *)
(* also touch belongs to MessageStore.                                     *)
(***************************************************************************)
EXTENDS Naturals, Sequences, FiniteSets

CONSTANTS
    Workers,       \* consumer goroutines of chat-server processes
    Hubs,          \* webapp processes
    Users,         \* users that hide or show messages
    MaxConsumers,  \* how many workers consume the queue at the same time
    MaxEvents,     \* bound: events published
    MaxFaults,     \* bound: faults of the environment
    Faults         \* the kinds of fault considered, a subset of FaultKinds

FaultKinds == {"crash", "disconnect", "store", "hub"}

ASSUME ConstantsAssumption ==
    /\ MaxConsumers \in Nat \ {0}
    /\ MaxEvents \in Nat
    /\ MaxFaults \in Nat
    /\ Faults \subseteq FaultKinds

VARIABLES
    events,       \* events[e]: the e-th event published to "chat_messages"
    ready,        \* events in the queue, waiting for a consumer
    redelivered,  \* events the broker has put back into the queue
    attached,     \* workers that range over an open queueChan
    connected,    \* attached workers whose connection still carries bytes
    held,         \* workers whose channel the broker still holds open
    unacked,      \* unacked[w]: deliveries the broker waits an ack for from w
    buffer,       \* buffer[w]: deliveries in w's queueChan
    pc,           \* pc[w]: off, idle, handle, broadcast, ack
    cur,          \* cur[w]: the event w has in hand
    result,       \* result[w]: the notification w is about to publish
    docs,         \* MongoDB collection "messages", in insertion order
    chats,        \* number of documents in the MongoDB collection "chats"
    hubState,     \* hubState[h]: down, loaded (no queue yet), bound, lost
    known,        \* known[h]: the keys of Hub.chats
    inbox,        \* inbox[h]: h's exclusive notification queue
    shown,        \* shown[h][m]: what h last told its clients about message m
    late,         \* late[h]: in hand of goroutines that outlived h's connection
    faults,       \* number of faults so far
    committed,    \* history: events whose effect has reached MongoDB
    dropped,      \* history: events acked after an error and without effect
    missed        \* history: missed[h], subjects whose latest change h never
                  \* got, or got after a later one

brokerVars == <<events, ready, redelivered, attached, connected, held, unacked,
                buffer>>
workerVars == <<pc, cur, result>>
storeVars  == <<docs, chats>>
hubVars    == <<hubState, known, inbox, shown, late>>
history    == <<committed, dropped, missed>>
vars == <<brokerVars, workerVars, storeVars, hubVars, faults, history>>

-----------------------------------------------------------------------------
(* Data.  A zero stands for a field the code leaves at its zero value.     *)

MessageTypes == {"new", "edit", "hide", "show", "delete"}
NoUser == "none"

\* ChatEvent with MessageEventDetails.
Event == [type : MessageTypes \cup {"newChat"}, chat : Nat, msg : Nat,
          user : Users \cup {NoUser}]

\* store.Message.
Doc == [origin : Nat, chat : Nat, content : Nat, hiddenFor : SUBSET Users,
        deleted : BOOLEAN]

\* ChatEvent whose details are the stored message, or the saved chat.
NoDoc == [origin |-> 0, chat |-> 0, content |-> 0, hiddenFor |-> {},
          deleted |-> FALSE]
Notification == [type : MessageTypes \cup {"newChat"}, chat : Nat, msg : Nat,
                 doc : Doc]
NoResult == [type |-> "newChat", chat |-> 0, msg |-> 0, doc |-> NoDoc]

\* What a notification is about.
Subject(n) == IF n.type = "newChat" THEN <<"chat", n.chat>> ELSE <<"msg", n.msg>>
Subjects == {"chat", "msg"} \X Nat

Init ==
    /\ events = <<>> /\ ready = {} /\ redelivered = {}
    /\ attached = {} /\ connected = {} /\ held = {}
    /\ unacked = [w \in Workers |-> {}]
    /\ buffer = [w \in Workers |-> <<>>]
    /\ pc = [w \in Workers |-> "off"]
    /\ cur = [w \in Workers |-> 0]
    /\ result = [w \in Workers |-> NoResult]
    /\ docs = <<>> /\ chats = 1
    /\ hubState = [h \in Hubs |-> "bound"]
    /\ known = [h \in Hubs |-> {1}]
    /\ inbox = [h \in Hubs |-> <<>>]
    /\ shown = [h \in Hubs |-> <<>>]
    /\ late = [h \in Hubs |-> {}]
    /\ faults = 0
    /\ committed = {} /\ dropped = {}
    /\ missed = [h \in Hubs |-> {}]

Fault(kind) == /\ kind \in Faults
               /\ faults < MaxFaults
               /\ faults' = faults + 1

-----------------------------------------------------------------------------
(* Webapp: publishing.  PublishEvent is what Chat.NewMessage and its       *)
(* siblings and Hub.AddChat do after the HTTP handler has looked the chat  *)
(* up.  After a lost connection the publisher is set up again before the   *)
(* consumer (rabbitmq.go:167-179), so a webapp without a queue may publish.*)

PublishEvent(h, evt) ==
    /\ Len(events) < MaxEvents
    /\ hubState[h] \in {"bound", "lost"}
    /\ events' = Append(events, evt)
    /\ ready' = ready \cup {Len(events) + 1}
    /\ UNCHANGED <<redelivered, attached, connected, held, unacked, buffer,
                   workerVars, storeVars, hubVars, faults, history>>

PostMessage(h) ==
    \E c \in known[h] :
        PublishEvent(h, [type |-> "new", chat |-> c, msg |-> 0, user |-> NoUser])

\* Edit and delete name no user; hide and show name the session's user.
PostChange(h) ==
    \E m \in DOMAIN docs :
        /\ docs[m].chat \in known[h]
        /\ \/ \E t \in {"edit", "delete"} :
                PublishEvent(h, [type |-> t, chat |-> docs[m].chat, msg |-> m,
                                 user |-> NoUser])
           \/ \E t \in {"hide", "show"}, u \in Users :
                PublishEvent(h, [type |-> t, chat |-> docs[m].chat, msg |-> m,
                                 user |-> u])

AddChat(h) ==
    PublishEvent(h, [type |-> "newChat", chat |-> 0, msg |-> 0, user |-> NoUser])

-----------------------------------------------------------------------------
(* Chat-server: consuming.                                                 *)

\* Consumer.setup: a new goroutine on a new channel.
Subscribe(w) ==
    /\ pc[w] = "off" /\ w \notin held
    /\ Cardinality(attached) < MaxConsumers
    /\ attached' = attached \cup {w}
    /\ connected' = connected \cup {w}
    /\ held' = held \cup {w}
    /\ pc' = [pc EXCEPT ![w] = "idle"]
    /\ UNCHANGED <<events, ready, redelivered, unacked, buffer, cur, result,
                   storeVars, hubVars, faults, history>>

\* The broker pushes the oldest message of the queue to a channel it takes for
\* open: no prefetch limit is set.
Deliver(w) ==
    \E e \in ready :
        /\ w \in held
        /\ \A f \in ready : e <= f
        /\ ready' = ready \ {e}
        /\ unacked' = [unacked EXCEPT ![w] = @ \cup {e}]
        /\ buffer' = IF w \in connected
                     THEN [buffer EXCEPT ![w] = Append(@, e)] ELSE buffer
        /\ UNCHANGED <<events, redelivered, attached, connected, held, workerVars,
                       storeVars, hubVars, faults, history>>

MutantTakeAutoAck(w) ==
    /\ pc[w] = "idle"
    /\ buffer[w] # <<>>
    /\ cur' = [cur EXCEPT ![w] = Head(buffer[w])]
    /\ buffer' = [buffer EXCEPT ![w] = Tail(@)]
    /\ unacked' = [unacked EXCEPT ![w] = @ \ {Head(buffer[w])}]
    /\ pc' = [pc EXCEPT ![w] = "handle"]
    /\ UNCHANGED <<events, ready, redelivered, attached, connected, held, result,
                   storeVars, hubVars, faults, history>>

MutantTakeTwice(w) ==
    /\ pc[w] = "idle"
    /\ buffer[w] # <<>>
    /\ cur' = [cur EXCEPT ![w] = Head(buffer[w])]
    /\ \/ buffer' = [buffer EXCEPT ![w] = Tail(@)]
       \/ UNCHANGED buffer
    /\ pc' = [pc EXCEPT ![w] = "handle"]
    /\ UNCHANGED <<events, ready, redelivered, attached, connected, held, unacked,
                   result, storeVars, hubVars, faults, history>>

MutantTakeConcurrently(w) ==
    /\ pc[w] = "idle"
    /\ \E i \in DOMAIN buffer[w] :
         /\ cur' = [cur EXCEPT ![w] = buffer[w][i]]
         /\ buffer' = [buffer EXCEPT ![w] =
                         SubSeq(@, 1, i - 1) \o SubSeq(@, i + 1, Len(@))]
    /\ pc' = [pc EXCEPT ![w] = "handle"]
    /\ UNCHANGED <<events, ready, redelivered, attached, connected, held, unacked,
                   result, storeVars, hubVars, faults, history>>

\* The goroutine ranges to the next delivery and calls handle.
Take(w) ==
    /\ pc[w] = "idle"
    /\ buffer[w] # <<>>
    /\ cur' = [cur EXCEPT ![w] = Head(buffer[w])]
    /\ buffer' = [buffer EXCEPT ![w] = Tail(@)]
    /\ pc' = [pc EXCEPT ![w] = "handle"]
    /\ UNCHANGED <<events, ready, redelivered, attached, connected, held, unacked,
                   result, storeVars, hubVars, faults, history>>

-----------------------------------------------------------------------------
(* Chat-server: the handlers.  Each ends with the notification to publish, *)
(* or with an error, after which handle acks and publishes nothing.        *)

Handling(w, t) == pc[w] = "handle" /\ events[cur[w]].type = t

\* MongoDB has carried out the store call.  The handler returns n and handle
\* goes on to broadcast it; or the call fails all the same, because its reply is
\* lost or what comes after the write fails (GetUserById for the author of an
\* updated message), and handle publishes nothing.
Return(w, n) ==
    /\ committed' = committed \cup {cur[w]}
    /\ \/ /\ result' = [result EXCEPT ![w] = n]
          /\ pc' = [pc EXCEPT ![w] = "broadcast"]
          /\ UNCHANGED <<faults, missed>>
       \/ /\ Fault("store")
          /\ pc' = [pc EXCEPT ![w] = "ack"]
          /\ missed' = [h \in Hubs |-> missed[h] \cup {Subject(n)}]
          /\ UNCHANGED result

MutantNewMessageUnannounced(w) ==
    /\ Handling(w, "new")
    /\ docs' = Append(docs, [origin |-> cur[w], chat |-> events[cur[w]].chat,
                             content |-> cur[w], hiddenFor |-> {}, deleted |-> FALSE])
    /\ pc' = [pc EXCEPT ![w] = "ack"]
    /\ committed' = committed \cup {cur[w]}
    /\ UNCHANGED <<brokerVars, cur, result, chats, hubVars, faults, dropped, missed>>

newMessage(w) ==
    /\ Handling(w, "new")
    /\ LET evt == events[cur[w]]
           d == [origin |-> cur[w], chat |-> evt.chat, content |-> cur[w],
                 hiddenFor |-> {}, deleted |-> FALSE]
       IN  /\ docs' = Append(docs, d)
           /\ Return(w, [type |-> "new", chat |-> evt.chat,
                         msg |-> Len(docs) + 1, doc |-> d])
    /\ UNCHANGED <<brokerVars, cur, chats, hubVars, dropped>>

MutantFindOneAndUpdateBefore(w, d) ==
    LET evt == events[cur[w]] IN
    /\ docs' = [docs EXCEPT ![evt.msg] = d]
    /\ Return(w, [type |-> evt.type, chat |-> evt.chat, msg |-> evt.msg,
                  doc |-> docs[evt.msg]])
    /\ UNCHANGED <<brokerVars, cur, chats, hubVars, dropped>>

\* FindOneAndUpdate returns the document after the update.
FindOneAndUpdate(w, d) ==
    LET evt == events[cur[w]] IN
    /\ docs' = [docs EXCEPT ![evt.msg] = d]
    /\ Return(w, [type |-> evt.type, chat |-> evt.chat, msg |-> evt.msg, doc |-> d])
    /\ UNCHANGED <<brokerVars, cur, chats, hubVars, dropped>>

editMessage(w) ==
    /\ Handling(w, "edit")
    /\ LET d == docs[events[cur[w]].msg]
       IN  FindOneAndUpdate(w, [d EXCEPT !.content = cur[w]])

\* $addToSet or $pull on hiddenFor.
hideMessage(w) ==
    LET evt == events[cur[w]]
        d == docs[evt.msg]
    IN  \/ /\ Handling(w, "hide")
           /\ FindOneAndUpdate(w, [d EXCEPT !.hiddenFor = @ \cup {evt.user}])
        \/ /\ Handling(w, "show")
           /\ FindOneAndUpdate(w, [d EXCEPT !.hiddenFor = @ \ {evt.user}])

deleteMessage(w) ==
    /\ Handling(w, "delete")
    /\ LET d == docs[events[cur[w]].msg]
       IN  FindOneAndUpdate(w, [d EXCEPT !.deleted = TRUE])

\* SaveChat always inserts, with a fresh id.
newChat(w) ==
    /\ Handling(w, "newChat")
    /\ chats' = chats + 1
    /\ Return(w, [type |-> "newChat", chat |-> chats + 1, msg |-> 0, doc |-> NoDoc])
    /\ UNCHANGED <<brokerVars, cur, docs, hubVars, dropped>>

MutantStoreErrorEndsLoop(w) ==
    /\ pc[w] = "handle"
    /\ Fault("store")
    /\ dropped' = dropped \cup {cur[w]}
    /\ pc' = [pc EXCEPT ![w] = "stopped"]
    /\ UNCHANGED <<brokerVars, cur, result, storeVars, hubVars, committed, missed>>

\* The store call fails and has changed nothing.
StoreError(w) ==
    /\ pc[w] = "handle"
    /\ Fault("store")
    /\ dropped' = dropped \cup {cur[w]}
    /\ pc' = [pc EXCEPT ![w] = "ack"]
    /\ UNCHANGED <<brokerVars, cur, result, storeVars, hubVars, committed, missed>>

MutantBroadcastDirect(w) ==
    /\ pc[w] = "broadcast"
    /\ pc' = [pc EXCEPT ![w] = "ack"]
    /\ \E g \in Hubs : inbox' = [inbox EXCEPT ![g] = Append(@, result[w])]
    /\ missed' = [h \in Hubs |-> missed[h] \ {Subject(result[w])}]
    /\ result' = [result EXCEPT ![w] = NoResult]
    /\ UNCHANGED <<brokerVars, cur, storeVars, hubState, known, shown, late, faults,
                   committed, dropped>>

\* The fanout exchange copies the notification to every bound queue.
broadcast(w) ==
    /\ pc[w] = "broadcast"
    /\ pc' = [pc EXCEPT ![w] = "ack"]
    /\ inbox' = [h \in Hubs |-> IF hubState[h] = "bound"
                                THEN Append(inbox[h], result[w]) ELSE inbox[h]]
    /\ missed' = [h \in Hubs |-> IF hubState[h] = "bound"
                                 THEN missed[h] \ {Subject(result[w])}
                                 ELSE missed[h] \cup {Subject(result[w])}]
    /\ result' = [result EXCEPT ![w] = NoResult]
    /\ UNCHANGED <<brokerVars, cur, storeVars, hubState, known, shown, late, faults,
                   committed, dropped>>

\* The notification is written to a connection that is cut, or to a publisher
\* whose own channel has been closed; handle acks all the same.
BroadcastLost(w) ==
    /\ pc[w] = "broadcast"
    /\ \/ w \notin connected /\ UNCHANGED faults
       \/ w \in connected /\ Fault("disconnect")
    /\ pc' = [pc EXCEPT ![w] = "ack"]
    /\ missed' = [h \in Hubs |-> missed[h] \cup {Subject(result[w])}]
    /\ result' = [result EXCEPT ![w] = NoResult]
    /\ UNCHANGED <<brokerVars, cur, storeVars, hubVars, committed, dropped>>

\* An ack that does not arrive is an error nobody reads.  The range over a
\* closed queueChan ends.
Ack(w) ==
    /\ pc[w] = "ack"
    /\ unacked' = IF w \in connected
                  THEN [unacked EXCEPT ![w] = @ \ {cur[w]}] ELSE unacked
    /\ pc' = [pc EXCEPT ![w] = IF w \in attached THEN "idle" ELSE "off"]
    /\ cur' = [cur EXCEPT ![w] = 0]
    /\ UNCHANGED <<events, ready, redelivered, attached, connected, held, buffer,
                   result, storeVars, hubVars, faults, history>>

-----------------------------------------------------------------------------
(* Faults of chat-servers.                                                 *)

\* w's connection is cut: nothing either side writes from here on arrives.
Disconnect(w) ==
    /\ w \in connected
    /\ Fault("disconnect")
    /\ connected' = connected \ {w}
    /\ UNCHANGED <<events, ready, redelivered, attached, held, unacked, buffer,
                   workerVars, storeVars, hubVars, history>>

\* The client library closes the channel and drops the deliveries it has
\* buffered; what w has in hand it goes on with.
ClientNotices(w) ==
    /\ w \in attached \ connected
    /\ attached' = attached \ {w}
    /\ buffer' = [buffer EXCEPT ![w] = <<>>]
    /\ pc' = [pc EXCEPT ![w] = IF @ = "idle" THEN "off" ELSE @]
    /\ UNCHANGED <<events, ready, redelivered, connected, held, unacked, cur, result,
                   storeVars, hubVars, faults, history>>

\* The broker closes the channel and puts back in place every delivery it has
\* no ack for.
BrokerNotices(w) ==
    /\ w \in held \ connected
    /\ held' = held \ {w}
    /\ ready' = ready \cup unacked[w]
    /\ redelivered' = redelivered \cup unacked[w]
    /\ unacked' = [unacked EXCEPT ![w] = {}]
    /\ UNCHANGED <<events, attached, connected, buffer, workerVars, storeVars,
                   hubVars, faults, history>>

\* The process ends; a result that was not published is lost.
Crash(w) ==
    /\ pc[w] # "off"
    /\ Fault("crash")
    /\ attached' = attached \ {w}
    /\ connected' = connected \ {w}
    /\ buffer' = [buffer EXCEPT ![w] = <<>>]
    /\ pc' = [pc EXCEPT ![w] = "off"]
    /\ cur' = [cur EXCEPT ![w] = 0]
    /\ result' = [result EXCEPT ![w] = NoResult]
    /\ missed' = IF pc[w] = "broadcast"
                 THEN [h \in Hubs |-> missed[h] \cup {Subject(result[w])}]
                 ELSE missed
    /\ UNCHANGED <<events, ready, redelivered, held, unacked, storeVars, hubVars,
                   committed, dropped>>

-----------------------------------------------------------------------------
(* Webapp: notifications and restarts.                                     *)

\* A new chat is added to the hub; a message goes to the chat's clients, and
\* is ignored when the hub does not know the chat.
Apply(h, n) ==
    IF n.type = "newChat"
    THEN /\ known' = [known EXCEPT ![h] = @ \cup {n.chat}]
         /\ UNCHANGED shown
    ELSE /\ shown' = IF n.chat \in known[h]
                     THEN [shown EXCEPT ![h] = [m \in DOMAIN @ \cup {n.msg} |->
                                                  IF m = n.msg THEN n.doc ELSE @[m]]]
                     ELSE shown
         /\ UNCHANGED known

processRabbitmqMessage(h) ==
    /\ inbox[h] # <<>>
    /\ inbox' = [inbox EXCEPT ![h] = Tail(@)]
    /\ Apply(h, Head(inbox[h]))
    /\ UNCHANGED <<brokerVars, workerVars, storeVars, hubState, late, faults, history>>

\* A goroutine that outlived its connection finishes, beside the one that
\* reads the new queue.
LateNotification(h) ==
    \E l \in late[h] :
        /\ late' = [late EXCEPT ![h] = @ \ {l}]
        /\ Apply(h, l[2])
        /\ missed' = [missed EXCEPT ![h] = @ \cup {Subject(l[2])}]
        /\ UNCHANGED <<brokerVars, workerVars, storeVars, hubState, inbox, faults,
                       committed, dropped>>

InboxSubjects(h) == {Subject(inbox[h][i]) : i \in DOMAIN inbox[h]}

\* The exclusive queue dies with the hub's connection; the goroutine may have
\* its first notification in hand.  The number tells the goroutines apart.
HubDisconnect(h) ==
    /\ hubState[h] = "bound"
    /\ Fault("hub")
    /\ hubState' = [hubState EXCEPT ![h] = "lost"]
    /\ inbox' = [inbox EXCEPT ![h] = <<>>]
    /\ \/ UNCHANGED late
       \/ /\ inbox[h] # <<>>
          /\ late' = [late EXCEPT ![h] = @ \cup {<<faults, Head(inbox[h])>>}]
    /\ missed' = [missed EXCEPT ![h] = @ \cup InboxSubjects(h)]
    /\ UNCHANGED <<brokerVars, workerVars, storeVars, known, shown, committed, dropped>>

\* The pages of the hub's clients end with it.
HubCrash(h) ==
    /\ hubState[h] # "down"
    /\ Fault("hub")
    /\ hubState' = [hubState EXCEPT ![h] = "down"]
    /\ inbox' = [inbox EXCEPT ![h] = <<>>]
    /\ known' = [known EXCEPT ![h] = {}]
    /\ shown' = [shown EXCEPT ![h] = <<>>]
    /\ late' = [late EXCEPT ![h] = {}]
    /\ missed' = [missed EXCEPT ![h] = {<<"msg", m>> : m \in DOMAIN docs}]
    /\ UNCHANGED <<brokerVars, workerVars, storeVars, committed, dropped>>

\* NewHub reads the chats before Start declares the notification queue, and
\* goes on without any chat when GetChats fails.
LoadChatsFromStore(h) ==
    /\ hubState[h] = "down"
    /\ hubState' = [hubState EXCEPT ![h] = "loaded"]
    /\ \/ /\ known' = [known EXCEPT ![h] = 1..chats]
          /\ UNCHANGED <<faults, missed>>
       \/ /\ Fault("store")
          /\ missed' = [missed EXCEPT ![h] = @ \cup {<<"chat", c>> : c \in 1..chats}]
          /\ UNCHANGED known
    /\ UNCHANGED <<brokerVars, workerVars, storeVars, inbox, shown, late, committed,
                   dropped>>

BindQueue(h) ==
    /\ hubState[h] \in {"loaded", "lost"}
    /\ hubState' = [hubState EXCEPT ![h] = "bound"]
    /\ UNCHANGED <<brokerVars, workerVars, storeVars, known, inbox, shown, late, faults,
                   history>>

-----------------------------------------------------------------------------
Handler(w) == \/ newMessage(w) \/ editMessage(w) \/ hideMessage(w)
              \/ deleteMessage(w) \/ newChat(w)

WorkerStep(w) == Take(w) \/ Handler(w) \/ broadcast(w) \/ BroadcastLost(w) \/ Ack(w)

Next ==
    \/ \E h \in Hubs : PostMessage(h) \/ PostChange(h) \/ AddChat(h)
    \/ \E w \in Workers : Subscribe(w) \/ Deliver(w)
    \/ \E w \in Workers : Take(w)
    \/ \E w \in Workers : newMessage(w)
    \/ \E w \in Workers : editMessage(w)
    \/ \E w \in Workers : hideMessage(w)
    \/ \E w \in Workers : deleteMessage(w)
    \/ \E w \in Workers : newChat(w)
    \/ \E w \in Workers : StoreError(w)
    \/ \E w \in Workers : broadcast(w) \/ BroadcastLost(w)
    \/ \E w \in Workers : Ack(w)
    \/ \E w \in Workers : Disconnect(w) \/ ClientNotices(w) \/ BrokerNotices(w)
    \/ \E w \in Workers : Crash(w)
    \/ \E h \in Hubs : processRabbitmqMessage(h) \/ LateNotification(h)
    \/ \E h \in Hubs : HubDisconnect(h) \/ HubCrash(h)
    \/ \E h \in Hubs : LoadChatsFromStore(h) \/ BindQueue(h)

Spec == Init /\ [][Next]_vars

\* A subscribed goroutine keeps running and the broker keeps delivering; either
\* side notices in the end that a connection is cut (heartbeats); a chat-server
\* whose connection or process ended comes back (the reconnecting loop, an
\* operator).  Faults, users and hub restarts owe nothing.
Fairness ==
    /\ \A w \in Workers : /\ WF_vars(Subscribe(w))
                          /\ WF_vars(Deliver(w))
                          /\ WF_vars(WorkerStep(w))
                          /\ WF_vars(ClientNotices(w))
                          /\ WF_vars(BrokerNotices(w))
    /\ \A h \in Hubs : WF_vars(processRabbitmqMessage(h))

FairSpec == Spec /\ Fairness

-----------------------------------------------------------------------------
(* Properties.                                                             *)

BrokerOK ==
    /\ events \in Seq(Event)
    /\ ready \subseteq Nat /\ redelivered \subseteq Nat
    /\ connected \subseteq attached /\ attached \subseteq Workers
    /\ held \subseteq Workers
    /\ unacked \in [Workers -> SUBSET Nat]
    /\ buffer \in [Workers -> Seq(Nat)]

WorkersOK ==
    /\ pc \in [Workers -> {"off", "idle", "handle", "broadcast", "ack"}]
    /\ cur \in [Workers -> Nat]
    /\ result \in [Workers -> Notification]

StoreOK == docs \in Seq(Doc) /\ chats \in Nat

HubsOK ==
    /\ hubState \in [Hubs -> {"down", "loaded", "bound", "lost"}]
    /\ known \in [Hubs -> SUBSET Nat]
    /\ inbox \in [Hubs -> Seq(Notification)]
    /\ shown = [h \in Hubs |-> shown[h]]
    /\ \A h \in Hubs : /\ DOMAIN shown[h] \subseteq Nat
                       /\ shown[h] \in [DOMAIN shown[h] -> Doc]
    /\ late \in [Hubs -> SUBSET (Nat \X Notification)]

HistoryOK ==
    /\ faults \in Nat
    /\ committed \subseteq Nat /\ dropped \subseteq Nat
    /\ missed \in [Hubs -> SUBSET Subjects]

\* Every variable has its type.
TypeOK == BrokerOK /\ WorkersOK /\ StoreOK /\ HubsOK /\ HistoryOK

\* An event accepted into the queue stays there until MongoDB has its effect or
\* its handler has failed, whatever crashes or loses its connection: handle
\* acks after the store call (main.go:83), never before.
NothingLost ==
    \A e \in DOMAIN events :
        \/ e \in ready \cup committed \cup dropped
        \/ \E w \in Workers : e \in unacked[w]

\* One posted message is stored as two only if the broker had to redeliver it:
\* newMessage inserts with a fresh id each time it is handed the event.
SavedOnceUnlessRedelivered ==
    \A m, n \in DOMAIN docs :
        m # n /\ docs[m].origin = docs[n].origin => docs[m].origin \in redelivered

\* With one consumer on the queue, an event that an attached worker finishes
\* handling the first time it was given out is never older than what is already
\* in MongoDB, so that the last edit posted is the one that stays.  What comes
\* late is a redelivered event, or a goroutine that outlived its channel.
InOrderUnlessRedelivered ==
    [][\A w \in attached :
          pc[w] = "handle" /\ pc'[w] \notin {"handle", "off"} /\ cur[w] \notin redelivered
              => \A e \in committed : e <= cur[w]]_vars

About(h, m) == {i \in DOMAIN inbox[h] : Subject(inbox[h][i]) = <<"msg", m>>}

LatestSnapshot(h, m) ==
    IF About(h, m) # {}
    THEN inbox[h][CHOOSE i \in About(h, m) : \A j \in About(h, m) : j <= i].doc
    ELSE shown[h][m]

Unpublished(s) == \E w \in Workers : pc[w] = "broadcast" /\ Subject(result[w]) = s

\* What a webapp last told its clients about a message, or is about to tell
\* them, is the message as MongoDB holds it, unless a worker still has to
\* publish the change, or the webapp never got it or got it after a later one
\* (one consumer, no chat-server goroutine left over from a lost connection).
ShownIsCurrent ==
    \A h \in Hubs : \A m \in DOMAIN docs :
        /\ About(h, m) # {} \/ m \in DOMAIN shown[h]
        /\ <<"msg", m>> \notin missed[h]
        /\ ~ Unpublished(<<"msg", m>>)
        => LatestSnapshot(h, m) = docs[m]

\* A webapp that got every announcement of a chat knows the chat by the time it
\* reads a notification about a message of it, and so never ignores one
\* (chat.go:471), whichever webapp the message was posted on.  A webapp that
\* could not read the chats when it started has missed them all.
ChatKnownBeforeItsMessages ==
    \A h \in Hubs : \A i \in DOMAIN inbox[h] :
        LET n == inbox[h][i] IN
        n.type # "newChat" /\ <<"chat", n.chat>> \notin missed[h]
            => \/ n.chat \in known[h]
               \/ \E j \in 1..(i - 1) :
                     inbox[h][j].type = "newChat" /\ inbox[h][j].chat = n.chat

\* Every event published is handled in the end: stored, or given up on.
EveryEventHandled ==
    \A e \in 1..MaxEvents : e \in DOMAIN events ~> e \in committed \cup dropped

\* Every fault has each event stored once more at most.
Messages == 1..(MaxEvents * (MaxFaults + 1))

ShownOrMissed(m) ==
    /\ m \in DOMAIN docs
    /\ \A h \in Hubs : \/ m \in DOMAIN shown[h]
                       \/ <<"msg", m>> \in missed[h]
                       \/ <<"chat", docs[m].chat>> \in missed[h]

\* A message that was stored reaches the clients of every webapp in the end,
\* unless its notification was lost with a process, a connection or a reply of
\* MongoDB, or the webapp missed the chat.
StoredIsShown ==
    \A m \in Messages : m \in DOMAIN docs ~> ShownOrMissed(m)

-----------------------------------------------------------------------------
(* The promise of EventDelivery, whoever works on the queue.               *)

Unsettled == ready \cup UNION {unacked[w] : w \in Workers}

Delivery == INSTANCE EventDelivery WITH
    published <- Len(events),
    open <- Unsettled,
    repeated <- redelivered,
    applied <- committed,
    failed <- dropped,
    inserted <- [m \in DOMAIN docs |-> docs[m].origin]

\* Chat-servers and the queue deliver every event at least once, and more than
\* once only after a redelivery: a step of a worker, of the broker or of a
\* fault is a step of EventDelivery or changes nothing there.
ImplementsDelivery == Delivery!Spec
=============================================================================
