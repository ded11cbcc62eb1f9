-------------------------- MODULE ChatDeliveryProofs --------------------------
(***************************************************************************)
(* ChatServer implements EventDelivery, for any number of chat-servers,    *)
(* webapps, events and faults.  The argument is about who holds an event:  *)
(* unless the broker has given it out again, one queue, one buffer or one  *)
(* worker does, and none of them once it is stored as a message.  Then     *)
(* what holds with one consumer (events given out once are handled in the  *)
(* order of their publication) and with one worker (webapps show what is   *)
(* stored).                                                                *)
(***************************************************************************)
EXTENDS ChatServerProofs, FiniteSetTheorems

AtWork(w) == pc[w] \notin {"off", "idle"}

Buffered(w) == {buffer[w][i] : i \in DOMAIN buffer[w]}

\* The broker has each event in the queue or with one channel.
OneHolder ==
    /\ \A w \in Workers : ready \cap unacked[w] = {}
    /\ \A v, w \in Workers : v # w => unacked[v] \cap unacked[w] = {}

\* What the broker has given w, for all w knows: it waits for the ack, or it has
\* taken the delivery back.
Given(w) == IF w \in held THEN unacked[w] ELSE redelivered

\* A channel buffers what was given to it, each delivery once.
BufferIsGiven ==
    /\ connected \subseteq held
    /\ \A w \in Workers :
        /\ Buffered(w) \subseteq Given(w)
        /\ \A i, j \in DOMAIN buffer[w] : i # j => buffer[w][i] # buffer[w][j]
        /\ w \notin held => unacked[w] = {}
        /\ w \notin attached => Buffered(w) = {}
        /\ pc[w] = "off" => w \notin attached

\* A worker works on a delivery of its own channel, or on one that the broker
\* took back when the channel went.
InHandIsHeld ==
    \A w \in Workers : AtWork(w) =>
        /\ cur[w] \in Given(w)
        /\ w \in held => cur[w] \notin Buffered(w)

\* Somebody may still store e: it is queued, buffered or being handled.
Pending(e) ==
    \/ e \in ready
    \/ \E w \in Workers : e \in Buffered(w)
    \/ \E w \in Workers : pc[w] = "handle" /\ cur[w] = e

\* An event that is stored and was given out once is not stored again.
StoredIsNotPending ==
    \A m \in DOMAIN docs :
        /\ docs[m].origin \in DOMAIN events
        /\ docs[m].origin \in redelivered \/ ~ Pending(docs[m].origin)

DeliveryInv ==
    /\ OneHolder /\ BufferIsGiven /\ InHandIsHeld /\ StoredIsNotPending
    /\ SavedOnceUnlessRedelivered

LEMMA InitDelivery == Init => DeliveryInv
BY DEF Init, DeliveryInv, OneHolder, BufferIsGiven, InHandIsHeld, StoredIsNotPending,
   SavedOnceUnlessRedelivered, AtWork, Buffered, Given

-----------------------------------------------------------------------------
(* Steps that keep the invariant.                                          *)

\* Publishing adds an event nobody holds and no message comes from.
LEMMA PublishDelivery ==
    ASSUME TypeInv, DeliveryInv, NEW h \in Hubs, NEW evt, PublishEvent(h, evt)
    PROVE  DeliveryInv'
<1> DEFINE e == Len(events) + 1
<1>1. /\ events \in Seq(Event)
      /\ events' = Append(events, evt)
      /\ ready' = ready \cup {e}
      /\ UNCHANGED <<redelivered, attached, connected, held, unacked, buffer, pc, cur,
                     docs>>
  BY DEF PublishEvent, workerVars, storeVars, TypeInv, TypeOK, BrokerOK
<1>2. e \in Nat /\ e \notin DOMAIN events /\ DOMAIN events' = DOMAIN events \cup {e}
  BY <1>1
<1>3. OneHolder'
  BY <1>1, <1>2 DEF DeliveryInv, OneHolder, TypeInv, DeliveriesOK
<1>6. \A w \in Workers : /\ (Given(w))' = Given(w) /\ (Buffered(w))' = Buffered(w)
                         /\ (AtWork(w))' <=> AtWork(w)
  BY <1>1 DEF Given, Buffered, AtWork
<1>4. BufferIsGiven' /\ InHandIsHeld' /\ SavedOnceUnlessRedelivered'
  BY <1>1, <1>6 DEF DeliveryInv, BufferIsGiven, InHandIsHeld, SavedOnceUnlessRedelivered
<1>5. StoredIsNotPending'
  <2> HIDE DEF e
  <2> QED
    BY <1>1, <1>2 DEF DeliveryInv, StoredIsNotPending, Pending, Buffered
<1> QED
  BY <1>3, <1>4, <1>5 DEF DeliveryInv

SameOrigins ==
    /\ DOMAIN docs' = DOMAIN docs
    /\ \A m \in DOMAIN docs : docs'[m].origin = docs[m].origin

\* A step of one worker that touches no delivery and inserts no message, and
\* does not go (back) to a handler.
LEMMA WorkerMovesOn ==
    ASSUME TypeInv, DeliveryInv, NEW w \in Workers, NEW p \in {"broadcast", "ack"}, AtWork(w),
           pc' = [pc EXCEPT ![w] = p], UNCHANGED <<brokerVars, cur>>, SameOrigins
    PROVE  DeliveryInv'
<1>1. /\ pc \in [Workers -> {"off", "idle", "handle", "broadcast", "ack"}]
      /\ UNCHANGED <<events, ready, redelivered, attached, connected, held, unacked, buffer>>
  BY DEF TypeInv, TypeOK, WorkersOK, brokerVars
<1>2. OneHolder' /\ SavedOnceUnlessRedelivered'
  BY <1>1 DEF DeliveryInv, OneHolder, SavedOnceUnlessRedelivered, SameOrigins
<1>8. BufferIsGiven'
  <2>1. \A v \in Workers : pc'[v] = "off" => pc[v] = "off"
    BY <1>1
  <2> QED
    BY <1>1, <2>1 DEF DeliveryInv, BufferIsGiven, Buffered, Given
<1>3. \A v \in Workers : (AtWork(v))' => AtWork(v)
  BY <1>1 DEF AtWork
<1>4. InHandIsHeld'
  BY <1>1, <1>3 DEF DeliveryInv, InHandIsHeld, Buffered, Given
<1>5. \A v \in Workers : pc'[v] = "handle" => pc[v] = "handle"
  BY <1>1
<1>6. \A f : (Pending(f))' => Pending(f)
  BY <1>1, <1>5 DEF Pending, Buffered
<1>7. StoredIsNotPending'
  BY <1>1, <1>6 DEF DeliveryInv, StoredIsNotPending, SameOrigins
<1> QED
  BY <1>2, <1>4, <1>7, <1>8 DEF DeliveryInv

\* The event in hand is in no buffer and in nobody else's hand, unless it was
\* given out again.
LEMMA InHandIsAlone ==
    ASSUME TypeInv, DeliveryInv, NEW w \in Workers, AtWork(w), cur[w] \notin redelivered
    PROVE  /\ w \in held /\ cur[w] \in unacked[w]
           /\ cur[w] \notin ready
           /\ \A v \in Workers : cur[w] \notin Buffered(v)
           /\ \A v \in Workers : v # w /\ AtWork(v) => cur[v] # cur[w]
BY DEF DeliveryInv, InHandIsHeld, OneHolder, BufferIsGiven, Given

LEMMA newMessageDelivery ==
    ASSUME TypeInv, DeliveryInv, NEW w \in Workers, newMessage(w)
    PROVE  DeliveryInv'
<1> DEFINE d == [origin |-> cur[w], chat |-> events[cur[w]].chat, content |-> cur[w],
                 hiddenFor |-> {}, deleted |-> FALSE]
<1>1. /\ pc[w] = "handle" /\ AtWork(w)
      /\ docs' = Append(docs, d)
      /\ \E p \in {"broadcast", "ack"} : pc' = [pc EXCEPT ![w] = p]
      /\ UNCHANGED <<brokerVars, cur>>
  BY Zenon DEF newMessage, Handling, Return, AtWork
<1>2. /\ pc \in [Workers -> {"off", "idle", "handle", "broadcast", "ack"}]
      /\ docs \in Seq(Doc) /\ cur[w] \in DOMAIN events
  BY <1>1, InHandEvent DEF TypeInv, TypeOK, WorkersOK, StoreOK, AtWork
<1>3. /\ DOMAIN docs' = DOMAIN docs \cup {Len(docs) + 1}
      /\ \A m \in DOMAIN docs : docs'[m] = docs[m]
      /\ docs'[Len(docs) + 1].origin = cur[w]
  <2>1. d.origin = cur[w]
    OBVIOUS
  <2> HIDE DEF d
  <2> QED
    BY <1>1, <1>2, <2>1
<1>4. OneHolder' /\ BufferIsGiven' /\ InHandIsHeld'
  <2>1. \A v \in Workers : /\ pc'[v] = "off" => pc[v] = "off"
                           /\ (AtWork(v))' => AtWork(v)
    BY <1>1, <1>2 DEF AtWork
  <2> QED
    BY <1>1, <2>1 DEF DeliveryInv, OneHolder, BufferIsGiven, InHandIsHeld, Buffered, Given,
       brokerVars
<1>6. \A f : (Pending(f))' => Pending(f)
  BY <1>1, <1>2 DEF Pending, Buffered, brokerVars
<1>7. cur[w] \in redelivered \/ ~ (Pending(cur[w]))'
  <2> SUFFICES ASSUME cur[w] \notin redelivered
               PROVE  ~ (Pending(cur[w]))'
    OBVIOUS
  <2>1. /\ cur[w] \notin ready
        /\ \A v \in Workers : cur[w] \notin Buffered(v)
        /\ \A v \in Workers : v # w /\ AtWork(v) => cur[v] # cur[w]
    BY <1>1, InHandIsAlone
  <2>2. pc'[w] # "handle" /\ \A v \in Workers : v # w => pc'[v] = pc[v]
    BY <1>1, <1>2
  <2> QED
    BY <1>1, <2>1, <2>2 DEF Pending, Buffered, AtWork, brokerVars
<1>8. StoredIsNotPending'
  BY <1>1, <1>2, <1>3, <1>6, <1>7 DEF DeliveryInv, StoredIsNotPending, brokerVars
<1>9. \A m \in DOMAIN docs : docs[m].origin = cur[w] => cur[w] \in redelivered
  BY <1>1 DEF DeliveryInv, StoredIsNotPending, Pending
<1>10. SavedOnceUnlessRedelivered'
  BY <1>1, <1>3, <1>9 DEF DeliveryInv, SavedOnceUnlessRedelivered, brokerVars
<1> QED
  BY <1>4, <1>8, <1>10 DEF DeliveryInv

\* An update keeps every message's origin.
LEMMA UpdateKeepsOrigins ==
    ASSUME TypeInv, NEW w \in Workers, pc[w] = "handle", events[cur[w]].type \in Changes,
           NEW d, FindOneAndUpdate(w, d), d.origin = docs[events[cur[w]].msg].origin
    PROVE  SameOrigins
<1>1. docs' = [docs EXCEPT ![events[cur[w]].msg] = d]
  BY DEF FindOneAndUpdate
<1>2. docs \in Seq(Doc)
  BY DEF TypeInv, TypeOK, StoreOK
<1> QED
  BY <1>1, <1>2 DEF SameOrigins

LEMMA ChangeKeepsOrigins ==
    ASSUME TypeInv, NEW w \in Workers, editMessage(w) \/ hideMessage(w) \/ deleteMessage(w)
    PROVE  /\ pc[w] = "handle"
           /\ SameOrigins
           /\ \E d : FindOneAndUpdate(w, d)
<1> DEFINE evt == events[cur[w]]
           old == docs[evt.msg]
<1>1. pc[w] = "handle" /\ evt.type \in Changes
  BY DEF editMessage, hideMessage, deleteMessage, Handling, Changes
<1>2. old \in Doc
  BY <1>1, InHandEvent DEF TypeInv, TypeOK, StoreOK, EventRefsOK
<1>3. PICK d : FindOneAndUpdate(w, d) /\ d.origin = old.origin
  <2> DEFINE edited == [old EXCEPT !.content = cur[w]]
             hidden == [old EXCEPT !.hiddenFor = @ \cup {evt.user}]
             shows == [old EXCEPT !.hiddenFor = @ \ {evt.user}]
             gone == [old EXCEPT !.deleted = TRUE]
  <2>1. /\ edited.origin = old.origin /\ hidden.origin = old.origin
        /\ shows.origin = old.origin /\ gone.origin = old.origin
    BY <1>2 DEF Doc
  <2>2. \/ FindOneAndUpdate(w, edited) \/ FindOneAndUpdate(w, hidden)
        \/ FindOneAndUpdate(w, shows) \/ FindOneAndUpdate(w, gone)
    BY Zenon DEF editMessage, hideMessage, deleteMessage
  <2> HIDE DEF edited, hidden, shows, gone
  <2> QED
    BY <2>1, <2>2
<1> QED
  BY <1>1, <1>3, UpdateKeepsOrigins

LEMMA HandledDelivery ==
    ASSUME TypeInv, DeliveryInv, NEW w \in Workers,
           \/ editMessage(w) \/ hideMessage(w) \/ deleteMessage(w) \/ newChat(w)
           \/ StoreError(w) \/ broadcast(w) \/ BroadcastLost(w)
    PROVE  DeliveryInv'
<1>1. CASE editMessage(w) \/ hideMessage(w) \/ deleteMessage(w)
  <2>1. AtWork(w) /\ SameOrigins
    BY <1>1, ChangeKeepsOrigins DEF AtWork
  <2>2. /\ \E p \in {"broadcast", "ack"} : pc' = [pc EXCEPT ![w] = p]
        /\ UNCHANGED <<brokerVars, cur>>
    BY <1>1, ChangeKeepsOrigins DEF FindOneAndUpdate, Return
  <2> QED
    BY <2>1, <2>2, WorkerMovesOn
<1>2. CASE newChat(w) \/ StoreError(w) \/ broadcast(w) \/ BroadcastLost(w)
  <2>1. /\ AtWork(w)
        /\ \E p \in {"broadcast", "ack"} : pc' = [pc EXCEPT ![w] = p]
        /\ UNCHANGED <<brokerVars, cur, docs>>
    BY <1>2, Zenon DEF newChat, StoreError, broadcast, BroadcastLost, Handling, Return,
       AtWork, storeVars
  <2> QED
    BY <2>1, WorkerMovesOn DEF SameOrigins
<1> QED
  BY <1>1, <1>2

LEMMA SubscribeDelivery ==
    ASSUME TypeInv, DeliveryInv, NEW w \in Workers, Subscribe(w)
    PROVE  DeliveryInv'
<1>1. /\ pc[w] = "off" /\ w \notin held
      /\ attached' = attached \cup {w}
      /\ connected' = connected \cup {w} /\ held' = held \cup {w}
      /\ pc' = [pc EXCEPT ![w] = "idle"]
      /\ UNCHANGED <<events, ready, redelivered, unacked, buffer, cur, docs>>
  BY DEF Subscribe, storeVars
<1>2. pc \in [Workers -> {"off", "idle", "handle", "broadcast", "ack"}]
  BY DEF TypeInv, TypeOK, WorkersOK
<1>3. /\ \A v \in Workers : v # w => pc'[v] = pc[v] /\ (Given(v))' = Given(v)
      /\ \A v \in Workers : (Buffered(v))' = Buffered(v)
      /\ pc'[w] = "idle"
  BY <1>1, <1>2 DEF Buffered, Given
<1>4. \A v \in Workers : (AtWork(v))' => v # w /\ AtWork(v)
  BY <1>1, <1>2 DEF AtWork
<1>5. OneHolder' /\ SavedOnceUnlessRedelivered'
  BY <1>1 DEF DeliveryInv, OneHolder, SavedOnceUnlessRedelivered
<1>6. BufferIsGiven'
  <2>1. Buffered(w) = {}
    BY <1>1 DEF DeliveryInv, BufferIsGiven
  <2> QED
    BY <1>1, <1>3, <2>1 DEF DeliveryInv, BufferIsGiven
<1>7. InHandIsHeld'
  BY <1>1, <1>3, <1>4 DEF DeliveryInv, InHandIsHeld
<1>8. \A f : (Pending(f))' => Pending(f)
  <2>1. \A v \in Workers : pc'[v] = "handle" => pc[v] = "handle"
    BY <1>3, <1>4 DEF AtWork
  <2> QED
    BY <1>1, <1>3, <2>1 DEF Pending
<1>9. StoredIsNotPending'
  BY <1>1, <1>8 DEF DeliveryInv, StoredIsNotPending
<1> QED
  BY <1>5, <1>6, <1>7, <1>9 DEF DeliveryInv

\* The event goes from the queue to the end of one buffer, or is under way to a
\* worker it will not reach.
LEMMA DeliverDelivery ==
    ASSUME TypeInv, DeliveryInv, NEW w \in Workers, Deliver(w)
    PROVE  DeliveryInv'
<1>1. PICK e \in ready :
          /\ w \in held
          /\ ready' = ready \ {e}
          /\ unacked' = [unacked EXCEPT ![w] = @ \cup {e}]
          /\ buffer' = IF w \in connected
                       THEN [buffer EXCEPT ![w] = Append(@, e)] ELSE buffer
          /\ UNCHANGED <<events, redelivered, attached, connected, held, pc, cur, docs>>
  BY DEF Deliver, workerVars, storeVars
<1>2. /\ buffer \in [Workers -> Seq(Nat)] /\ unacked \in [Workers -> SUBSET Nat]
      /\ e \in Nat /\ connected \subseteq attached
  BY DEF TypeInv, TypeOK, BrokerOK
<1>3. /\ unacked'[w] = unacked[w] \cup {e}
      /\ \A v \in Workers : v # w => unacked'[v] = unacked[v] /\ buffer'[v] = buffer[v]
      /\ \A v \in Workers : v # w => (Given(v))' = Given(v)
      /\ (Given(w))' = Given(w) \cup {e}
  BY <1>1, <1>2 DEF Given
<1>4. /\ \A v \in Workers : e \notin unacked[v]
      /\ e \notin Buffered(w)
  BY <1>1 DEF DeliveryInv, OneHolder, BufferIsGiven, Given
<1>5. \/ UNCHANGED buffer
      \/ /\ w \in attached
         /\ DOMAIN buffer'[w] = DOMAIN buffer[w] \cup {Len(buffer[w]) + 1}
         /\ \A i \in DOMAIN buffer[w] : buffer'[w][i] = buffer[w][i]
         /\ buffer'[w][Len(buffer[w]) + 1] = e
  <2>1. CASE w \in connected
    <3>1. buffer[w] \in Seq(Nat) /\ buffer'[w] = Append(buffer[w], e)
      BY <1>1, <1>2, <2>1
    <3> QED
      BY <1>2, <2>1, <3>1
  <2> QED
    BY <1>1, <2>1
<1>6. /\ (Buffered(w))' \subseteq Buffered(w) \cup {e}
      /\ w \notin attached => (Buffered(w))' = Buffered(w)
      /\ \A v \in Workers : v # w => (Buffered(v))' = Buffered(v)
  BY <1>3, <1>5 DEF Buffered
<1>7. OneHolder'
  BY <1>1, <1>3, <1>4 DEF DeliveryInv, OneHolder
<1>8. BufferIsGiven'
  <2>1. \A i, j \in DOMAIN buffer'[w] : i # j => buffer'[w][i] # buffer'[w][j]
    BY <1>4, <1>5 DEF DeliveryInv, BufferIsGiven, Buffered
  <2> QED
    BY <1>1, <1>3, <1>6, <2>1 DEF DeliveryInv, BufferIsGiven
<1>9. InHandIsHeld'
  <2>1. AtWork(w) => cur[w] # e
    BY <1>1, <1>4 DEF DeliveryInv, InHandIsHeld, Given
  <2> QED
    BY <1>1, <1>3, <1>6, <2>1 DEF DeliveryInv, InHandIsHeld, AtWork
<1>10. \A f : (Pending(f))' => Pending(f)
  BY <1>1, <1>6 DEF Pending
<1>11. StoredIsNotPending' /\ SavedOnceUnlessRedelivered'
  BY <1>1, <1>10 DEF DeliveryInv, StoredIsNotPending, SavedOnceUnlessRedelivered
<1> QED
  BY <1>7, <1>8, <1>9, <1>11 DEF DeliveryInv

\* The event goes from the head of the buffer into the worker's hand.
LEMMA TakeDelivery ==
    ASSUME TypeInv, DeliveryInv, NEW w \in Workers, Take(w)
    PROVE  DeliveryInv'
<1> DEFINE e == Head(buffer[w])
<1>1. /\ pc[w] = "idle" /\ buffer[w] # <<>>
      /\ cur' = [cur EXCEPT ![w] = e]
      /\ buffer' = [buffer EXCEPT ![w] = Tail(@)]
      /\ pc' = [pc EXCEPT ![w] = "handle"]
      /\ UNCHANGED <<events, ready, redelivered, attached, connected, held, unacked, docs>>
  BY DEF Take, storeVars
<1>2. /\ buffer \in [Workers -> Seq(Nat)] /\ buffer[w] \in Seq(Nat)
      /\ cur \in [Workers -> Nat]
      /\ pc \in [Workers -> {"off", "idle", "handle", "broadcast", "ack"}]
  BY DEF TypeInv, TypeOK, BrokerOK, WorkersOK
<1>3. /\ buffer'[w] = Tail(buffer[w]) /\ cur'[w] = e
      /\ \A v \in Workers : v # w => /\ buffer'[v] = buffer[v] /\ cur'[v] = cur[v]
                                     /\ pc'[v] = pc[v]
  BY <1>1, <1>2
<1>4. /\ 1 \in DOMAIN buffer[w] /\ e = buffer[w][1]
      /\ \A i \in DOMAIN buffer'[w] : /\ i + 1 \in DOMAIN buffer[w] /\ i + 1 # 1
                                      /\ buffer'[w][i] = buffer[w][i + 1]
      /\ DOMAIN buffer'[w] \subseteq Nat
  BY <1>1, <1>2, <1>3
<1>5. e \in Buffered(w) /\ e \in Given(w)
  <2>1. e \in Buffered(w)
    BY <1>4, Zenon DEF Buffered
  <2> HIDE DEF e
  <2> QED
    BY <2>1 DEF DeliveryInv, BufferIsGiven
<1>6. /\ (Buffered(w))' \subseteq Buffered(w) \ {e}
      /\ \A v \in Workers : v # w => (Buffered(v))' = Buffered(v)
  <2>1. \A i \in DOMAIN buffer'[w] : buffer'[w][i] # e
    BY <1>4 DEF DeliveryInv, BufferIsGiven
  <2> QED
    BY <1>3, <1>4, <2>1 DEF Buffered
<1>7. OneHolder' /\ SavedOnceUnlessRedelivered'
  BY <1>1 DEF DeliveryInv, OneHolder, SavedOnceUnlessRedelivered
<1>12. \A v \in Workers : (Given(v))' = Given(v)
  BY <1>1 DEF Given
<1>13. \A v \in Workers : pc'[v] = "off" => pc[v] = "off"
  BY <1>1, <1>2
<1>8. BufferIsGiven'
  <2>1. \A i, j \in DOMAIN buffer'[w] : i # j => buffer'[w][i] # buffer'[w][j]
    BY <1>4 DEF DeliveryInv, BufferIsGiven
  <2> QED
    BY <1>1, <1>6, <1>12, <1>13, <2>1, <1>3 DEF DeliveryInv, BufferIsGiven
<1>9. InHandIsHeld'
  <2> HIDE DEF e
  <2>1. cur'[w] \in (Given(w))' /\ cur'[w] \notin (Buffered(w))'
    BY <1>3, <1>5, <1>6, <1>12
  <2> QED
    BY <1>1, <1>3, <1>6, <1>12, <2>1 DEF DeliveryInv, InHandIsHeld, AtWork
<1>10. \A f : (Pending(f))' => Pending(f)
  BY <1>1, <1>3, <1>5, <1>6 DEF Pending
<1>11. StoredIsNotPending'
  BY <1>1, <1>10 DEF DeliveryInv, StoredIsNotPending
<1> QED
  BY <1>7, <1>8, <1>9, <1>11 DEF DeliveryInv

\* The ack takes the event in hand off the books; nobody else has it.
LEMMA AckDelivery ==
    ASSUME TypeInv, DeliveryInv, NEW w \in Workers, Ack(w)
    PROVE  DeliveryInv'
<1>1. /\ pc[w] = "ack" /\ AtWork(w)
      /\ cur' = [cur EXCEPT ![w] = 0]
      /\ \/ unacked' = unacked
         \/ w \in held /\ unacked' = [unacked EXCEPT ![w] = @ \ {cur[w]}]
      /\ pc' = [pc EXCEPT ![w] = IF w \in attached THEN "idle" ELSE "off"]
      /\ UNCHANGED <<events, ready, redelivered, attached, connected, held, buffer, docs>>
  <2>1. connected \subseteq held
    BY DEF DeliveryInv, BufferIsGiven
  <2>2. \/ unacked' = unacked
        \/ w \in connected /\ unacked' = [unacked EXCEPT ![w] = @ \ {cur[w]}]
    BY DEF Ack
  <2>3. /\ pc[w] = "ack" /\ cur' = [cur EXCEPT ![w] = 0]
        /\ pc' = [pc EXCEPT ![w] = IF w \in attached THEN "idle" ELSE "off"]
        /\ UNCHANGED <<events, ready, redelivered, attached, connected, held, buffer, docs>>
    BY Zenon DEF Ack, storeVars
  <2>4. AtWork(w)
    BY <2>3 DEF AtWork
  <2> QED
    BY <2>1, <2>2, <2>3, <2>4
<1>2. /\ unacked \in [Workers -> SUBSET Nat] /\ cur \in [Workers -> Nat]
      /\ pc \in [Workers -> {"off", "idle", "handle", "broadcast", "ack"}]
  BY DEF TypeInv, TypeOK, BrokerOK, WorkersOK
<1>3. /\ \A v \in Workers : unacked'[v] \subseteq unacked[v]
      /\ \A v \in Workers : v # w => /\ unacked'[v] = unacked[v] /\ cur'[v] = cur[v]
                                     /\ pc'[v] = pc[v]
      /\ unacked[w] \ {cur[w]} \subseteq unacked'[w]
      /\ w \notin held => unacked'[w] = unacked[w]
      /\ ~ (AtWork(w))' /\ pc'[w] # "handle"
      /\ pc'[w] = "off" => w \notin attached
  BY <1>1, <1>2 DEF AtWork
<1>4. /\ \A v \in Workers : (Buffered(v))' = Buffered(v)
      /\ \A v \in Workers : v # w => (Given(v))' = Given(v)
  BY <1>1, <1>3 DEF Buffered, Given
<1>5. OneHolder' /\ SavedOnceUnlessRedelivered'
  BY <1>1, <1>3 DEF DeliveryInv, OneHolder, SavedOnceUnlessRedelivered
<1>6. BufferIsGiven'
  <2>1. Buffered(w) \subseteq (Given(w))'
    BY <1>1, <1>3 DEF DeliveryInv, InHandIsHeld, BufferIsGiven, Given
  <2> QED
    BY <1>1, <1>3, <1>4, <2>1 DEF DeliveryInv, BufferIsGiven
<1>7. InHandIsHeld'
  BY <1>1, <1>3, <1>4 DEF DeliveryInv, InHandIsHeld, AtWork
<1>8. \A f : (Pending(f))' => Pending(f)
  BY <1>1, <1>3, <1>4 DEF Pending
<1>9. StoredIsNotPending'
  BY <1>1, <1>8 DEF DeliveryInv, StoredIsNotPending
<1> QED
  BY <1>5, <1>6, <1>7, <1>9 DEF DeliveryInv

\* What a goroutine loses with its channel or its process it does not store.
LEMMA CutDelivery ==
    ASSUME TypeInv, DeliveryInv, NEW w \in Workers,
           Disconnect(w) \/ ClientNotices(w) \/ Crash(w)
    PROVE  DeliveryInv'
<1>1. /\ connected' \subseteq connected /\ attached' \subseteq attached
      /\ attached \ {w} \subseteq attached'
      /\ UNCHANGED <<events, ready, redelivered, held, unacked, docs>>
  BY DEF Disconnect, ClientNotices, Crash, storeVars
<1>2. /\ cur \in [Workers -> Nat] /\ buffer \in [Workers -> Seq(Nat)]
      /\ pc \in [Workers -> {"off", "idle", "handle", "broadcast", "ack"}]
  BY DEF TypeInv, TypeOK, BrokerOK, WorkersOK
<1>3. /\ \A v \in Workers : buffer'[v] = buffer[v] \/ buffer'[v] = <<>>
      /\ w \notin attached' => buffer'[w] = <<>> \/ w \notin attached
      /\ \A v \in Workers : v # w => buffer'[v] = buffer[v]
  <2>1. CASE Disconnect(w)
    BY <2>1 DEF Disconnect
  <2>2. CASE ClientNotices(w) \/ Crash(w)
    <3>1. buffer' = [buffer EXCEPT ![w] = <<>>]
      BY <2>2 DEF ClientNotices, Crash
    <3> QED
      BY <1>2, <3>1
  <2> QED
    BY <2>1, <2>2
<1>4. /\ \A v \in Workers : (Buffered(v))' \subseteq Buffered(v)
      /\ \A v \in Workers : v # w => (Buffered(v))' = Buffered(v)
      /\ w \notin attached' => (Buffered(w))' = {} \/ w \notin attached
  <2>1. \A v \in Workers : buffer'[v] = <<>> => (Buffered(v))' = {}
    BY DEF Buffered
  <2>2. \A v \in Workers : buffer'[v] = buffer[v] => (Buffered(v))' = Buffered(v)
    BY DEF Buffered
  <2> QED
    BY <1>3, <2>1, <2>2
<1>5. \A v \in Workers : (Given(v))' = Given(v)
  BY <1>1 DEF Given
<1>6. /\ \A v \in Workers : (AtWork(v))' => AtWork(v) /\ cur'[v] = cur[v] /\ pc'[v] = pc[v]
      /\ \A v \in Workers : pc'[v] = "off" => pc[v] = "off" \/ v \notin attached'
  BY <1>2 DEF Disconnect, ClientNotices, Crash, workerVars, AtWork
<1>7. OneHolder' /\ SavedOnceUnlessRedelivered'
  BY <1>1 DEF DeliveryInv, OneHolder, SavedOnceUnlessRedelivered
<1>8. BufferIsGiven'
  <2>1. \A v \in Workers : \A i, j \in DOMAIN buffer'[v] :
            i # j => buffer'[v][i] # buffer'[v][j]
    BY <1>3 DEF DeliveryInv, BufferIsGiven
  <2>2. \A v \in Workers : v \notin attached' => (Buffered(v))' = {}
    BY <1>1, <1>4 DEF DeliveryInv, BufferIsGiven
  <2>3. \A v \in Workers : pc'[v] = "off" => v \notin attached'
    BY <1>1, <1>6 DEF DeliveryInv, BufferIsGiven
  <2> QED
    BY <1>1, <1>4, <1>5, <2>1, <2>2, <2>3 DEF DeliveryInv, BufferIsGiven
<1>9. InHandIsHeld'
  BY <1>1, <1>4, <1>5, <1>6 DEF DeliveryInv, InHandIsHeld
<1>10. \A f : (Pending(f))' => Pending(f)
  <2>1. \A v \in Workers : pc'[v] = "handle" => pc[v] = "handle" /\ cur'[v] = cur[v]
    BY <1>6 DEF AtWork
  <2> QED
    BY <1>1, <1>4, <2>1 DEF Pending
<1>11. StoredIsNotPending'
  BY <1>1, <1>10 DEF DeliveryInv, StoredIsNotPending
<1> QED
  BY <1>7, <1>8, <1>9, <1>11 DEF DeliveryInv

\* What the broker takes back it marks as redelivered: it may still be in a
\* buffer or in hand.
LEMMA TakeBackDelivery ==
    ASSUME TypeInv, DeliveryInv, NEW w \in Workers, BrokerNotices(w)
    PROVE  DeliveryInv'
<1>1. /\ w \in held \ connected /\ held' = held \ {w}
      /\ ready' = ready \cup unacked[w]
      /\ redelivered' = redelivered \cup unacked[w]
      /\ unacked' = [unacked EXCEPT ![w] = {}]
      /\ UNCHANGED <<events, attached, connected, buffer, pc, cur, docs>>
  BY DEF BrokerNotices, workerVars, storeVars
<1>2. /\ unacked \in [Workers -> SUBSET Nat]
      /\ pc \in [Workers -> {"off", "idle", "handle", "broadcast", "ack"}]
  BY DEF TypeInv, TypeOK, BrokerOK, WorkersOK
<1>3. /\ unacked'[w] = {}
      /\ \A v \in Workers : v # w => unacked'[v] = unacked[v]
      /\ \A v \in Workers : (Buffered(v))' = Buffered(v) /\ ((AtWork(v))' <=> AtWork(v))
      /\ \A v \in Workers : Given(v) \subseteq (Given(v))'
  BY <1>1, <1>2 DEF Buffered, AtWork, Given
<1>4. OneHolder'
  BY <1>1, <1>3 DEF DeliveryInv, OneHolder
<1>5. BufferIsGiven'
  BY <1>1, <1>3 DEF DeliveryInv, BufferIsGiven
<1>6. InHandIsHeld'
  BY <1>1, <1>3 DEF DeliveryInv, InHandIsHeld
<1>7. \A f : (Pending(f))' => Pending(f) \/ f \in redelivered'
  BY <1>1, <1>3 DEF Pending
<1>8. StoredIsNotPending' /\ SavedOnceUnlessRedelivered'
  BY <1>1, <1>7 DEF DeliveryInv, StoredIsNotPending, SavedOnceUnlessRedelivered
<1> QED
  BY <1>4, <1>5, <1>6, <1>8 DEF DeliveryInv

-----------------------------------------------------------------------------
LEMMA HubOrStutterDelivery ==
    ASSUME DeliveryInv, UNCHANGED <<brokerVars, workerVars, docs>>
    PROVE  DeliveryInv'
BY DEF DeliveryInv, OneHolder, BufferIsGiven, InHandIsHeld, StoredIsNotPending,
   SavedOnceUnlessRedelivered, Pending, Buffered, Given, AtWork, brokerVars, workerVars

LEMMA StepDelivery == TypeInv /\ DeliveryInv /\ [Next]_vars => DeliveryInv'
<1> SUFFICES ASSUME TypeInv, DeliveryInv, [Next]_vars
             PROVE  DeliveryInv'
  OBVIOUS
<1>1. ASSUME NEW h \in Hubs, PostMessage(h) \/ PostChange(h) \/ AddChat(h)
      PROVE  DeliveryInv'
  BY <1>1, PublishDelivery DEF PostMessage, PostChange, AddChat
<1>2. ASSUME NEW h \in Hubs,
             \/ processRabbitmqMessage(h) \/ LateNotification(h) \/ HubDisconnect(h)
             \/ HubCrash(h) \/ LoadChatsFromStore(h) \/ BindQueue(h)
      PROVE  DeliveryInv'
  <2>1. UNCHANGED <<brokerVars, workerVars, docs>>
    BY <1>2 DEF processRabbitmqMessage, LateNotification, HubDisconnect, HubCrash,
       LoadChatsFromStore, BindQueue, storeVars
  <2> QED
    BY <2>1, HubOrStutterDelivery
<1>3. CASE UNCHANGED vars
  BY <1>3, HubOrStutterDelivery DEF vars, storeVars
<1> QED
  BY <1>1, <1>2, <1>3, newMessageDelivery, HandledDelivery, SubscribeDelivery,
     DeliverDelivery, TakeDelivery, AckDelivery, CutDelivery, TakeBackDelivery DEF Next

\* What the rest of the proof rests on, as an invariant of the specification.
THEOREM DeliveryInvariant == Spec => [](TypeInv /\ NothingLostInv /\ DeliveryInv)
BY InitTypeInv, StepTypeInv, InitNothingLost, StepNothingLost, InitDelivery, StepDelivery,
   PTL DEF Spec

\* One posted message becomes two only when the broker gave its event out twice,
\* however many chat-servers share the queue.
THEOREM SavedOnce == Spec => []SavedOnceUnlessRedelivered
<1>1. DeliveryInv => SavedOnceUnlessRedelivered
  BY DEF DeliveryInv
<1> QED
  BY <1>1, DeliveryInvariant, PTL

-----------------------------------------------------------------------------
(* One consumer keeps the publish order.                                   *)

InHand(w) == IF AtWork(w) THEN {cur[w]} ELSE {}

\* Given to nobody before, and queued or with a consumer whose channel is open.
Fresh(f) ==
    /\ f \notin redelivered
    /\ f \in ready \/ \E w \in attached : f \in Buffered(w) \cup InHand(w)

\* Stored, or on its way there: also in the hand of a goroutine that outlived
\* its channel.
Ahead(e) == e \in committed \/ \E w \in Workers : e \in InHand(w)

OneChannel == attached = {} \/ \E w \in Workers : attached = {w}

\* A fresh event stands behind all that the consumer was given before it.
BufferInOrder ==
    \A w \in attached :
        /\ \A i, j \in DOMAIN buffer[w] :
              i < j /\ buffer[w][j] \notin redelivered => buffer[w][i] < buffer[w][j]
        /\ \A e \in Buffered(w), f \in ready \ redelivered : e < f

NothingOlder ==
    /\ committed \subseteq DOMAIN events
    /\ \A e, f \in Nat : Ahead(e) /\ Fresh(f) => e <= f

OrderInv == OneChannel /\ BufferInOrder /\ NothingOlder

LEMMA InitOrder == Init => OrderInv
BY DEF Init, OrderInv, OneChannel, BufferInOrder, NothingOlder, Ahead, Fresh, InHand,
   AtWork

LEMMA AheadIsPublished ==
    ASSUME TypeInv, NothingOlder, NEW e, Ahead(e)
    PROVE  e \in DOMAIN events /\ e \in Nat
<1>1. e \in DOMAIN events
  BY DEF NothingOlder, Ahead, InHand, AtWork, TypeInv, InHandOK
<1> QED
  BY <1>1 DEF TypeInv, TypeOK, BrokerOK

LEMMA PublishOrder ==
    ASSUME TypeInv, OrderInv, NEW h \in Hubs, NEW evt, PublishEvent(h, evt)
    PROVE  OrderInv'
<1>1. PICK e \in Nat : e = Len(events) + 1
  BY DEF TypeInv, TypeOK, BrokerOK
<1>2. /\ events \in Seq(Event) /\ events' = Append(events, evt)
      /\ ready' = ready \cup {e}
      /\ UNCHANGED <<redelivered, attached, unacked, buffer, pc, cur, committed>>
  BY <1>1 DEF PublishEvent, workerVars, history, TypeInv, TypeOK, BrokerOK
<1>3. DOMAIN events \subseteq DOMAIN events' /\ \A f \in DOMAIN events : f \in Nat /\ f < e
  BY <1>1, <1>2
<1>4. OneChannel'
  BY <1>2 DEF OrderInv, OneChannel
<1>7. \A v \in Workers : (Buffered(v))' = Buffered(v) /\ (InHand(v))' = InHand(v)
  BY <1>2 DEF Buffered, InHand, AtWork
<1>8. attached \subseteq Workers
  BY DEF TypeInv, TypeOK, BrokerOK
<1>5. BufferInOrder'
  <2>1. \A v \in Workers : \A f \in Buffered(v) : f < e
    BY <1>3 DEF Buffered, TypeInv, DeliveriesOK
  <2> QED
    BY <1>2, <1>7, <1>8, <2>1 DEF OrderInv, BufferInOrder
<1>6. NothingOlder'
  <2> SUFFICES ASSUME NEW f \in Nat, NEW g \in Nat, (Ahead(f))', (Fresh(g))'
               PROVE  f <= g
    BY <1>2, <1>3 DEF OrderInv, NothingOlder
  <2>1. Ahead(f)
    BY <1>2, <1>7 DEF Ahead
  <2>2. CASE g = e
    BY <1>3, <2>1, <2>2, AheadIsPublished DEF OrderInv
  <2>3. CASE Fresh(g)
    BY <2>1, <2>3 DEF OrderInv, NothingOlder
  <2> QED
    BY <1>2, <1>7, <1>8, <2>2, <2>3 DEF Fresh
<1> QED
  BY <1>4, <1>5, <1>6 DEF OrderInv

\* A step that touches no delivery and at most stores what a worker has in hand.
LEMMA HandlingOrder ==
    ASSUME TypeInv, OrderInv, UNCHANGED <<brokerVars, cur>>,
           \A v \in Workers : AtWork(v)' <=> AtWork(v),
           \A e \in committed' : Ahead(e)
    PROVE  OrderInv'
<1>1. /\ UNCHANGED <<events, ready, redelivered, attached, buffer>>
      /\ attached \subseteq Workers
  BY DEF brokerVars, TypeInv, TypeOK, BrokerOK
<1>2. \A v \in Workers : (InHand(v))' = InHand(v) /\ (Buffered(v))' = Buffered(v)
  BY <1>1 DEF InHand, Buffered
<1>3. OneChannel' /\ BufferInOrder'
  BY <1>1, <1>2 DEF OrderInv, OneChannel, BufferInOrder
<1>4. \A e : (Ahead(e))' => Ahead(e)
  BY <1>2 DEF Ahead
<1>5. \A f : (Fresh(f))' => Fresh(f)
  BY <1>1, <1>2 DEF Fresh
<1>6. committed' \subseteq DOMAIN events'
  BY <1>1, AheadIsPublished DEF OrderInv
<1>7. NothingOlder'
  BY <1>4, <1>5, <1>6 DEF OrderInv, NothingOlder
<1> QED
  BY <1>3, <1>7 DEF OrderInv

LEMMA WorkOrder ==
    ASSUME TypeInv, OrderInv, NEW w \in Workers,
           \/ newMessage(w) \/ editMessage(w) \/ hideMessage(w) \/ deleteMessage(w)
           \/ newChat(w) \/ StoreError(w) \/ broadcast(w) \/ BroadcastLost(w)
    PROVE  OrderInv'
<1> DEFINE Moved == /\ AtWork(w) /\ UNCHANGED <<brokerVars, cur>>
                    /\ \E p \in {"broadcast", "ack"} : pc' = [pc EXCEPT ![w] = p]
                    /\ committed' \in {committed, committed \cup {cur[w]}}
<1>1. Moved
  <2>1. CASE editMessage(w) \/ hideMessage(w) \/ deleteMessage(w)
    BY <2>1, ChangeKeepsOrigins DEF FindOneAndUpdate, Return, AtWork
  <2>2. CASE newMessage(w)
    BY <2>2, Zenon DEF newMessage, Handling, Return, AtWork
  <2>3. CASE newChat(w) \/ StoreError(w)
    BY <2>3, Zenon DEF newChat, StoreError, Handling, Return, AtWork
  <2>4. CASE broadcast(w) \/ BroadcastLost(w)
    BY <2>4, Zenon DEF broadcast, BroadcastLost, AtWork
  <2> QED
    BY <2>1, <2>2, <2>3, <2>4
<1>2. \E p \in {"broadcast", "ack"} : pc' = [pc EXCEPT ![w] = p]
  BY <1>1
<1>3. committed' \subseteq committed \cup {cur[w]}
  BY <1>1
<1>4. \A v \in Workers : AtWork(v)' <=> AtWork(v)
  BY <1>1, <1>2 DEF AtWork, TypeInv, TypeOK, WorkersOK
<1>5. \A e \in committed' : Ahead(e)
  BY <1>1, <1>3 DEF Ahead, InHand
<1> QED
  BY <1>1, <1>4, <1>5, HandlingOrder

\* Another channel is opened only when the last one is gone.
LEMMA SubscribeOrder ==
    ASSUME MaxConsumers = 1, TypeInv, DeliveryInv, OrderInv, NEW w \in Workers, Subscribe(w)
    PROVE  OrderInv'
<1>1. attached = {}
  <2>1. \A v : Cardinality({v}) = 1
    BY FS_Singleton
  <2>2. Cardinality(attached) # 1
    BY DEF Subscribe
  <2> QED
    BY <2>1, <2>2 DEF OrderInv, OneChannel
<1>2. /\ attached' = {w} /\ Buffered(w) = {}
      /\ pc' = [pc EXCEPT ![w] = "idle"] /\ pc[w] = "off"
      /\ UNCHANGED <<events, ready, redelivered, buffer, cur, committed>>
  BY <1>1 DEF Subscribe, history, DeliveryInv, BufferIsGiven
<1>3. /\ \A v \in Workers : (AtWork(v))' <=> AtWork(v)
      /\ (Buffered(w))' = {} /\ (InHand(w))' = {}
      /\ ~ AtWork(w)
  BY <1>2 DEF AtWork, Buffered, InHand, TypeInv, TypeOK, WorkersOK
<1>4. OneChannel' /\ BufferInOrder'
  <2>1. \A i \in DOMAIN buffer'[w] : FALSE
    BY <1>3 DEF Buffered
  <2> QED
    BY <1>2, <1>3, <2>1 DEF OneChannel, BufferInOrder
<1>5. NothingOlder'
  <2>1. \A f : (Fresh(f))' => Fresh(f)
    BY <1>2, <1>3 DEF Fresh
  <2>2. \A f : (Ahead(f))' => Ahead(f)
    BY <1>2, <1>3 DEF Ahead, InHand
  <2> QED
    BY <1>2, <2>1, <2>2 DEF OrderInv, NothingOlder
<1> QED
  BY <1>4, <1>5 DEF OrderInv

\* The oldest event of the queue goes behind all in the buffer, or to a channel
\* that carries nothing any more.
LEMMA DeliverOrder ==
    ASSUME TypeInv, DeliveryInv, OrderInv, NEW w \in Workers, Deliver(w)
    PROVE  OrderInv'
<1>1. PICK e \in ready :
          /\ \A f \in ready : e <= f
          /\ ready' = ready \ {e}
          /\ buffer' = IF w \in connected
                       THEN [buffer EXCEPT ![w] = Append(@, e)] ELSE buffer
          /\ UNCHANGED <<events, redelivered, attached, pc, cur, committed>>
  BY DEF Deliver, workerVars, history
<1>2. /\ buffer \in [Workers -> Seq(Nat)] /\ attached \subseteq Workers
      /\ e \in Nat /\ ready \subseteq Nat /\ connected \subseteq attached
  BY DEF TypeInv, TypeOK, BrokerOK
<1>3. \A v \in Workers : (InHand(v))' = InHand(v)
  BY <1>1 DEF InHand, AtWork
<1>4. \A f : (Ahead(f))' => Ahead(f)
  BY <1>1, <1>3 DEF Ahead
<1>5. OneChannel'
  BY <1>1 DEF OrderInv, OneChannel
<1>6. CASE w \notin connected
  <2>1. buffer' = buffer /\ \A v \in Workers : (Buffered(v))' = Buffered(v)
    BY <1>1, <1>6 DEF Buffered
  <2>2. BufferInOrder'
    BY <1>1, <1>2, <2>1 DEF OrderInv, BufferInOrder
  <2>3. \A f : (Fresh(f))' => Fresh(f)
    BY <1>1, <1>2, <1>3, <2>1 DEF Fresh
  <2> QED
    BY <1>1, <1>4, <1>5, <2>2, <2>3 DEF OrderInv, NothingOlder
<1>7. CASE w \in connected
  <2>1. PICK n \in Nat : n = Len(buffer[w])
    BY <1>2
  <2>2. /\ DOMAIN buffer[w] = 1..n /\ DOMAIN buffer'[w] = 1..(n + 1)
        /\ \A i \in 1..n : buffer'[w][i] = buffer[w][i] /\ buffer[w][i] \in Nat
        /\ buffer'[w][n + 1] = e
    <3>1. buffer[w] \in Seq(Nat) /\ buffer'[w] = Append(buffer[w], e)
      BY <1>1, <1>2, <1>7
    <3> QED
      BY <1>2, <2>1, <3>1
  <2>3. (Buffered(w))' = Buffered(w) \cup {e}
    BY <2>2 DEF Buffered
  <2>4. attached = {w}
    BY <1>2, <1>7 DEF OrderInv, OneChannel
  <2>5. \A i, j \in 1..(n + 1) : i < j /\ buffer'[w][j] \notin redelivered
                                  => buffer'[w][i] < buffer'[w][j]
    <3>1. \A i, j \in 1..n : i < j /\ buffer[w][j] \notin redelivered
                              => buffer[w][i] < buffer[w][j]
      BY <2>2, <2>4 DEF OrderInv, BufferInOrder
    <3>2. e \notin redelivered => \A i \in 1..n : buffer[w][i] < e
      BY <2>2, <2>4 DEF OrderInv, BufferInOrder, Buffered
    <3>3. \A i, j \in 1..(n + 1) : i < j => i \in 1..n /\ (j \in 1..n \/ j = n + 1)
      OBVIOUS
    <3> SUFFICES ASSUME NEW i \in 1..(n + 1), NEW j \in 1..(n + 1), i < j,
                        buffer'[w][j] \notin redelivered
                 PROVE  buffer'[w][i] < buffer'[w][j]
      OBVIOUS
    <3>4. i \in 1..n /\ buffer'[w][i] = buffer[w][i]
      BY <2>2, <3>3
    <3>5. CASE j \in 1..n
      BY <2>2, <3>1, <3>4, <3>5
    <3>6. CASE j = n + 1
      BY <2>2, <3>2, <3>4, <3>6
    <3> QED
      BY <3>3, <3>5, <3>6
  <2>6. \A f \in (Buffered(w))', g \in ready' \ redelivered : f < g
    <3>1. \A g \in ready' : g \in ready /\ e < g
      BY <1>1, <1>2
    <3> QED
      BY <2>3, <2>4, <3>1 DEF OrderInv, BufferInOrder
  <2>7. BufferInOrder'
    BY <1>1, <2>2, <2>4, <2>5, <2>6 DEF BufferInOrder
  <2>8. \A f : (Fresh(f))' => Fresh(f)
    BY <1>1, <1>3, <2>3, <2>4 DEF Fresh
  <2> QED
    BY <1>1, <1>4, <1>5, <2>7, <2>8 DEF OrderInv, NothingOlder
<1> QED
  BY <1>6, <1>7

\* With one channel nothing fresh is older than the head of its buffer.
LEMMA TakeOrder ==
    ASSUME TypeInv, DeliveryInv, OrderInv, NEW w \in Workers, Take(w)
    PROVE  OrderInv'
<1> DEFINE b == buffer[w]
           e == Head(b)
<1>1. /\ pc[w] = "idle" /\ b # <<>>
      /\ cur' = [cur EXCEPT ![w] = e]
      /\ buffer' = [buffer EXCEPT ![w] = Tail(@)]
      /\ pc' = [pc EXCEPT ![w] = "handle"]
      /\ UNCHANGED <<events, ready, redelivered, attached, committed>>
  BY DEF Take, history
<1>2. /\ buffer \in [Workers -> Seq(Nat)] /\ b \in Seq(Nat)
      /\ cur \in [Workers -> Nat] /\ ready \subseteq Nat
      /\ pc \in [Workers -> {"off", "idle", "handle", "broadcast", "ack"}]
  BY DEF TypeInv, TypeOK, BrokerOK, WorkersOK
<1>3. PICK n \in Nat : Len(b) = n + 1
  <2>1. PICK k \in Nat : k = Len(b)
    BY <1>2
  <2>2. k # 0
    BY <1>1, <1>2, <2>1
  <2> QED
    BY <2>1, <2>2
<1>4. /\ DOMAIN b = 1..(n + 1) /\ e = b[1] /\ e \in Nat
      /\ buffer'[w] = Tail(b) /\ DOMAIN buffer'[w] = 1..n
      /\ \A i \in 1..n : buffer'[w][i] = b[i + 1]
  BY <1>1, <1>2, <1>3
<1> HIDE DEF b, e
<1>5. e \in Buffered(w) /\ w \in attached
  <2>1. e \in Buffered(w)
    BY <1>4 DEF Buffered, b
  <2> QED
    BY <2>1 DEF DeliveryInv, BufferIsGiven
<1>6. attached = {w} /\ OneChannel'
  BY <1>1, <1>5 DEF OrderInv, OneChannel
<1>7. \A i, j \in 1..(n + 1) : i < j /\ b[j] \notin redelivered => b[i] < b[j]
  BY <1>4, <1>5 DEF OrderInv, BufferInOrder, b
<1>8. Buffered(w)' \subseteq Buffered(w) /\ Buffered(w) \subseteq Buffered(w)' \cup {e}
  <2>1. \A i \in 1..(n + 1) : i = 1 \/ (i - 1 \in 1..n /\ (i - 1) + 1 = i)
    OBVIOUS
  <2>2. \A i \in 1..n : i + 1 \in 1..(n + 1)
    OBVIOUS
  <2>3. Buffered(w) = {b[i] : i \in 1..(n + 1)}
    BY <1>4 DEF Buffered, b
  <2>4. Buffered(w)' = {b[i + 1] : i \in 1..n}
    BY <1>4 DEF Buffered
  <2>5. Buffered(w) \subseteq Buffered(w)' \cup {e}
    <3> SUFFICES ASSUME NEW i \in 1..(n + 1), i # 1
                 PROVE  b[i] \in Buffered(w)'
      BY <1>4, <2>3
    <3>1. PICK k \in 1..n : k + 1 = i
      BY <2>1
    <3> QED
      BY <2>4, <3>1
  <2> QED
    BY <2>2, <2>3, <2>4, <2>5
<1>9. InHand(w) = {} /\ InHand(w)' = {e}
      /\ \A v \in Workers : v # w => InHand(v)' = InHand(v)
  BY <1>1, <1>2 DEF InHand, AtWork
<1>10. BufferInOrder'
  <2>1. \A i, j \in DOMAIN buffer'[w] :
           i < j /\ buffer'[w][j] \notin redelivered => buffer'[w][i] < buffer'[w][j]
    BY <1>4, <1>7
  <2>2. \A f \in (Buffered(w))', g \in ready' \ redelivered : f < g
    BY <1>1, <1>5, <1>8 DEF OrderInv, BufferInOrder
  <2> QED
    BY <1>1, <1>6, <2>1, <2>2 DEF BufferInOrder
<1>11. ASSUME NEW f \in Nat, (Fresh(f))'
       PROVE  Fresh(f) /\ e <= f
  <2>1. CASE f \in ready /\ f \notin redelivered
    BY <1>2, <1>4, <1>5, <2>1 DEF OrderInv, BufferInOrder, Fresh
  <2>2. CASE f \in Buffered(w) /\ f \notin redelivered
    <3>1. PICK i \in 1..(n + 1) : f = b[i]
      BY <1>4, <2>2 DEF Buffered, b
    <3>2. i = 1 \/ 1 < i
      OBVIOUS
    <3>3. e <= f
      BY <1>4, <1>7, <2>2, <3>1, <3>2
    <3> QED
      BY <1>5, <2>2, <3>3 DEF Fresh
  <2>3. f \notin redelivered /\ (f \in ready \/ f \in Buffered(w) \cup {e})
    BY <1>1, <1>6, <1>8, <1>9, <1>11 DEF Fresh
  <2> QED
    BY <1>5, <2>1, <2>2, <2>3
<1>12. NothingOlder'
  <2>1. \A f : (Ahead(f))' => Ahead(f) \/ f = e
    BY <1>1, <1>9 DEF Ahead
  <2> QED
    BY <1>1, <1>11, <2>1 DEF OrderInv, NothingOlder
<1> QED
  BY <1>6, <1>10, <1>12 DEF OrderInv

\* A step after which workers have less in hand and in their buffers, and the
\* queue has more only of what was given out before.
LEMMA LosingOrder ==
    ASSUME TypeInv, OrderInv, attached' \subseteq attached,
           redelivered \subseteq redelivered', ready' \subseteq ready \cup redelivered',
           UNCHANGED <<events, committed>>,
           \A v \in Workers : (InHand(v))' \subseteq InHand(v),
           \A v \in attached' : buffer'[v] = buffer[v]
    PROVE  OrderInv'
<1>1. attached \subseteq Workers
  BY DEF TypeInv, TypeOK, BrokerOK
<1>2. \A v \in attached' : (Buffered(v))' = Buffered(v)
  BY DEF Buffered
<1>3. OneChannel'
  BY DEF OrderInv, OneChannel
<1>4. BufferInOrder'
  BY <1>2 DEF OrderInv, BufferInOrder
<1>5. \A f : (Fresh(f))' => Fresh(f)
  BY <1>1, <1>2 DEF Fresh
<1>6. \A e : (Ahead(e))' => Ahead(e)
  BY DEF Ahead
<1>7. NothingOlder'
  BY <1>5, <1>6 DEF OrderInv, NothingOlder
<1> QED
  BY <1>3, <1>4, <1>7 DEF OrderInv

LEMMA AckOrCutOrder ==
    ASSUME TypeInv, OrderInv, NEW w \in Workers,
           \/ Ack(w) \/ Disconnect(w) \/ ClientNotices(w) \/ BrokerNotices(w) \/ Crash(w)
    PROVE  OrderInv'
<1>1. /\ attached' \subseteq attached /\ redelivered \subseteq redelivered'
      /\ ready' \subseteq ready \cup redelivered'
      /\ UNCHANGED <<events, committed>>
  BY DEF Ack, Disconnect, ClientNotices, BrokerNotices, Crash, history
<1>2. /\ pc \in [Workers -> {"off", "idle", "handle", "broadcast", "ack"}]
      /\ cur \in [Workers -> Nat] /\ buffer \in [Workers -> Seq(Nat)]
      /\ attached \subseteq Workers
  BY DEF TypeInv, TypeOK, BrokerOK, WorkersOK
<1>3. \A v \in Workers : (AtWork(v))' => AtWork(v) /\ cur'[v] = cur[v]
  <2>1. CASE Ack(w) \/ Crash(w)
    BY <1>2, <2>1 DEF Ack, Crash, AtWork
  <2>2. CASE Disconnect(w) \/ ClientNotices(w) \/ BrokerNotices(w)
    BY <1>2, <2>2 DEF Disconnect, ClientNotices, BrokerNotices, workerVars, AtWork
  <2> QED
    BY <2>1, <2>2
<1>4. \A v \in Workers : (InHand(v))' \subseteq InHand(v)
  BY <1>3 DEF InHand
<1>5. \A v \in attached' : buffer'[v] = buffer[v]
  <2>1. CASE Ack(w) \/ Disconnect(w) \/ BrokerNotices(w)
    BY <2>1 DEF Ack, Disconnect, BrokerNotices
  <2>2. CASE ClientNotices(w) \/ Crash(w)
    BY <1>2, <2>2 DEF ClientNotices, Crash
  <2> QED
    BY <2>1, <2>2
<1> QED
  BY <1>1, <1>4, <1>5, LosingOrder

LEMMA StepOrder ==
    ASSUME MaxConsumers = 1
    PROVE  TypeInv /\ DeliveryInv /\ OrderInv /\ [Next]_vars => OrderInv'
<1> SUFFICES ASSUME TypeInv, DeliveryInv, OrderInv, [Next]_vars
             PROVE  OrderInv'
  OBVIOUS
<1>1. ASSUME NEW h \in Hubs, PostMessage(h) \/ PostChange(h) \/ AddChat(h)
      PROVE  OrderInv'
  BY <1>1, PublishOrder DEF PostMessage, PostChange, AddChat
<1>2. ASSUME UNCHANGED <<brokerVars, workerVars, committed>>
      PROVE  OrderInv'
  <2>1. /\ UNCHANGED <<brokerVars, cur>>
        /\ \A v \in Workers : AtWork(v)' <=> AtWork(v)
        /\ \A e \in committed' : Ahead(e)
    BY <1>2 DEF workerVars, AtWork, Ahead
  <2> QED
    BY <2>1, HandlingOrder
<1>3. ASSUME NEW h \in Hubs,
             \/ processRabbitmqMessage(h) \/ LateNotification(h) \/ HubDisconnect(h)
             \/ HubCrash(h) \/ LoadChatsFromStore(h) \/ BindQueue(h)
      PROVE  OrderInv'
  BY <1>2, <1>3 DEF processRabbitmqMessage, LateNotification, HubDisconnect, HubCrash,
     LoadChatsFromStore, BindQueue, history
<1>4. CASE UNCHANGED vars
  BY <1>2, <1>4 DEF vars, history
<1> QED
  BY <1>1, <1>3, <1>4, WorkOrder, SubscribeOrder, DeliverOrder, TakeOrder,
     AckOrCutOrder DEF Next

\* What an attached worker handles for the first time is fresh, so nothing
\* stored is younger.
LEMMA NothingYoungerStored ==
    ASSUME TypeInv, OrderInv, NEW w \in attached, pc[w] = "handle",
           cur[w] \notin redelivered
    PROVE  \A e \in committed : e <= cur[w]
<1>1. w \in Workers /\ cur \in [Workers -> Nat] /\ committed \subseteq Nat
  BY DEF TypeInv, TypeOK, BrokerOK, WorkersOK, HistoryOK
<1>2. Fresh(cur[w])
  BY DEF Fresh, InHand, AtWork
<1> QED
  BY <1>1, <1>2 DEF OrderInv, NothingOlder, Ahead

\* With one consumer on the queue, an event that an attached worker handles the
\* first time it was given out is never stored after a younger one, however acks
\* and connections are lost (SubscribeOrder is where the one consumer counts).
THEOREM InPublishOrder ==
    ASSUME MaxConsumers = 1
    PROVE  Spec => InOrderUnlessRedelivered
<1>1. TypeInv /\ DeliveryInv /\ OrderInv =>
        [\A w \in attached :
            pc[w] = "handle" /\ pc'[w] \notin {"handle", "off"} /\ cur[w] \notin redelivered
                => \A e \in committed : e <= cur[w]]_vars
  BY NothingYoungerStored
<1> QED
  BY <1>1, DeliveryInvariant, InitOrder, StepOrder, PTL DEF Spec, InOrderUnlessRedelivered

-----------------------------------------------------------------------------
(* Every step is a step of EventDelivery, or none.                         *)

LEMMA InHandIsInWork ==
    ASSUME TypeInv, DeliveryInv, NEW w \in Workers, AtWork(w)
    PROVE  /\ cur[w] \in 1..Len(events)
           /\ cur[w] \in Unsettled \cup redelivered
<1>1. cur[w] \in DOMAIN events /\ events \in Seq(Event)
  BY InHandEvent DEF AtWork, TypeInv, TypeOK, BrokerOK
<1>2. cur[w] \in unacked[w] \/ cur[w] \in redelivered
  BY DEF DeliveryInv, InHandIsHeld, Given
<1> QED
  BY <1>1, <1>2 DEF Unsettled

LEMMA SameUnsettled ==
    ASSUME UNCHANGED <<ready, unacked>>
    PROVE  Unsettled' = Unsettled
BY DEF Unsettled

LEMMA SameOriginsMapped ==
    ASSUME SameOrigins
    PROVE  [m \in DOMAIN docs' |-> docs'[m].origin] = [m \in DOMAIN docs |-> docs[m].origin]
BY DEF SameOrigins

LEMMA PublishImplements ==
    ASSUME TypeInv, NEW h \in Hubs, NEW evt, PublishEvent(h, evt)
    PROVE  Delivery!Publish
<1>1. /\ events \in Seq(Event) /\ events' = Append(events, evt)
      /\ ready' = ready \cup {Len(events) + 1}
      /\ UNCHANGED <<redelivered, unacked, docs, committed, dropped>>
  BY DEF PublishEvent, storeVars, history, TypeInv, TypeOK, BrokerOK
<1>2. Len(events') = Len(events) + 1
  BY <1>1
<1>3. Unsettled' = Unsettled \cup {Len(events) + 1}
  BY <1>1 DEF Unsettled
<1> QED
  BY <1>1, <1>2, <1>3 DEF Delivery!Publish

LEMMA newMessageImplements ==
    ASSUME TypeInv, DeliveryInv, NEW w \in Workers, newMessage(w)
    PROVE  Delivery!Apply(cur[w])
<1> DEFINE d == [origin |-> cur[w], chat |-> events[cur[w]].chat, content |-> cur[w],
                 hiddenFor |-> {}, deleted |-> FALSE]
           O == [m \in DOMAIN docs |-> docs[m].origin]
<1>1. /\ pc[w] = "handle" /\ AtWork(w)
      /\ docs' = Append(docs, d)
      /\ committed' = committed \cup {cur[w]}
      /\ UNCHANGED <<events, ready, unacked, redelivered, dropped>>
  BY Zenon DEF newMessage, Handling, Return, AtWork, brokerVars
<1>2. docs \in Seq(Doc) /\ cur[w] \in Nat
  BY <1>1, InHandEvent DEF TypeInv, TypeOK, StoreOK, AtWork
<1>3. /\ DOMAIN docs' = 1..(Len(docs) + 1) /\ DOMAIN docs = 1..Len(docs)
      /\ Len(docs) \in Nat
      /\ \A m \in DOMAIN docs : docs'[m] = docs[m] /\ docs[m].origin \in Nat
      /\ docs'[Len(docs) + 1].origin = cur[w]
  <2>1. d.origin = cur[w]
    OBVIOUS
  <2>2. \A m \in DOMAIN docs : docs[m].origin \in Nat
    <3>1. \A m \in DOMAIN docs : docs[m] \in Doc
      BY <1>2
    <3> QED
      BY <3>1 DEF Doc
  <2> HIDE DEF d
  <2> QED
    BY <1>1, <1>2, <2>1, <2>2
<1>4. O \in Seq(Nat) /\ Len(O) = Len(docs) /\ DOMAIN O = DOMAIN docs
  BY <1>3
<1>5. [m \in DOMAIN docs' |-> docs'[m].origin] = Append(O, cur[w])
  <2> DEFINE P == [m \in DOMAIN docs' |-> docs'[m].origin]
             A == Append(O, cur[w])
  <2>1. P \in Seq(Nat) /\ Len(P) = Len(docs) + 1
    BY <1>2, <1>3
  <2>2. A \in Seq(Nat) /\ Len(A) = Len(docs) + 1
    BY <1>2, <1>4
  <2>3. \A i \in 1..(Len(docs) + 1) : P[i] = A[i]
    <3>1. ASSUME NEW i \in DOMAIN docs
          PROVE  P[i] = A[i]
      BY <1>2, <1>3, <1>4
    <3>2. P[Len(docs) + 1] = A[Len(docs) + 1]
      BY <1>2, <1>3, <1>4
    <3> HIDE DEF P, A
    <3> QED
      BY <1>3, <3>1, <3>2
  <2> HIDE DEF P, A, O
  <2>4. P = A
    BY <2>1, <2>2, <2>3, SeqEqual
  <2> QED
    BY <2>4 DEF P, A
<1>6. cur[w] \in redelivered \/ \A m \in DOMAIN O : O[m] # cur[w]
  BY <1>1 DEF DeliveryInv, StoredIsNotPending, Pending
<1>7. Delivery!Inserts(cur[w])
  BY <1>5, <1>6 DEF Delivery!Inserts
<1>8. Delivery!InWork(cur[w])
  BY <1>1, InHandIsInWork DEF Delivery!InWork
<1>9. Unsettled' = Unsettled
  BY <1>1, SameUnsettled
<1> QED
  BY <1>1, <1>7, <1>8, <1>9 DEF Delivery!Apply

LEMMA ChangeImplements ==
    ASSUME TypeInv, DeliveryInv, NEW w \in Workers,
           editMessage(w) \/ hideMessage(w) \/ deleteMessage(w) \/ newChat(w)
    PROVE  Delivery!Apply(cur[w])
<1>1. /\ pc[w] = "handle" /\ SameOrigins
      /\ committed' = committed \cup {cur[w]}
      /\ UNCHANGED <<brokerVars, dropped>>
  <2>1. CASE editMessage(w) \/ hideMessage(w) \/ deleteMessage(w)
    BY <2>1, ChangeKeepsOrigins DEF FindOneAndUpdate, Return
  <2>2. CASE newChat(w)
    BY <2>2, Zenon DEF newChat, Handling, Return, SameOrigins
  <2> QED
    BY <2>1, <2>2
<1>2. Delivery!InWork(cur[w])
  BY <1>1, InHandIsInWork DEF Delivery!InWork, AtWork
<1>3. /\ UNCHANGED <<events, ready, unacked, redelivered>>
      /\ Unsettled' = Unsettled
  BY <1>1, SameUnsettled DEF brokerVars
<1> QED
  BY <1>1, <1>2, <1>3, SameOriginsMapped DEF Delivery!Apply

LEMMA StoreErrorImplements ==
    ASSUME TypeInv, DeliveryInv, NEW w \in Workers, StoreError(w)
    PROVE  Delivery!GiveUp(cur[w])
<1>1. /\ pc[w] = "handle" /\ dropped' = dropped \cup {cur[w]}
      /\ UNCHANGED <<events, ready, unacked, redelivered, docs, committed>>
  BY DEF StoreError, brokerVars, storeVars
<1>2. Delivery!InWork(cur[w])
  BY <1>1, InHandIsInWork DEF Delivery!InWork, AtWork
<1>3. Unsettled' = Unsettled
  BY <1>1, SameUnsettled
<1> QED
  BY <1>1, <1>2, <1>3 DEF Delivery!GiveUp

\* An ack that arrives settles the event; one that does not, nothing.
LEMMA AckImplements ==
    ASSUME TypeInv, NothingLostInv, DeliveryInv, NEW w \in Workers, Ack(w)
    PROVE  Delivery!Settle(cur[w]) \/ UNCHANGED Delivery!vars
<1>1. /\ pc[w] = "ack"
      /\ UNCHANGED <<events, ready, redelivered, docs, committed, dropped>>
      /\ \/ w \in connected /\ unacked' = [unacked EXCEPT ![w] = @ \ {cur[w]}]
         \/ UNCHANGED unacked
  BY DEF Ack, storeVars, history
<1>2. CASE w \in connected /\ unacked' = [unacked EXCEPT ![w] = @ \ {cur[w]}]
  <2>1. cur[w] \in unacked[w]
    BY <1>1, <1>2 DEF DeliveryInv, BufferIsGiven, InHandIsHeld, Given, AtWork
  <2>2. /\ cur[w] \notin ready
        /\ \A v \in Workers : v # w => cur[w] \notin unacked[v]
    BY <2>1 DEF DeliveryInv, OneHolder
  <2>3. /\ unacked'[w] = unacked[w] \ {cur[w]}
        /\ \A v \in Workers : v # w => unacked'[v] = unacked[v]
    BY <1>2 DEF TypeInv, TypeOK, BrokerOK
  <2>4. \A v \in Workers : unacked'[v] = unacked[v] \ {cur[w]}
    BY <2>2, <2>3
  <2>5. Unsettled' = Unsettled \ {cur[w]}
    BY <1>1, <2>2, <2>4 DEF Unsettled
  <2>6. cur[w] \in committed \cup dropped
    BY <1>1 DEF NothingLostInv, HandledLeavesATrace
  <2> QED
    BY <1>1, <2>5, <2>6 DEF Delivery!Settle
<1>3. CASE UNCHANGED unacked
  <2>1. Unsettled' = Unsettled
    BY <1>1, <1>3, SameUnsettled
  <2> QED
    BY <1>1, <2>1 DEF Delivery!vars
<1> QED
  BY <1>1, <1>2, <1>3

LEMMA TakeBackImplements ==
    ASSUME TypeInv, NEW w \in Workers, BrokerNotices(w)
    PROVE  unacked[w] \subseteq Unsettled /\ Delivery!Redeliver(unacked[w])
<1>1. /\ ready' = ready \cup unacked[w]
      /\ redelivered' = redelivered \cup unacked[w]
      /\ unacked' = [unacked EXCEPT ![w] = {}]
      /\ UNCHANGED <<events, docs, committed, dropped>>
  BY DEF BrokerNotices, storeVars, history
<1>2. unacked'[w] = {} /\ \A v \in Workers : v # w => unacked'[v] = unacked[v]
  BY <1>1 DEF TypeInv, TypeOK, BrokerOK
<1>3. Unsettled' = Unsettled
  BY <1>1, <1>2 DEF Unsettled
<1> QED
  BY <1>1, <1>3 DEF Unsettled, Delivery!Redeliver

\* Delivering and taking move the event between the places that answer for it.
LEMMA DeliverImplements ==
    ASSUME TypeInv, NEW w \in Workers, Deliver(w)
    PROVE  UNCHANGED Delivery!vars
<1>1. PICK e \in ready : /\ ready' = ready \ {e}
                         /\ unacked' = [unacked EXCEPT ![w] = @ \cup {e}]
                         /\ UNCHANGED <<events, redelivered, docs, committed, dropped>>
  BY DEF Deliver, storeVars, history
<1>2. /\ unacked'[w] = unacked[w] \cup {e}
      /\ \A v \in Workers : v # w => unacked'[v] = unacked[v]
  BY <1>1 DEF TypeInv, TypeOK, BrokerOK
<1>3. Unsettled' = Unsettled
  BY <1>1, <1>2 DEF Unsettled
<1> QED
  BY <1>1, <1>3 DEF Delivery!vars

LEMMA OthersImplement ==
    ASSUME UNCHANGED <<events, ready, redelivered, unacked, docs, committed, dropped>>
    PROVE  UNCHANGED Delivery!vars
BY SameUnsettled DEF Delivery!vars

LEMMA StepImplements ==
    TypeInv /\ NothingLostInv /\ DeliveryInv /\ [Next]_vars
        => [Delivery!Next]_(Delivery!vars)
<1> SUFFICES ASSUME TypeInv, NothingLostInv, DeliveryInv, [Next]_vars
             PROVE  Delivery!Next \/ UNCHANGED Delivery!vars
  OBVIOUS
<1>1. ASSUME NEW h \in Hubs, PostMessage(h) \/ PostChange(h) \/ AddChat(h)
      PROVE  Delivery!Next
  <2>1. Delivery!Publish
    BY <1>1, PublishImplements DEF PostMessage, PostChange, AddChat
  <2> QED
    BY <2>1 DEF Delivery!Next
<1>2. ASSUME NEW w \in Workers,
             \/ newMessage(w) \/ editMessage(w) \/ hideMessage(w) \/ deleteMessage(w)
             \/ newChat(w) \/ StoreError(w)
      PROVE  Delivery!Next
  <2>1. Delivery!Apply(cur[w]) \/ Delivery!GiveUp(cur[w])
    BY <1>2, newMessageImplements, ChangeImplements, StoreErrorImplements
  <2>2. AtWork(w)
    BY <1>2 DEF newMessage, editMessage, hideMessage, deleteMessage, newChat, StoreError,
       Handling, AtWork
  <2>3. cur[w] \in 1..Len(events)
    BY <2>2, InHandIsInWork
  \* expanded: cur[w] is not a constant, the e of Delivery!Next is one.
  <2>4. \E e \in 1..Len(events) : Delivery!Apply(e) \/ Delivery!GiveUp(e)
    BY <2>1, <2>3 DEF Delivery!Apply, Delivery!GiveUp, Delivery!Inserts, Delivery!InWork
  <2> QED
    BY <2>4, Zenon DEF Delivery!Next
<1>3. ASSUME NEW w \in Workers, Ack(w)
      PROVE  Delivery!Next \/ UNCHANGED Delivery!vars
  <2>1. cur[w] \in 1..Len(events)
    BY <1>3, InHandIsInWork DEF Ack, AtWork
  <2> QED
    BY <1>3, <2>1, AckImplements DEF Delivery!Next
<1>4. ASSUME NEW w \in Workers, BrokerNotices(w)
      PROVE  Delivery!Next
  BY <1>4, TakeBackImplements DEF Delivery!Next
<1>5. ASSUME NEW w \in Workers, Deliver(w)
      PROVE  UNCHANGED Delivery!vars
  BY <1>5, DeliverImplements
<1>6. ASSUME NEW w \in Workers,
             \/ Subscribe(w) \/ Take(w) \/ broadcast(w) \/ BroadcastLost(w)
             \/ Disconnect(w) \/ ClientNotices(w) \/ Crash(w)
      PROVE  UNCHANGED Delivery!vars
  <2>1. UNCHANGED <<events, ready, redelivered, unacked, docs, committed, dropped>>
    BY <1>6 DEF Subscribe, Take, broadcast, BroadcastLost, Disconnect, ClientNotices, Crash,
       brokerVars, storeVars, history
  <2> QED
    BY <2>1, OthersImplement
<1>7. ASSUME NEW h \in Hubs,
             \/ processRabbitmqMessage(h) \/ LateNotification(h) \/ HubDisconnect(h)
             \/ HubCrash(h) \/ LoadChatsFromStore(h) \/ BindQueue(h)
      PROVE  UNCHANGED Delivery!vars
  <2>1. UNCHANGED <<events, ready, redelivered, unacked, docs, committed, dropped>>
    BY <1>7 DEF processRabbitmqMessage, LateNotification, HubDisconnect, HubCrash,
       LoadChatsFromStore, BindQueue, brokerVars, storeVars, history
  <2> QED
    BY <2>1, OthersImplement
<1>8. CASE UNCHANGED vars
  BY <1>8, OthersImplement DEF vars, brokerVars, storeVars, history
<1> QED
  BY <1>1, <1>2, <1>3, <1>4, <1>5, <1>6, <1>7, <1>8 DEF Next

LEMMA InitImplements == Init => Delivery!Init
BY DEF Init, Delivery!Init, Unsettled

\* Chat-servers and the queue deliver every event at least once, and more than
\* once only after a redelivery: the pipeline, with any number of chat-servers,
\* crashes and lost connections, implements EventDelivery.
THEOREM Implements == Spec => ImplementsDelivery
BY DeliveryInvariant, InitImplements, StepImplements, PTL
   DEF Spec, ImplementsDelivery, Delivery!Spec

-----------------------------------------------------------------------------
(* What the promise amounts to, whatever implements it: from here to        *)
(* OnceUnlessRepeated only the steps of EventDelivery are used.             *)

Inserted == [m \in DOMAIN docs |-> docs[m].origin]

PromiseInv ==
    /\ Delivery!AllAccepted /\ Delivery!NothingForgotten
    /\ Inserted \in Seq(Nat)
    /\ Delivery!InsertedOnceUnlessRepeated

LEMMA InitPromise == Delivery!Init => PromiseInv
BY DEF Delivery!Init, PromiseInv, Delivery!AllAccepted, Delivery!NothingForgotten,
       Delivery!InsertedOnceUnlessRepeated, Inserted

\* The same inserts, or one more, of an event that is new or was given out twice.
LEMMA PromisedInserts ==
    ASSUME PromiseInv, NEW e \in Nat, redelivered' = redelivered,
           Delivery!Inserts(e) \/ Inserted' = Inserted
    PROVE  Inserted' \in Seq(Nat) /\ Delivery!InsertedOnceUnlessRepeated'
<1>1. PICK s \in Seq(Nat) : s = Inserted
  BY DEF PromiseInv
<1>2. \A m, n \in DOMAIN s : m # n /\ s[m] = s[n] => s[m] \in redelivered
  BY <1>1 DEF PromiseInv, Delivery!InsertedOnceUnlessRepeated, Inserted
<1>3. CASE Inserted' = Inserted
  BY <1>1, <1>2, <1>3 DEF Delivery!InsertedOnceUnlessRepeated, Inserted
<1>4. CASE Delivery!Inserts(e)
  <2>1. PICK t : t = Append(s, e)
    OBVIOUS
  <2>2. /\ t \in Seq(Nat)
        /\ DOMAIN t = DOMAIN s \cup {Len(s) + 1} /\ t[Len(s) + 1] = e
        /\ \A m \in DOMAIN s : t[m] = s[m]
    BY <2>1
  <2>3. Inserted' = t /\ (e \in redelivered \/ \A m \in DOMAIN s : s[m] # e)
    BY <1>1, <1>4, <2>1 DEF Delivery!Inserts, Inserted
  <2>4. \A m, n \in DOMAIN t : m # n /\ t[m] = t[n] => t[m] \in redelivered
    BY <1>2, <2>2, <2>3
  <2> QED
    BY <2>2, <2>3, <2>4 DEF Delivery!InsertedOnceUnlessRepeated, Inserted
<1> QED
  BY <1>3, <1>4

LEMMA StepPromise == PromiseInv /\ [Delivery!Next]_(Delivery!vars) => PromiseInv'
<1> SUFFICES ASSUME PromiseInv, Delivery!Next \/ UNCHANGED Delivery!vars
             PROVE  PromiseInv'
  OBVIOUS
<1>1. ASSUME redelivered' = redelivered, Inserted' = Inserted
      PROVE  Inserted' \in Seq(Nat) /\ Delivery!InsertedOnceUnlessRepeated'
  BY <1>1, PromisedInserts
<1>2. CASE Delivery!Publish
  <2>1. Delivery!AllAccepted' /\ Delivery!NothingForgotten'
    BY <1>2 DEF PromiseInv, Delivery!Publish, Delivery!AllAccepted, Delivery!NothingForgotten
  <2> QED
    BY <1>1, <1>2, <2>1 DEF PromiseInv, Delivery!Publish, Inserted
<1>3. ASSUME NEW S \in SUBSET Unsettled, Delivery!Redeliver(S)
      PROVE  PromiseInv'
  <2>1. Delivery!AllAccepted' /\ Delivery!NothingForgotten'
    BY <1>3 DEF PromiseInv, Delivery!Redeliver, Delivery!AllAccepted, Delivery!NothingForgotten
  <2>2. redelivered' = redelivered \cup S /\ Inserted' = Inserted
    BY <1>3 DEF Delivery!Redeliver, Inserted
  <2> QED
    BY <2>1, <2>2 DEF PromiseInv, Delivery!InsertedOnceUnlessRepeated, Inserted
<1>4. ASSUME NEW e \in 1..Len(events), Delivery!Apply(e)
      PROVE  PromiseInv'
  <2>1. e \in Nat /\ redelivered' = redelivered /\ (Delivery!Inserts(e) \/ Inserted' = Inserted)
    BY <1>4 DEF PromiseInv, Delivery!AllAccepted, Delivery!Apply, Inserted
  <2>2. Delivery!AllAccepted' /\ Delivery!NothingForgotten'
    BY <1>4 DEF PromiseInv, Delivery!Apply, Delivery!AllAccepted, Delivery!NothingForgotten
  <2> QED
    BY <2>1, <2>2, PromisedInserts DEF PromiseInv
<1>5. ASSUME NEW e \in 1..Len(events), Delivery!GiveUp(e) \/ Delivery!Settle(e)
      PROVE  PromiseInv'
  <2>1. Delivery!AllAccepted' /\ Delivery!NothingForgotten'
    BY <1>5 DEF PromiseInv, Delivery!GiveUp, Delivery!Settle, Delivery!AllAccepted,
                Delivery!NothingForgotten
  <2> QED
    BY <1>1, <1>5, <2>1 DEF PromiseInv, Delivery!GiveUp, Delivery!Settle, Inserted
<1>6. CASE UNCHANGED Delivery!vars
  <2>1. Delivery!AllAccepted' /\ Delivery!NothingForgotten'
    BY <1>6 DEF PromiseInv, Delivery!vars, Delivery!AllAccepted, Delivery!NothingForgotten
  <2> QED
    BY <1>1, <1>6, <2>1 DEF PromiseInv, Delivery!vars, Inserted
<1> QED
  BY <1>2, <1>3, <1>4, <1>5, <1>6 DEF Delivery!Next

\* At least once: an event accepted is answered for until it has taken effect or
\* has been given up on.
THEOREM AtLeastOnce == Delivery!Spec => []Delivery!NothingForgotten
<1>1. PromiseInv => Delivery!NothingForgotten
  BY DEF PromiseInv
<1> QED
  BY <1>1, InitPromise, StepPromise, PTL DEF Delivery!Spec

\* At most once, short of a redelivery: two messages from one event mean that
\* the broker gave the event out twice.
THEOREM OnceUnlessRepeated == Delivery!Spec => []Delivery!InsertedOnceUnlessRepeated
<1>1. PromiseInv => Delivery!InsertedOnceUnlessRepeated
  BY DEF PromiseInv
<1> QED
  BY <1>1, InitPromise, StepPromise, PTL DEF Delivery!Spec

-----------------------------------------------------------------------------
(* What a webapp shows, with one worker.                                   *)

\* A notification about a message names one that is stored, and its chat.
NamesItsChat(n) ==
    n.type # "newChat" => n.msg \in DOMAIN docs /\ n.chat = docs[n.msg].chat

\* So do changes.
ChatRefsOK ==
    /\ \A e \in DOMAIN events :
          events[e].type \in Changes => events[e].chat = docs[events[e].msg].chat
    /\ \A h \in Hubs : \A i \in DOMAIN inbox[h] : NamesItsChat(inbox[h][i])
    /\ \A h \in Hubs : \A l \in late[h] : NamesItsChat(l[2])

\* What the worker is about to publish is the message as it is stored.
InHandIsCurrent ==
    \A w \in Workers : pc[w] = "broadcast" /\ result[w].type # "newChat" =>
        /\ result[w].msg \in DOMAIN docs
        /\ result[w].doc = docs[result[w].msg]
        /\ result[w].chat = docs[result[w].msg].chat

\* Only messages of chats that a webapp knows are shown.
ShownIsKnown ==
    \A h \in Hubs : \A m \in DOMAIN shown[h] :
        m \in DOMAIN docs /\ docs[m].chat \in known[h]

ShownInv == ChatRefsOK /\ InHandIsCurrent /\ ShownIsKnown /\ ShownIsCurrent

LEMMA InitShown == Init => ShownInv
BY DEF Init, ShownInv, ChatRefsOK, InHandIsCurrent, ShownIsKnown, ShownIsCurrent, About

LEMMA MessageSubject ==
    ASSUME NEW n, NEW m
    PROVE  Subject(n) = <<"msg", m>> <=> n.type # "newChat" /\ n.msg = m
BY DEF Subject

\* The snapshot that counts is the last of those that are waiting.
LEMMA LatestIsLast ==
    ASSUME NEW h, NEW m, NEW k \in About(h, m), About(h, m) \subseteq Nat,
           \A j \in About(h, m) : j <= k
    PROVE  LatestSnapshot(h, m) = inbox[h][k].doc
<1>1. \A i \in About(h, m) : (\A j \in About(h, m) : j <= i) => i = k
  OBVIOUS
<1>2. (CHOOSE i \in About(h, m) : \A j \in About(h, m) : j <= i) = k
  BY <1>1
<1> QED
  BY <1>2 DEF LatestSnapshot

LEMMA LastExists ==
    ASSUME TypeInv, NEW h \in Hubs, NEW m, About(h, m) # {}
    PROVE  \E k \in About(h, m) : \A j \in About(h, m) : j <= k
<1> DEFINE A == About(h, m)
<1>1. PICK n \in Nat : DOMAIN inbox[h] = 1..n
  <2>1. inbox[h] \in Seq(Notification)
    BY DEF TypeInv, TypeOK, HubsOK
  <2> QED
    BY <2>1
<1>2. A \subseteq 1..n
  BY <1>1 DEF About
<1> DEFINE After(i) == {j \in A : j > i}
           T == {After(i) : i \in A}
           R == StrictSubsetOrdering(A)
<1>3. IsFiniteSet(A) /\ A # {}
  BY <1>2, FS_Interval, FS_Subset
<1> HIDE DEF A
<1>4. FiniteSubsetsOf(A) = SUBSET A
  BY <1>3, FS_FiniteSubsetsOfFinite
<1>5. IsWellFoundedOn(R, SUBSET A)
  BY <1>4, FS_StrictSubsetOrderingWellFounded
<1>6. T \subseteq SUBSET A /\ T # {}
  BY <1>3
<1>7. PICK X \in T : \A Y \in T : ~ (<<Y, X>> \in R)
  <2> HIDE DEF T, R
  <2> QED
    BY <1>5, <1>6, WFMin
<1>8. PICK k \in A : X = After(k)
  OBVIOUS
<1>9. ASSUME NEW j \in A, j > k
      PROVE  FALSE
  <2>1. After(j) \subseteq After(k) /\ j \in After(k) /\ j \notin After(j)
    <3>1. j \in Nat /\ k \in Nat /\ \A i \in A : i \in Nat
      BY <1>2
    <3>2. \A i \in A : i > j => i > k
      BY <1>9, <3>1
    <3>3. ~ (j > j)
      BY <3>1
    <3> QED
      BY <1>9, <3>2, <3>3
  <2>2. After(j) \in SUBSET A /\ After(k) \in SUBSET A /\ After(j) # After(k)
    BY <2>1
  <2> HIDE DEF After
  <2>3. <<After(j), After(k)>> \in R
    BY <2>1, <2>2 DEF StrictSubsetOrdering
  <2> QED
    BY <1>7, <1>8, <2>3
<1>10. \A j \in A : j <= k
  BY <1>2, <1>9
<1> QED
  BY <1>10 DEF A

LEMMA SameSnapshot ==
    ASSUME TypeInv, NEW h \in Hubs, NEW m, About(h, m)' = About(h, m),
           \A i \in About(h, m) : inbox'[h][i] = inbox[h][i],
           About(h, m) = {} => shown'[h][m] = shown[h][m]
    PROVE  LatestSnapshot(h, m)' = LatestSnapshot(h, m)
<1>1. CASE About(h, m) = {}
  BY <1>1, Zenon DEF LatestSnapshot
<1>2. CASE About(h, m) # {}
  <2>1. PICK k \in About(h, m) : \A j \in About(h, m) : j <= k
    BY <1>2, LastExists
  <2>2. About(h, m) \subseteq Nat
    BY DEF About, TypeInv, TypeOK, HubsOK
  <2>3. (CHOOSE i \in About(h, m) : \A j \in About(h, m) : j <= i) = k
    <3>1. \A i \in About(h, m) : (\A j \in About(h, m) : j <= i) => i = k
      BY <2>1, <2>2
    <3> QED
      BY <2>1, <3>1
  <2>4. LatestSnapshot(h, m) = inbox[h][k].doc
    BY <1>2, <2>3, Zenon DEF LatestSnapshot
  <2>5. LatestSnapshot(h, m)' = inbox'[h][k].doc
    BY <1>2, <2>3, Zenon DEF LatestSnapshot
  <2> QED
    BY <2>1, <2>4, <2>5
<1> QED
  BY <1>1, <1>2

\* Steps that touch no message and no inbox, except for losing a notification.
LEMMA QuietShown ==
    ASSUME ShownInv, UNCHANGED <<docs, known, inbox, shown, late>>,
           \A e \in DOMAIN events' :
               events'[e].type \in Changes => events'[e].chat = docs[events'[e].msg].chat,
           \A v \in Workers : pc'[v] = "broadcast" =>
               (pc[v] = "broadcast" /\ result'[v] = result[v]) \/ result'[v].type = "newChat",
           \A h \in Hubs : missed[h] \subseteq missed'[h],
           \A m : Unpublished(<<"msg", m>>) =>
               Unpublished(<<"msg", m>>)' \/ \A h \in Hubs : <<"msg", m>> \in missed'[h]
    PROVE  ShownInv'
<1>1. ChatRefsOK'
  BY DEF ShownInv, ChatRefsOK, NamesItsChat
<1>2. InHandIsCurrent'
  BY DEF ShownInv, InHandIsCurrent
<1>3. ShownIsKnown'
  BY DEF ShownInv, ShownIsKnown
<1>4. \A h \in Hubs : \A m : /\ About(h, m)' = About(h, m)
                             /\ LatestSnapshot(h, m)' = LatestSnapshot(h, m)
  BY DEF About, LatestSnapshot
<1>5. ShownIsCurrent'
  <2> SUFFICES ASSUME NEW h \in Hubs, NEW m \in DOMAIN docs,
                      About(h, m) # {} \/ m \in DOMAIN shown[h],
                      <<"msg", m>> \notin missed'[h], ~ Unpublished(<<"msg", m>>)'
               PROVE  LatestSnapshot(h, m) = docs[m]
    BY <1>4, Zenon DEF ShownIsCurrent
  <2>1. <<"msg", m>> \notin missed[h] /\ ~ Unpublished(<<"msg", m>>)
    OBVIOUS
  <2> QED
    BY <2>1 DEF ShownInv, ShownIsCurrent
<1> QED
  BY <1>1, <1>2, <1>3, <1>5 DEF ShownInv

\* What is known of chats and messages is kept by a step that changes messages.
LEMMA RefsKept ==
    ASSUME TypeInv, ShownInv, UNCHANGED <<events, known, inbox, shown, late>>,
           DOMAIN docs \subseteq DOMAIN docs',
           \A m \in DOMAIN docs : docs'[m].chat = docs[m].chat
    PROVE  ChatRefsOK' /\ ShownIsKnown'
<1>1. \A e \in DOMAIN events : events[e].type \in Changes => events[e].msg \in DOMAIN docs
  BY DEF TypeInv, EventRefsOK
<1>2. ChatRefsOK'
  BY <1>1 DEF ShownInv, ChatRefsOK, NamesItsChat
<1>3. ShownIsKnown'
  BY DEF ShownInv, ShownIsKnown
<1> QED
  BY <1>2, <1>3

\* One message m0 is stored or changed by the only worker, which is about to
\* publish it, or every webapp misses it.
LEMMA StoredShown ==
    ASSUME TypeInv, ShownInv, NEW w \in Workers, Workers = {w}, pc[w] = "handle",
           UNCHANGED <<events, known, inbox, shown, late>>,
           DOMAIN docs \subseteq DOMAIN docs',
           \A m \in DOMAIN docs : docs'[m].chat = docs[m].chat,
           NEW m0, m0 \in DOMAIN docs',
           DOMAIN docs' \subseteq DOMAIN docs \cup {m0},
           \A m \in DOMAIN docs : m # m0 => docs'[m] = docs[m],
           \/ /\ pc'[w] = "broadcast" /\ UNCHANGED missed
              /\ result'[w].type # "newChat" /\ result'[w].msg = m0
              /\ result'[w].doc = docs'[m0] /\ result'[w].chat = docs'[m0].chat
           \/ /\ pc'[w] = "ack"
              /\ \A h \in Hubs : missed'[h] = missed[h] \cup {<<"msg", m0>>}
    PROVE  ShownInv'
<1>1. ChatRefsOK' /\ ShownIsKnown'
  BY RefsKept
<1>2. InHandIsCurrent'
  BY DEF InHandIsCurrent
<1>3. \A m : ~ Unpublished(<<"msg", m>>)
  BY DEF Unpublished
<1>4. \A h \in Hubs : \A m : /\ About(h, m)' = About(h, m)
                             /\ LatestSnapshot(h, m)' = LatestSnapshot(h, m)
  BY DEF About, LatestSnapshot
<1>5. Unpublished(<<"msg", m0>>)' \/ \A h \in Hubs : <<"msg", m0>> \in missed'[h]
  BY MessageSubject DEF Unpublished
<1>6. ShownIsCurrent'
  <2> SUFFICES ASSUME NEW h \in Hubs, NEW m \in DOMAIN docs',
                      About(h, m) # {} \/ m \in DOMAIN shown[h],
                      <<"msg", m>> \notin missed'[h], ~ Unpublished(<<"msg", m>>)'
               PROVE  LatestSnapshot(h, m) = docs'[m]
    BY <1>4, Zenon DEF ShownIsCurrent
  <2>1. m # m0 /\ m \in DOMAIN docs /\ docs'[m] = docs[m]
    BY <1>5
  <2>2. <<"msg", m>> \notin missed[h]
    OBVIOUS
  <2> QED
    BY <1>3, <2>1, <2>2 DEF ShownInv, ShownIsCurrent
<1> QED
  BY <1>1, <1>2, <1>6 DEF ShownInv

LEMMA newMessageShown ==
    ASSUME TypeInv, ShownInv, NEW w \in Workers, Workers = {w}, newMessage(w)
    PROVE  ShownInv'
<1> DEFINE evt == events[cur[w]]
           d == [origin |-> cur[w], chat |-> evt.chat, content |-> cur[w],
                 hiddenFor |-> {}, deleted |-> FALSE]
           m0 == Len(docs) + 1
           n == [type |-> "new", chat |-> evt.chat, msg |-> m0, doc |-> d]
<1>1. /\ pc[w] = "handle" /\ docs' = Append(docs, d)
      /\ \/ /\ pc' = [pc EXCEPT ![w] = "broadcast"] /\ result' = [result EXCEPT ![w] = n]
            /\ UNCHANGED missed
         \/ /\ pc' = [pc EXCEPT ![w] = "ack"]
            /\ missed' = [h \in Hubs |-> missed[h] \cup {Subject(n)}]
      /\ UNCHANGED <<events, known, inbox, shown, late>>
  BY Zenon DEF newMessage, Handling, Return, brokerVars, hubVars
<1>2. /\ d.chat = evt.chat /\ n.type = "new" /\ n.chat = evt.chat /\ n.msg = m0 /\ n.doc = d
      /\ Subject(n) = <<"msg", m0>>
  BY DEF Subject
<1> HIDE DEF d, n
<1>3. docs \in Seq(Doc)
  BY DEF TypeInv, TypeOK, StoreOK
<1>4. /\ DOMAIN docs' = DOMAIN docs \cup {m0} /\ m0 \in DOMAIN docs' /\ m0 \notin DOMAIN docs
      /\ \A m \in DOMAIN docs : docs'[m] = docs[m]
      /\ docs'[m0] = d
  BY <1>1, <1>3
<1>5. \/ pc'[w] = "broadcast" /\ result'[w] = n /\ UNCHANGED missed
      \/ pc'[w] = "ack" /\ \A h \in Hubs : missed'[h] = missed[h] \cup {<<"msg", m0>>}
  BY <1>1, <1>2 DEF TypeInv, TypeOK, WorkersOK
<1> HIDE DEF m0
<1> QED
  BY <1>1, <1>2, <1>4, <1>5, StoredShown

\* An update changes neither the chat of a message nor any other message.
LEMMA UpdateShown ==
    ASSUME TypeInv, ShownInv, NEW w \in Workers, Workers = {w}, pc[w] = "handle",
           events[cur[w]].type \in Changes, NEW d,
           d.chat = docs[events[cur[w]].msg].chat, FindOneAndUpdate(w, d)
    PROVE  ShownInv'
<1> DEFINE evt == events[cur[w]]
           m0 == evt.msg
           n == [type |-> evt.type, chat |-> evt.chat, msg |-> m0, doc |-> d]
<1>1. /\ docs' = [docs EXCEPT ![m0] = d]
      /\ UNCHANGED <<events, known, inbox, shown, late>>
      /\ \/ /\ pc' = [pc EXCEPT ![w] = "broadcast"] /\ result' = [result EXCEPT ![w] = n]
            /\ UNCHANGED missed
         \/ /\ pc' = [pc EXCEPT ![w] = "ack"]
            /\ missed' = [h \in Hubs |-> missed[h] \cup {Subject(n)}]
  BY Zenon DEF FindOneAndUpdate, Return, brokerVars, hubVars
<1>2. n.type = evt.type /\ n.chat = evt.chat /\ n.msg = m0 /\ n.doc = d
  OBVIOUS
<1> HIDE DEF n
<1>3. cur[w] \in DOMAIN events /\ m0 \in DOMAIN docs /\ evt.type # "newChat"
  BY InHandEvent DEF TypeInv, EventRefsOK, Changes
<1>4. evt.chat = docs[m0].chat
  BY <1>3 DEF ShownInv, ChatRefsOK
<1>5. docs \in Seq(Doc)
  BY DEF TypeInv, TypeOK, StoreOK
<1>6. /\ DOMAIN docs' = DOMAIN docs /\ docs'[m0] = d
      /\ \A m \in DOMAIN docs : m # m0 => docs'[m] = docs[m]
  BY <1>1, <1>3, <1>5
<1>10. Subject(n) = <<"msg", m0>>
  BY <1>2, <1>3, MessageSubject
<1>7. \/ /\ pc'[w] = "broadcast" /\ UNCHANGED missed /\ result'[w] = n
      \/ /\ pc'[w] = "ack" /\ \A h \in Hubs : missed'[h] = missed[h] \cup {<<"msg", m0>>}
  BY <1>1, <1>10 DEF TypeInv, TypeOK, WorkersOK
<1>8. \A m \in DOMAIN docs : docs'[m].chat = docs[m].chat
  BY <1>6
<1> HIDE DEF m0, evt
<1>9. \/ /\ pc'[w] = "broadcast" /\ UNCHANGED missed
         /\ result'[w].type # "newChat" /\ result'[w].msg = m0
         /\ result'[w].doc = docs'[m0] /\ result'[w].chat = docs'[m0].chat
      \/ /\ pc'[w] = "ack" /\ \A h \in Hubs : missed'[h] = missed[h] \cup {<<"msg", m0>>}
  BY <1>2, <1>3, <1>4, <1>6, <1>7, <1>8
<1> QED
  BY <1>1, <1>3, <1>6, <1>8, <1>9, StoredShown

LEMMA ChangeShown ==
    ASSUME TypeInv, ShownInv, NEW w \in Workers, Workers = {w},
           editMessage(w) \/ hideMessage(w) \/ deleteMessage(w)
    PROVE  ShownInv'
<1> DEFINE evt == events[cur[w]]
           old == docs[evt.msg]
           edited == [old EXCEPT !.content = cur[w]]
           hidden == [old EXCEPT !.hiddenFor = @ \cup {evt.user}]
           shows == [old EXCEPT !.hiddenFor = @ \ {evt.user}]
           gone == [old EXCEPT !.deleted = TRUE]
<1>1. pc[w] = "handle" /\ evt.type \in Changes
  BY DEF editMessage, hideMessage, deleteMessage, Handling, Changes
<1>2. old \in Doc
  BY <1>1, InHandEvent DEF TypeInv, TypeOK, StoreOK, EventRefsOK
<1>3. /\ edited.chat = old.chat /\ hidden.chat = old.chat
      /\ shows.chat = old.chat /\ gone.chat = old.chat
  BY <1>2 DEF Doc
<1>4. \/ FindOneAndUpdate(w, edited) \/ FindOneAndUpdate(w, hidden)
      \/ FindOneAndUpdate(w, shows) \/ FindOneAndUpdate(w, gone)
  BY Zenon DEF editMessage, hideMessage, deleteMessage
<1> HIDE DEF edited, hidden, shows, gone
<1> QED
  BY <1>1, <1>3, <1>4, UpdateShown

\* What is published last about a message is the message as it is stored.
LEMMA broadcastShown ==
    ASSUME TypeInv, ShownInv, NEW w \in Workers, Workers = {w}, broadcast(w)
    PROVE  ShownInv'
<1> DEFINE n == result[w]
           L(h) == Len(inbox[h]) + 1
<1>1. /\ pc[w] = "broadcast" /\ pc' = [pc EXCEPT ![w] = "ack"]
      /\ inbox' = [h \in Hubs |-> IF hubState[h] = "bound" THEN Append(inbox[h], n)
                                                            ELSE inbox[h]]
      /\ missed' = [h \in Hubs |-> IF hubState[h] = "bound" THEN missed[h] \ {Subject(n)}
                                                             ELSE missed[h] \cup {Subject(n)}]
      /\ UNCHANGED <<events, docs, known, shown, late>>
  BY DEF broadcast, brokerVars, storeVars
<1>2. \A v \in Workers : v = w /\ pc'[v] # "broadcast"
  BY <1>1 DEF TypeInv, TypeOK, WorkersOK
<1>3. \A h \in Hubs : inbox[h] \in Seq(Notification)
  BY DEF TypeInv, TypeOK, HubsOK
<1>4. n.type # "newChat" => /\ n.msg \in DOMAIN docs
                            /\ n.doc = docs[n.msg] /\ n.chat = docs[n.msg].chat
  BY <1>1 DEF ShownInv, InHandIsCurrent
<1>5. \A m : Unpublished(<<"msg", m>>) => Subject(n) = <<"msg", m>>
  BY <1>2 DEF Unpublished
<1> HIDE DEF n
<1>6. ASSUME NEW h \in Hubs, hubState[h] = "bound"
      PROVE  /\ DOMAIN inbox'[h] = DOMAIN inbox[h] \cup {L(h)}
             /\ \A i \in DOMAIN inbox[h] : inbox'[h][i] = inbox[h][i] /\ i <= L(h)
             /\ inbox'[h][L(h)] = n /\ L(h) \in Nat /\ DOMAIN inbox[h] \subseteq Nat
             /\ L(h) \notin DOMAIN inbox[h]
  BY <1>1, <1>3, <1>6
<1> HIDE DEF L
<1>7. ASSUME NEW h \in Hubs, hubState[h] # "bound"
      PROVE  inbox'[h] = inbox[h]
  BY <1>1, <1>7
<1>8. ChatRefsOK' /\ InHandIsCurrent' /\ ShownIsKnown'
  <2>1. \A h \in Hubs : \A i \in DOMAIN inbox'[h] :
           inbox'[h][i] = n \/ (i \in DOMAIN inbox[h] /\ inbox'[h][i] = inbox[h][i])
    BY <1>6, <1>7
  <2>2. ChatRefsOK'
    BY <1>1, <1>4, <2>1 DEF ShownInv, ChatRefsOK, NamesItsChat
  <2> QED
    BY <1>1, <1>2, <2>2 DEF ShownInv, InHandIsCurrent, ShownIsKnown
<1>9. ShownIsCurrent'
  <2> SUFFICES ASSUME NEW h \in Hubs, NEW m \in DOMAIN docs,
                      About(h, m)' # {} \/ m \in DOMAIN shown[h],
                      <<"msg", m>> \notin missed'[h]
               PROVE  LatestSnapshot(h, m)' = docs[m]
    BY <1>1, Zenon DEF ShownIsCurrent
  <2>1. CASE Subject(n) = <<"msg", m>>
    <3>1. hubState[h] = "bound"
      BY <1>1, <2>1
    <3>2. n.type # "newChat" /\ n.msg = m /\ n.doc = docs[m]
      BY <1>4, <2>1, MessageSubject
    <3>3. L(h) \in About(h, m)' /\ About(h, m)' \subseteq Nat
          /\ \A j \in About(h, m)' : j <= L(h)
      BY <1>6, <2>1, <3>1 DEF About
    <3>4. (CHOOSE i \in About(h, m)' : \A j \in About(h, m)' : j <= i) = L(h)
      <4>1. \A i \in About(h, m)' : (\A j \in About(h, m)' : j <= i) => i = L(h)
        BY <3>3
      <4> QED
        BY <3>3, <4>1
    <3> QED
      BY <1>6, <3>1, <3>2, <3>3, <3>4 DEF LatestSnapshot
  <2>2. CASE Subject(n) # <<"msg", m>>
    <3>1. About(h, m)' = About(h, m) /\ \A i \in About(h, m) : inbox'[h][i] = inbox[h][i]
      BY <1>6, <1>7, <2>2 DEF About
    <3>2. <<"msg", m>> \notin missed[h] /\ ~ Unpublished(<<"msg", m>>)
      BY <1>1, <1>5, <2>2
    <3>3. LatestSnapshot(h, m) = docs[m]
      BY <3>1, <3>2 DEF ShownInv, ShownIsCurrent
    <3>4. LatestSnapshot(h, m)' = LatestSnapshot(h, m)
      BY <1>1, <3>1, SameSnapshot
    <3> QED
      BY <3>3, <3>4
  <2> QED
    BY <2>1, <2>2
<1> QED
  BY <1>8, <1>9 DEF ShownInv

\* What a webapp is told about a message it shows, if it knows the chat.
LEMMA ApplyShown ==
    ASSUME TypeInv, NEW h \in Hubs, NEW n, Apply(h, n)
    PROVE  /\ \A g \in Hubs : g # h => known'[g] = known[g] /\ shown'[g] = shown[g]
           /\ known[h] \subseteq known'[h]
           /\ \A m : Subject(n) # <<"msg", m>> \/ n.chat \notin known[h] =>
                 /\ m \in DOMAIN shown'[h] <=> m \in DOMAIN shown[h]
                 /\ m \in DOMAIN shown[h] => shown'[h][m] = shown[h][m]
           /\ \A m : Subject(n) = <<"msg", m>> /\ n.chat \in known[h] =>
                 m \in DOMAIN shown'[h] /\ shown'[h][m] = n.doc
<1> DEFINE row == [m \in DOMAIN shown[h] \cup {n.msg} |->
                     IF m = n.msg THEN n.doc ELSE shown[h][m]]
<1>1. known \in [Hubs -> SUBSET Nat] /\ shown = [g \in Hubs |-> shown[g]]
  BY DEF TypeInv, TypeOK, HubsOK
<1>2. CASE n.type = "newChat"
  <2>1. known' = [known EXCEPT ![h] = @ \cup {n.chat}] /\ shown' = shown
    BY <1>2 DEF Apply
  <2>2. \A m : Subject(n) # <<"msg", m>>
    BY <1>2, MessageSubject
  <2> QED
    BY <1>1, <2>1, <2>2
<1>3. CASE n.type # "newChat" /\ n.chat \notin known[h]
  BY <1>3 DEF Apply
<1>4. CASE n.type # "newChat" /\ n.chat \in known[h]
  <2>1. known' = known /\ shown' = [shown EXCEPT ![h] = row]
    BY <1>4 DEF Apply
  <2>2. \A m : Subject(n) = <<"msg", m>> <=> n.msg = m
    BY <1>4, MessageSubject
  <2>3. /\ DOMAIN row = DOMAIN shown[h] \cup {n.msg}
        /\ row[n.msg] = n.doc
        /\ \A m \in DOMAIN shown[h] : m # n.msg => row[m] = shown[h][m]
    OBVIOUS
  <2> HIDE DEF row
  <2>4. shown'[h] = row /\ \A g \in Hubs : g # h => shown'[g] = shown[g]
    BY <1>1, <2>1
  <2> QED
    BY <1>4, <2>1, <2>2, <2>3, <2>4
<1> QED
  BY <1>2, <1>3, <1>4

LEMMA ApplyKnown ==
    ASSUME TypeInv, ShownInv, NEW h \in Hubs, NEW n, Apply(h, n), NamesItsChat(n),
           UNCHANGED docs
    PROVE  ShownIsKnown'
<1>1. ASSUME NEW m \in DOMAIN shown'[h]
      PROVE  m \in DOMAIN docs /\ docs[m].chat \in known'[h]
  <2>1. CASE Subject(n) = <<"msg", m>> /\ n.chat \in known[h]
    BY <2>1, ApplyShown, MessageSubject DEF NamesItsChat
  <2>2. CASE m \in DOMAIN shown[h]
    BY <2>2, ApplyShown DEF ShownInv, ShownIsKnown
  <2> QED
    BY <1>1, <2>1, <2>2, ApplyShown
<1> QED
  BY <1>1, ApplyShown DEF ShownInv, ShownIsKnown

\* The snapshot read is shown, unless it was not the last one or its chat is
\* unknown, and then nothing of it was shown before.
LEMMA ReadShown ==
    ASSUME TypeInv, ShownInv, NEW h \in Hubs, processRabbitmqMessage(h)
    PROVE  ShownInv'
<1> DEFINE b == inbox[h]
           n == Head(b)
<1>1. /\ b # <<>> /\ inbox' = [inbox EXCEPT ![h] = Tail(@)]
      /\ Apply(h, n)
      /\ UNCHANGED <<events, docs, missed, pc, result, late>>
  BY DEF processRabbitmqMessage, brokerVars, workerVars, storeVars, history
<1>2. inbox \in [Hubs -> Seq(Notification)] /\ b \in Seq(Notification)
  BY DEF TypeInv, TypeOK, HubsOK
<1>3. /\ \A g \in Hubs : g # h => inbox'[g] = inbox[g] /\ shown'[g] = shown[g]
      /\ inbox'[h] = Tail(b)
  BY <1>1, <1>2, ApplyShown
<1>4. PICK k \in Nat : Len(b) = k + 1
  <2>1. PICK l \in Nat : l = Len(b)
    BY <1>2
  <2>2. l # 0
    BY <1>1, <1>2, <2>1
  <2>3. l - 1 \in Nat /\ l = (l - 1) + 1
    BY <2>2
  <2> QED
    BY <2>1, <2>3
<1>5. /\ n = b[1] /\ DOMAIN b = 1..(k + 1) /\ DOMAIN inbox'[h] = 1..k
      /\ \A i \in 1..k : inbox'[h][i] = b[i + 1]
  BY <1>1, <1>2, <1>3, <1>4
<1> HIDE DEF n
<1>6. \A i \in 1..k : i + 1 \in 1..(k + 1) /\ 1 \in 1..(k + 1)
  OBVIOUS
<1>7. \A i \in 1..(k + 1) : i = 1 \/ (i - 1 \in 1..k /\ (i - 1) + 1 = i)
  OBVIOUS
<1>8. NamesItsChat(n)
  <2>1. 1 \in DOMAIN b
    BY <1>5
  <2> QED
    BY <1>5, <2>1 DEF ShownInv, ChatRefsOK
<1>10. ChatRefsOK'
  <2>1. \A g \in Hubs : \A i \in DOMAIN inbox'[g] :
           \E j \in DOMAIN inbox[g] : inbox'[g][i] = inbox[g][j]
    BY <1>3, <1>5, <1>6
  <2> QED
    BY <1>1, <2>1 DEF ShownInv, ChatRefsOK, NamesItsChat
<1>11. InHandIsCurrent'
  BY <1>1 DEF ShownInv, InHandIsCurrent
<1>12. ShownIsKnown'
  BY <1>1, <1>8, ApplyKnown
<1>13. ShownIsCurrent'
  <2> SUFFICES ASSUME NEW g \in Hubs, NEW m \in DOMAIN docs,
                      About(g, m)' # {} \/ m \in DOMAIN shown'[g],
                      <<"msg", m>> \notin missed[g], ~ Unpublished(<<"msg", m>>)'
               PROVE  LatestSnapshot(g, m)' = docs[m]
    BY <1>1, Zenon DEF ShownIsCurrent
  <2>1. ~ Unpublished(<<"msg", m>>)
    BY <1>1 DEF Unpublished
  <2>2. CASE g # h
    <3>1. inbox'[g] = inbox[g] /\ shown'[g] = shown[g]
      BY <1>3, <2>2
    <3>2. About(g, m)' = About(g, m)
      BY <3>1 DEF About
    <3>3. LatestSnapshot(g, m)' = LatestSnapshot(g, m)
      BY <3>1, <3>2, SameSnapshot
    <3> QED
      BY <2>1, <3>1, <3>2, <3>3 DEF ShownInv, ShownIsCurrent
  <2>3. CASE g = h
    <3>1. \A i \in 1..k : i \in About(h, m)' <=> i + 1 \in About(h, m)
      BY <1>5, <1>6 DEF About
    <3>2. 1 \in About(h, m) <=> Subject(n) = <<"msg", m>>
      BY <1>5 DEF About
    <3>3. About(h, m)' \subseteq 1..k /\ About(h, m) \subseteq 1..(k + 1)
      BY <1>5 DEF About
    <3>4. CASE About(h, m)' # {}
      <4>1. PICK i0 \in 1..k : i0 + 1 \in About(h, m)
        BY <3>1, <3>3, <3>4
      <4>2. PICK l \in About(h, m) : \A j \in About(h, m) : j <= l
        BY <4>1, LastExists
      <4>3. l \in Nat /\ l # 1 /\ l - 1 \in 1..k /\ (l - 1) + 1 = l
        BY <3>3, <4>1, <4>2
      <4>4. LatestSnapshot(h, m) = b[l].doc
        <5>1. About(h, m) \subseteq Nat
          BY <3>3
        <5> QED
          BY <4>2, <5>1, LatestIsLast
      <4>5. l - 1 \in About(h, m)' /\ \A j \in About(h, m)' : j <= l - 1
        <5>1. \A j \in About(h, m)' : j \in 1..k /\ j + 1 <= l
          BY <3>1, <3>3, <4>2
        <5> QED
          BY <3>1, <4>2, <4>3, <5>1
      <4>6. (CHOOSE i \in About(h, m)' : \A j \in About(h, m)' : j <= i) = l - 1
        <5>1. \A i \in About(h, m)' : (\A j \in About(h, m)' : j <= i) => i = l - 1
          BY <3>3, <4>3, <4>5
        <5> QED
          BY <4>5, <5>1
      <4>7. LatestSnapshot(h, m)' = inbox'[h][l - 1].doc
        BY <3>4, <4>6, Zenon DEF LatestSnapshot
      <4>8. inbox'[h][l - 1] = b[l]
        BY <1>5, <4>3
      <4>9. LatestSnapshot(h, m) = docs[m]
        BY <2>1, <2>3, <4>1 DEF ShownInv, ShownIsCurrent
      <4> QED
        BY <2>3, <4>4, <4>7, <4>8, <4>9
    <3>5. CASE About(h, m)' = {}
      <4>1. LatestSnapshot(h, m)' = shown'[h][m]
        BY <3>5, Zenon DEF LatestSnapshot
      <4>2. \A j \in About(h, m) : j = 1
        <5>1. \A j \in 1..(k + 1) : j \in About(h, m) => j = 1
          BY <1>7, <3>1, <3>5
        <5> QED
          BY <3>3, <5>1
      <4>3. CASE Subject(n) = <<"msg", m>>
        <5>1. n.chat = docs[m].chat
          BY <1>8, <4>3, MessageSubject DEF NamesItsChat
        <5>2. n.chat \in known[h] /\ shown'[h][m] = n.doc
          <6>1. n.chat \notin known[h] => m \notin DOMAIN shown[h]
            BY <5>1 DEF ShownInv, ShownIsKnown
          <6>2. n.chat \in known[h]
            BY <1>1, <2>3, <3>5, <6>1, ApplyShown
          <6> QED
            BY <1>1, <4>3, <6>2, ApplyShown
        <5>3. 1 \in About(h, m) /\ \A j \in About(h, m) : j <= 1
          BY <3>2, <4>2, <4>3
        <5>4. LatestSnapshot(h, m) = b[1].doc
          <6>1. About(h, m) \subseteq Nat
            BY <3>3
          <6> QED
            BY <5>3, <6>1, LatestIsLast
        <5>5. LatestSnapshot(h, m) = docs[m]
          BY <2>1, <2>3, <5>3 DEF ShownInv, ShownIsCurrent
        <5> QED
          BY <1>5, <2>3, <4>1, <5>2, <5>4, <5>5
      <4>4. CASE Subject(n) # <<"msg", m>>
        <5>1. About(h, m) = {}
          BY <3>2, <4>2, <4>4
        <5>2. m \in DOMAIN shown[h] /\ shown'[h][m] = shown[h][m]
          BY <1>1, <2>3, <3>5, <4>4, ApplyShown
        <5>3. LatestSnapshot(h, m) = shown[h][m]
          BY <5>1, Zenon DEF LatestSnapshot
        <5> QED
          BY <2>1, <2>3, <4>1, <5>2, <5>3 DEF ShownInv, ShownIsCurrent
      <4> QED
        BY <4>3, <4>4
    <3> QED
      BY <3>4, <3>5
  <2> QED
    BY <2>2, <2>3
<1> QED
  BY <1>10, <1>11, <1>12, <1>13 DEF ShownInv

\* What a leftover goroutine passes on counts as missed.
LEMMA LateShown ==
    ASSUME TypeInv, ShownInv, NEW h \in Hubs, LateNotification(h)
    PROVE  ShownInv'
<1>1. PICK l \in late[h] :
          /\ Apply(h, l[2])
          /\ late' = [late EXCEPT ![h] = @ \ {l}]
          /\ missed' = [missed EXCEPT ![h] = @ \cup {Subject(l[2])}]
          /\ UNCHANGED <<events, docs, inbox, pc, result>>
  BY DEF LateNotification, brokerVars, workerVars, storeVars
<1>2. /\ missed'[h] = missed[h] \cup {Subject(l[2])}
      /\ \A g \in Hubs : missed[g] \subseteq missed'[g] /\ late'[g] \subseteq late[g]
  BY <1>1 DEF TypeInv, TypeOK, HubsOK, HistoryOK
<1>3. NamesItsChat(l[2])
  BY DEF ShownInv, ChatRefsOK
<1>4. ChatRefsOK' /\ InHandIsCurrent'
  BY <1>1, <1>2 DEF ShownInv, ChatRefsOK, InHandIsCurrent, NamesItsChat
<1>5. ShownIsKnown'
  BY <1>1, <1>3, ApplyKnown
<1>6. ShownIsCurrent'
  <2> SUFFICES ASSUME NEW g \in Hubs, NEW m \in DOMAIN docs,
                      (About(g, m))' # {} \/ m \in DOMAIN shown'[g],
                      <<"msg", m>> \notin missed'[g], ~ (Unpublished(<<"msg", m>>))'
               PROVE  (LatestSnapshot(g, m))' = docs[m]
    BY <1>1, Zenon DEF ShownIsCurrent
  <2>1. ~ Unpublished(<<"msg", m>>) /\ <<"msg", m>> \notin missed[g]
    BY <1>1, <1>2 DEF Unpublished
  <2>2. (About(g, m))' = About(g, m)
    BY <1>1 DEF About
  <2>3. /\ m \in DOMAIN shown'[g] <=> m \in DOMAIN shown[g]
        /\ m \in DOMAIN shown[g] => shown'[g][m] = shown[g][m]
    <3>1. CASE g = h
      <4>1. Subject(l[2]) # <<"msg", m>>
        BY <1>2, <3>1
      <4> QED
        BY <1>1, <3>1, <4>1, ApplyShown
    <3>2. CASE g # h
      BY <1>1, <3>2, ApplyShown
    <3> QED
      BY <3>1, <3>2
  <2>4. LatestSnapshot(g, m) = docs[m]
    BY <2>1, <2>2, <2>3 DEF ShownInv, ShownIsCurrent
  <2>5. About(g, m) = {} => shown'[g][m] = shown[g][m]
    BY <2>2, <2>3
  <2>6. (LatestSnapshot(g, m))' = LatestSnapshot(g, m)
    BY <1>1, <2>2, <2>5, SameSnapshot
  <2> QED
    BY <2>4, <2>6
<1> QED
  BY <1>4, <1>5, <1>6 DEF ShownInv

\* A webapp that loses its queue misses what was in it; one that starts shows
\* nothing yet.
LEMMA RestartShown ==
    ASSUME TypeInv, KnownInv, ShownInv, NEW h \in Hubs,
           HubDisconnect(h) \/ HubCrash(h) \/ LoadChatsFromStore(h) \/ BindQueue(h)
    PROVE  ShownInv'
<1> DEFINE Lost == /\ inbox'[h] = <<>> /\ shown'[h] = shown[h]
                   /\ missed'[h] = missed[h] \cup InboxSubjects(h)
                   /\ \A l \in late'[h] :
                         l \in late[h] \/ \E i \in DOMAIN inbox[h] : l[2] = inbox[h][i]
           Ended == inbox'[h] = <<>> /\ shown'[h] = <<>> /\ late'[h] = {}
           Goes == /\ inbox'[h] = inbox[h] /\ shown'[h] = shown[h] /\ late'[h] = late[h]
                   /\ missed[h] \subseteq missed'[h]
<1>1. /\ UNCHANGED <<events, docs, pc, result>>
      /\ \A g \in Hubs : g # h =>
             /\ known'[g] = known[g] /\ inbox'[g] = inbox[g] /\ late'[g] = late[g]
             /\ shown'[g] = shown[g] /\ missed'[g] = missed[g]
  <2>1. UNCHANGED <<events, docs, pc, result>>
    BY DEF HubDisconnect, HubCrash, LoadChatsFromStore, BindQueue, brokerVars, workerVars,
       storeVars
  <2>2. CASE HubDisconnect(h)
    BY <2>1, <2>2 DEF HubDisconnect, TypeInv, TypeOK, HubsOK, HistoryOK
  <2>3. CASE HubCrash(h)
    BY <2>1, <2>3 DEF HubCrash, TypeInv, TypeOK, HubsOK, HistoryOK
  <2>4. CASE LoadChatsFromStore(h)
    BY <2>1, <2>4 DEF LoadChatsFromStore, TypeInv, TypeOK, HubsOK, HistoryOK
  <2>5. CASE BindQueue(h)
    BY <2>1, <2>5 DEF BindQueue, history
  <2> QED
    BY <2>2, <2>3, <2>4, <2>5
<1>2. \/ (Lost /\ known'[h] = known[h]) \/ Ended
      \/ Goes /\ known[h] \subseteq known'[h]
  <2>1. CASE HubDisconnect(h)
    <3>1. /\ inbox'[h] = <<>> /\ shown' = shown /\ known' = known
          /\ missed'[h] = missed[h] \cup InboxSubjects(h)
          /\ \/ late'[h] = late[h]
             \/ inbox[h] # <<>> /\ \E f : late'[h] = late[h] \cup {<<f, Head(inbox[h])>>}
      BY <2>1 DEF HubDisconnect, TypeInv, TypeOK, HubsOK, HistoryOK
    <3>2. inbox[h] # <<>> => 1 \in DOMAIN inbox[h] /\ Head(inbox[h]) = inbox[h][1]
      <4>1. inbox[h] \in Seq(Notification)
        BY DEF TypeInv, TypeOK, HubsOK
      <4> QED
        BY <4>1
    <3> QED
      BY <3>1, <3>2
  <2>2. CASE HubCrash(h)
    BY <2>2 DEF HubCrash, TypeInv, TypeOK, HubsOK
  <2>3. CASE LoadChatsFromStore(h)
    <3>1. known[h] \subseteq 1..chats
      BY DEF KnownInv, ChatsOK
    <3> QED
      BY <2>3, <3>1 DEF LoadChatsFromStore, TypeInv, TypeOK, HubsOK, HistoryOK
  <2>4. CASE BindQueue(h)
    BY <2>4 DEF BindQueue, history
  <2> QED
    BY <2>1, <2>2, <2>3, <2>4
<1>3. ChatRefsOK' /\ InHandIsCurrent'
  <2>1. /\ \A i \in DOMAIN inbox'[h] : i \in DOMAIN inbox[h] /\ inbox'[h][i] = inbox[h][i]
        /\ \A l \in late'[h] :
              l \in late[h] \/ \E i \in DOMAIN inbox[h] : l[2] = inbox[h][i]
    BY <1>2
  <2> HIDE DEF Lost, Ended, Goes
  <2>2. ChatRefsOK'
    BY <1>1, <2>1 DEF ShownInv, ChatRefsOK, NamesItsChat
  <2> QED
    BY <1>1, <2>2 DEF ShownInv, InHandIsCurrent
<1>4. ShownIsKnown'
  <2>1. \/ \A m \in DOMAIN shown'[h] : FALSE
        \/ shown'[h] = shown[h] /\ known[h] \subseteq known'[h]
    BY <1>2
  <2> QED
    BY <1>1, <2>1 DEF ShownInv, ShownIsKnown
<1>5. ShownIsCurrent'
  <2> SUFFICES ASSUME NEW g \in Hubs, NEW m \in DOMAIN docs,
                      (About(g, m))' # {} \/ m \in DOMAIN shown'[g],
                      <<"msg", m>> \notin missed'[g], ~ (Unpublished(<<"msg", m>>))'
               PROVE  (LatestSnapshot(g, m))' = docs[m]
    BY <1>1, Zenon DEF ShownIsCurrent
  <2>1. ~ Unpublished(<<"msg", m>>)
    BY <1>1 DEF Unpublished
  <2>2. CASE /\ inbox'[g] = inbox[g] /\ shown'[g] = shown[g]
             /\ missed[g] \subseteq missed'[g]
    <3>1. (About(g, m))' = About(g, m)
      BY <2>2 DEF About
    <3>2. (LatestSnapshot(g, m))' = LatestSnapshot(g, m)
      BY <2>2, <3>1, SameSnapshot
    <3> QED
      BY <2>1, <2>2, <3>1, <3>2 DEF ShownInv, ShownIsCurrent
  <2>3. CASE g = h /\ Lost
    <3>1. (About(h, m))' = {} /\ m \in DOMAIN shown[h]
      BY <2>3 DEF About
    <3>2. About(h, m) = {} /\ <<"msg", m>> \notin missed[h]
      BY <2>3 DEF About, InboxSubjects
    <3>3. (LatestSnapshot(h, m))' = shown'[h][m] /\ LatestSnapshot(h, m) = shown[h][m]
      BY <3>1, <3>2, Zenon DEF LatestSnapshot
    <3>4. LatestSnapshot(h, m) = docs[m]
      BY <2>1, <3>1, <3>2 DEF ShownInv, ShownIsCurrent
    <3> QED
      BY <2>3, <3>3, <3>4
  <2>4. CASE g = h /\ Ended
    BY <2>4 DEF About
  <2> QED
    BY <1>1, <1>2, <2>2, <2>3, <2>4
<1> QED
  BY <1>3, <1>4, <1>5 DEF ShownInv

LEMMA StepShown ==
    ASSUME Solo
    PROVE  TypeInv /\ KnownInv /\ ShownInv /\ [Next]_vars => ShownInv'
<1> SUFFICES ASSUME TypeInv, KnownInv, ShownInv, [Next]_vars
             PROVE  ShownInv'
  OBVIOUS
<1>1. PICK w \in Workers : Workers = {w}
  BY DEF Solo
<1>3. /\ pc \in [Workers -> {"off", "idle", "handle", "broadcast", "ack"}]
      /\ result \in [Workers -> Notification]
  BY DEF TypeInv, TypeOK, WorkersOK
<1>4. \A e \in DOMAIN events :
          events[e].type \in Changes => events[e].chat = docs[events[e].msg].chat
  BY DEF ShownInv, ChatRefsOK
<1>5. ASSUME NEW h \in Hubs, PostMessage(h) \/ PostChange(h) \/ AddChat(h)
      PROVE  ShownInv'
  <2>1. PICK evt : /\ PublishEvent(h, evt)
                   /\ evt.type \in Changes => evt.chat = docs[evt.msg].chat
    <3>1. CASE PostMessage(h)
      <4>1. PICK c \in known[h] :
               PublishEvent(h, [type |-> "new", chat |-> c, msg |-> 0, user |-> NoUser])
        BY <3>1 DEF PostMessage
      <4>2. "new" \notin Changes
        BY DEF Changes
      <4> QED
        BY <4>1, <4>2
    <3>2. CASE PostChange(h)
      <4>1. PICK m \in DOMAIN docs, t \in Changes, u \in Users \cup {NoUser} :
               PublishEvent(h, [type |-> t, chat |-> docs[m].chat, msg |-> m, user |-> u])
        BY <3>2 DEF PostChange, Changes
      <4> QED
        BY <4>1
    <3>3. CASE AddChat(h)
      <4>1. "newChat" \notin Changes
        BY DEF Changes
      <4> QED
        BY <3>3, <4>1 DEF AddChat
    <3> QED
      BY <1>5, <3>1, <3>2, <3>3
  <2>2. /\ events \in Seq(Event) /\ events' = Append(events, evt)
        /\ UNCHANGED <<docs, known, inbox, shown, late, missed, pc, result>>
    BY <2>1 DEF PublishEvent, TypeInv, TypeOK, BrokerOK, workerVars, storeVars, hubVars, history
  <2>3. \A e \in DOMAIN events' :
            events'[e].type \in Changes => events'[e].chat = docs[events'[e].msg].chat
    BY <1>4, <2>1, <2>2
  <2>4. \A m : Unpublished(<<"msg", m>>) => Unpublished(<<"msg", m>>)'
    BY <2>2 DEF Unpublished
  <2> QED
    BY <2>2, <2>3, <2>4, QuietShown
<1>6. ASSUME UNCHANGED <<events, docs, known, inbox, shown, late, missed, result>>,
             \A v \in Workers : pc[v] = "broadcast" <=> pc'[v] = "broadcast"
      PROVE  ShownInv'
  <2>1. \A m : Unpublished(<<"msg", m>>) => Unpublished(<<"msg", m>>)'
    BY <1>6 DEF Unpublished
  <2> QED
    BY <1>4, <1>6, <2>1, QuietShown
<1>7. CASE \/ Subscribe(w) \/ Deliver(w) \/ Take(w) \/ StoreError(w) \/ Ack(w)
           \/ Disconnect(w) \/ ClientNotices(w) \/ BrokerNotices(w)
  <2>1. UNCHANGED <<events, docs, known, inbox, shown, late, missed, result>>
    BY <1>7 DEF Subscribe, Deliver, Take, StoreError, Ack, Disconnect, ClientNotices,
       BrokerNotices, brokerVars, workerVars, storeVars, hubVars, history
  <2>2. \A v \in Workers : pc[v] = "broadcast" <=> pc'[v] = "broadcast"
    BY <1>3, <1>7 DEF Subscribe, Deliver, Take, StoreError, Ack, Disconnect,
       ClientNotices, BrokerNotices, workerVars
  <2> QED
    BY <1>6, <2>1, <2>2
<1>8. CASE newChat(w)
  <2>1. /\ pc[w] = "handle" /\ UNCHANGED <<events, docs, known, inbox, shown, late>>
        /\ \/ /\ UNCHANGED missed
              /\ \E c : result' = [result EXCEPT ![w] =
                          [type |-> "newChat", chat |-> c, msg |-> 0, doc |-> NoDoc]]
           \/ /\ pc' = [pc EXCEPT ![w] = "ack"]
              /\ \E n : missed' = [h \in Hubs |-> missed[h] \cup {Subject(n)}]
    BY <1>8, Zenon DEF newChat, Handling, Return, brokerVars, hubVars
  <2>2. /\ pc'[w] = "broadcast" => result'[w].type = "newChat"
        /\ \A h \in Hubs : missed[h] \subseteq missed'[h]
        /\ \A m : ~ Unpublished(<<"msg", m>>)
    BY <1>1, <1>3, <2>1 DEF Unpublished
  <2>3. \A v \in Workers : v = w
    BY <1>1
  <2> QED
    BY <1>4, <2>1, <2>2, <2>3, QuietShown
<1>9. CASE BroadcastLost(w) \/ Crash(w)
  <2>1. /\ UNCHANGED <<events, docs, known, inbox, shown, late>> /\ pc'[w] # "broadcast"
        /\ \A h \in Hubs : missed[h] \subseteq missed'[h]
        /\ pc[w] = "broadcast" => \A h \in Hubs : Subject(result[w]) \in missed'[h]
    BY <1>3, <1>9 DEF BroadcastLost, Crash, brokerVars, storeVars, hubVars
  <2>2. \A m : Unpublished(<<"msg", m>>) => \A h \in Hubs : <<"msg", m>> \in missed'[h]
    BY <1>1, <2>1 DEF Unpublished
  <2>3. \A v \in Workers : v = w
    BY <1>1
  <2> QED
    BY <1>4, <2>1, <2>2, <2>3, QuietShown
<1>10. CASE UNCHANGED vars
  BY <1>6, <1>10 DEF vars, brokerVars, workerVars, storeVars, hubVars, history
<1>11. ASSUME NEW v \in Workers PROVE v = w
  BY <1>1
<1> QED
  BY <1>1, <1>5, <1>7, <1>8, <1>9, <1>10, <1>11, newMessageShown, ChangeShown,
     broadcastShown, ReadShown, LateShown, RestartShown DEF Next

\* With one worker, what a webapp last told its clients about a message, or is
\* about to tell them, is the message as MongoDB holds it, unless the change is
\* still to be published or never reached the webapp.
THEOREM ShownAsStored ==
    ASSUME Solo
    PROVE  Spec => []ShownIsCurrent
<1>1. ShownInv => ShownIsCurrent
  BY DEF ShownInv
<1> QED
  BY <1>1, InitTypeInv, StepTypeInv, InitKnown, StepKnown, InitShown, StepShown, PTL
     DEF Spec

=============================================================================
