# A TLA+ model of Chat-app-with-Go

The specifications here follow the Go code of the chat application: which
goroutine or process does what, in which order, under which lock, and what the
broker, the database and the cache hold in between. TLC checks them on small
instances and TLAPS proves part of them for all instances.

## The system

Several **webapp** processes serve pages and websockets, several **chat-server**
processes apply chat events to the database, one **file-server** stores uploaded
images. RabbitMQ, MongoDB and Redis sit between them.

    browser --HTTP post--> webapp --"chat_messages"--> chat-server --> MongoDB
       ^                     ^                             |      \--> Redis list
       |                     |                             v
       +---- websocket ------+ <---- "chat_notifications" (fanout)
       +---- changeChat -----> webapp --GetMessages--> Redis, else MongoDB

| Component | State | Operations | Talks to |
|---|---|---|---|
| Event pipeline: `internal/chat.go` (publishing, `processRabbitmqMessage`), `cmd/chat-server/main.go` | the queue and its unacknowledged deliveries, the delivery in hand, the collections `messages` and `chats` | publish; consume; `newMessage`, `editMessage`, `hideMessage`, `deleteMessage`, `newChat`; `broadcast`; ack | RabbitMQ, store, hub |
| Hub and chats: `internal/chat.go`, `Chatroom` and `HttpClient` in `cmd/webapp/handlers.go` | `chats`, `clientMetas`, each chat's connected and disconnected clients; four kinds of mutex | `ConnectClient`, `RemoveClient`, `GetChat`, `Broadcast`, `Send`, adding an announced chat | websocket goroutines and the consumer goroutine share it |
| RabbitMQ client: `internal/rabbitmq` | the connection, registered publishers and consumers, their channels | `Dial` and the reconnecting loop, `NewPublisher`, `RegisterConsumer`, `Close` | both programs; one loop goroutine beside the application |
| Message store: `internal/store` | MongoDB documents, one Redis list per chat | `GetMessages`, `SaveMessage`, `UpdateMessageContent`, `SetHideMessage`, `DeleteMessage` | chat-server writes, webapp reads |
| Accounts, user cache, sessions | users, cached users (1 h), a process-local map of sessions | register, log in, session middleware | store |
| File upload: `fileuploader.go`, `cmd/file-server` | a pipe and its goroutine; second and counter of the last file name | upload, name, store, remove on error | webapp to file-server over HTTP |
| Views, `chat.js` | the page | render, swap in fragments | webapp |
| Logging, configuration, nginx, compose | none that matters here | | |

What is hard in it:

- *Crashes and redelivery.* The chat-server acknowledges after the store call and
  after the broadcast, and an ack is no more than a write: those of several events
  can be lost with one connection. An event may be handled twice, and `SaveMessage`
  inserts each time. The goroutine of a lost channel goes on with the delivery it has
  in hand, beside the goroutine that is handed the same delivery again.
- *Half-done work.* A store call has reached MongoDB when its reply is lost, or when
  the lookup of the author after an update fails; nobody is told, and the cache is not
  dropped. A store error is acknowledged and the event is gone.
- *Notifications that never arrive.* A webapp's queue lives and dies with its
  connection; the chats are read before the queue is bound, and a webapp that could
  not read them starts without any.
- *Shared registry.* Clients are registered under the session's id; the locks are
  released between leaving one chat and joining the next; `ConnectClient` reads
  a map without its lock; announcements replace `Chat` objects that have clients.
- *Cache races.* Every call to MongoDB or Redis can interleave with those of
  other processes and nothing is conditional but `RPUSHX`.
- *Recovery.* The connection may be lost again while the loop is recovering, and a
  channel that cannot be set up is not tried again.
- *A page between two goroutines.* The handler registers a client, reads the messages
  and sends the window in three steps; the consumer writes fragments meanwhile.
- *Check, then act.* Registering looks for the name and inserts afterwards.
- *An upload has three parties.* The goroutine that feeds the pipe, the request that
  reads it and the file-server end in any order; names come from a clock; whether a
  file could be closed or removed is not looked at.

What makes each part correct:

- pipeline: no accepted event is lost; none is stored twice without a redelivery;
  one consumer keeps the publish order of what is given out once; clients are shown what MongoDB holds;
  a chat is known before its messages arrive; every event is handled.
- hub: one current chat per session, the same in `clientMetas` and in the chats;
  no handler that has ended is still a connected client; a page hears the chat it
  shows and of the chats it found; no call and no notification is stuck.
- RabbitMQ client: a recovery leaves nothing on an older connection and starts one
  goroutine for each consumer; a loss is recovered from.
- store: a cache hit is a correct beginning of the chat; duplication is bounded.
- accounts: a user name is taken once; the right password is accepted; a request
  acts as whoever logged in on that browser.
- upload: file names are not reused; what the webapp is told of a file is true; every
  upload returns and every goroutine that feeds one ends.
- page: it ends up showing its chat, each message once and as stored, no message of
  another chat, and a mark at every chat with news.

`PROJECT.json` lists the hazards line by line, each with the properties that
guard against it.

## Modules

| Module | Models | Runs |
|---|---|---|
| `ChatServer` | the pipeline across processes | `ChatServerFaults`, `ChatServerOrderly`, `ChatServerScaled`, `ChatServerLive` |
| `Hub` | one webapp's registry, lock by lock | `HubRegistry`, `HubLive` |
| `RabbitClient` | the reconnecting client | `RabbitClientRecovery`, `RabbitClientLoopEnds` |
| `MessageStore` | MongoDB and the Redis list of one chat | `MessageStoreCache` |
| `ChatView` | one page between handler, consumer and htmx | `ChatViewCrossing` |
| `FileUpload` | uploader, pipe and file-server | `FileUploadFaults` |
| `Accounts` | registering, logging in, sessions of several webapps | `AccountsLogin` |
| `EventDelivery` | what the pipeline promises, abstractly | through `ChatServerScaled` |
| `...Proofs` | theorems about the module of that name | |
| `ChatDeliveryProofs` | that `ChatServer` implements `EventDelivery` and what that amounts to; the publish order; what webapps show | |
| `MC*` | constants and symmetry for TLC | |

The operators named `Mutant...` are deliberate mistakes, each placed before the
definition it stands in for: a check that is not sensitive to its mistake would
say nothing about the code. No specification uses them.

### ChatServer

A *worker* is one run of the goroutine at `rabbitmq.go:77`. `buffer` is what lies in its
`queueChan`, `unacked` what RabbitMQ waits for. `pc` follows `handle`: `Take` (range to
the next delivery), one of the handlers with all of its store calls, `broadcast` or
`BroadcastLost`, `Ack`. `StoreError` is a handler that fails before it changed anything.
`Return` ends one whose call MongoDB has carried out: it broadcasts, or the call fails all
the same (a lost reply of `InsertOne` or `FindOneAndUpdate`, an author that cannot be
looked up) and nobody is told.

- A connection is lost in three steps, of which the last two come in any order.
  `Disconnect` cuts it: `connected` says whose connection still carries bytes.
  `ClientNotices` closes the channel in the client (`attached`) and drops the deliveries
  buffered on it; the library may still hand out some of those, each of which behaves
  like the one in hand. `BrokerNotices` closes it in the broker (`held`), which gives out
  again all it has no ack for. In between the worker goes on with what is in its
  buffer: `Ack` and `broadcast` only write (`main.go:83`, 138), so that any number of acks
  and notifications may be lost. `Crash` ends the process; the broker notices that too.
- A message's content is the number of the event that wrote it; documents are in
  insertion order, their id is their position.
- What happens between `Subscribe` and a loss is an open channel; how the client
  gets there is `RabbitClient`. A consumer's channel that the broker closes by itself is like
  a connection that is lost, but for the reconnecting loop, which does not notice: there
  `Subscribe` takes a restart. RabbitMQ itself does not restart.
- A hub is `down`, `loaded` (`LoadChatsFromStore` done, no queue yet), `bound`, or
  `lost` (connection gone, chats and clients kept). `LoadChatsFromStore` may fail, which
  `NewHub` ignores (`chat.go:393`). One goroutine reads the queue in order;
  `LateNotification` is the last one of a goroutine that outlived its connection (`late`),
  beside the goroutine of the next. `shown` stands for the last fragment the clients were
  sent about a message.
- `committed`, `dropped` and `missed` are history: they name what the properties
  except (an error, a notification that arrived never or after a later one, chats that
  could not be read) and guard nothing. What was missed counts again from the next
  notification about the same message on.
- `updateMessage` is not modelled, since nothing publishes `Event_UpdateMessage`,
  nor are bodies that cannot be parsed, since webapps only publish what they
  marshalled themselves.

### EventDelivery

The promise of the queue and its consumers without connections, workers, buffers or
notifications: an accepted event is `open` until it has been `applied` or has
`failed`, and it inserts a message a second time only if it was given out again
(`repeated`). It is stated on its own, with two consequences (`NothingForgotten`,
`InsertedOnceUnlessRepeated`) that hold of whatever implements it. `ChatServer` does, by
this mapping (end of the module):

| `EventDelivery` | `ChatServer` |
|---|---|
| `published` | number of `events` |
| `open` | what is `ready` or unacknowledged by some worker |
| `repeated` | `redelivered` |
| `applied`, `failed` | `committed`, `dropped` |
| `inserted` | the event that each message in `docs` comes from |

A post is a `Publish`, a handler an `Apply` or `GiveUp`, an ack that
arrives a `Settle`, the broker's notice of a lost channel a `Redeliver` of what it had;
every other step is a stutter. The content of
`ImplementsDelivery` is in the guards: a worker only applies what the broker still
answers for or has given out again, and only settles what has been applied or failed.

### Hub

One handler goroutine for each connection and one consumer goroutine. Each `Lock` is
a step; a critical section that takes no further lock is one step with its unlock.
`metasLock`, `chatsLock`, `clientsLock[c]`, `connMux[k]` are the holders of the
mutexes in the order of nesting. `connected` and `disconnected` are the two maps of
each chat, `metas` is `clientMetas`. A connection belongs to a session that may have
other connections, and all of them share one key.

- `ChangeChat` names any chat, known to this hub or not, since a page can come from
  another webapp; for an unknown one `JoinNothing` ends in the panic of
  `handlers.go:230`, which skips `RemoveClient`.
- `ReadPrevChat` is the read at `chat.go:564` without the lock: while the consumer
  is about to write the map the runtime may end the process (`crashed`).
- `PutChat` replaces the `Chat` object and so its clients. `replaced` remembers the
  chats where that hit one the hub knew; the two `Hears...` properties except them.
- `shows` is the chat whose window the page has. `ViewFails` leaves it as it is
  (`handlers.go:231-234`); `windowless` remembers such connections until they are sent a window.
- A write to a websocket is two steps, so that other goroutines run meanwhile.
- `WaitsFor(t, u)` reads the guards the other way round: `t` stands before a mutex that
  `u` holds. `NoCircularWait` is freedom from deadlock as a safety property, without
  the fairness and the returning writes that `HubLive` assumes.

### RabbitClient

Connections are numbered. `loop` is the reconnecting goroutine, `stage` how far the
registration of an item is (set up, then appended to the list), `channel` the
connection its channel is on, `subs` the connections on which a consumer has
started a goroutine. `Lose` may come at any step, `Close` too, which panics on the nil
connection that a failed dial leaves. `SetupFails` may come on an open connection: the
broker refuses a channel or what is declared on it, and the code tries it again only on
the next connection (`rabbitmq.go:161-164`); `failedOn` remembers where. `overlapped` holds
items whose registration and a recovery overlapped (the code has no lock there): such
a consumer may be set up twice on one connection, or be left behind. `unwatched` says
whether a connection was lost while the loop was not waiting for it.
The library is modelled as this code sees it: `NotifyClose` on a connection that
is gone closes the receiver at once, and a graceful close closes it without a
reason.

### MessageStore

The messages of one chat: `docs[m]` is the version of message `m`, `cache` the Redis
list. Readers are `GetMessages` (`LRANGE`, aggregation, `RPUSH`), writers the four
handlers (MongoDB first, then `RPUSHX` and `LTRIM`, or the lookup and `DEL`).
Each call is a step. A hit changes nothing and is `Hit` in the properties.
`disturbed` records that two users of the list overlapped, or one of them failed,
since the list was last dropped with nobody else at it.

### ChatView

One page: `wire` holds the frames that were written to its websocket and not yet swapped
in by htmx, `page` the window and its list of messages, `marks` the state of the chat
list's items. `ConnectClient`, `GetMessages`, `Send` are the three steps of a
`changeChat`; `HandleEvent` is the consumer, which picks the fragment by whether the
client is connected to the chat (`Chat.Broadcast`, `HttpClient.HandleEvent`); the `Swap...`
actions are the `hx-swap-oob` attributes of the templates. It is composed with the other
modules by what it takes from them: the client is in one chat at a time (`Hub`), the
notifications come in the order of the changes (`ChatServer` with one consumer). A change
is stored (`StoreMessage`, `StoreChange`) and announced (`Broadcast`) in two steps; `pending`
says that the last one is still to be announced.

- `GetMessages` misses the cache and returns what MongoDB holds, or returns a list from the
  cache. What can be in that list is `MessageStore`'s subject; here it is any list of at most
  `CacheSize` messages of the chat in any of their versions, cut off, stale, doubled or out of
  order, which is more than the cache can come to hold.
- `crossed` names the messages whose place or version in the window the code does not
  secure: those with a change that was stored and not delivered while the window lay
  between `GetMessages` and `Send`, and those that a cached list did not give, once, as
  stored and in their place.
- `Stored` lists the messages of a chat in the order of their insertion. The aggregation
  (`mongodb.go:283-308`) has no `$sort`: that MongoDB scans the collection in this order is
  an assumption about its storage, which `ShowsInOrder` needs and no code secures.
- The set of chats is fixed and the websocket is open. The list item a page lacks for a
  chat announced before it connected is a listed hazard without a property.
- A change is an edit or what looks like one; hiding is an event of the author's page
  only, and the edit form and `GetMessage`, which replace a message by itself, are not
  modelled.

### FileUpload

A request is one run of `UploadFile` (`up`), its pump goroutine (`pump`, `pipe`) and the run
of `handleUpload` that serves it (`srv`). The pump's writes block until the other end
of the pipe reads or is closed, each with the error it gives. `name` is what
`generateFilename` gave, `dir` and `written` are the disk, `dst` an open descriptor, which
a removal by name can unlink. `Restart` ends the file-server between any two steps, `SetBack`
is a clock that is corrected; `stepped` and `quick` remember that. A close that loses what
was written (`Copy`) and an `os.Remove` that fails (`CopyFails`) are errors that `handleUpload`
does not look at; `ignored` holds the requests they hit.

- The browser's request is over before the upload starts (`FormFile` reads the form), so the
  only thing it can do later is go away, one of the cases of `DoFails`.
- Serving files (`http.FileServer`) only reads the directory.

### Accounts

A request is one run of a handler on one webapp: `Register`, `Login` or a visit, that is
any handler behind `session.Middleware` and `AuthMiddleware`. Each call to MongoDB, each
critical section of the session map and the return of the cookie is a step. A session
is identified with the login that made it, as `rand.Text()` repeats nothing; `stored` is
the part of those that are in the map of their process.

- `hashPassword` is an injective function: two passwords with one hash are not considered.
- `CreateUser` may fail with or without an insert, as a lost reply of MongoDB does.
- The code has no way to log out.
- `entitled` are the logins whose user was there when the form came, `raced` the names
  that two registrations asked for at the same time, `erred` what met a store error.

## Runs

| Run | Bounds | Shows |
|---|---|---|
| `ChatServerFaults` | 2 goroutines, one consuming at a time, 1 webapp, 2 events, 3 faults (crash, cut connection, store error) | `TypeOK`, `NothingLost`, `SavedOnceUnlessRedelivered`, `InOrderUnlessRedelivered` |
| `ChatServerOrderly` | 1 goroutine, 2 webapps, 3 events, 2 faults (crash, store error or lost reply, webapp lost or restarted) | `ShownIsCurrent`, `ChatKnownBeforeItsMessages` |
| `ChatServerScaled` | 2 consumers at a time, 3 events, 1 fault | `ImplementsDelivery` |
| `ChatServerLive` | 1 goroutine, 1 webapp, 2 events, 2 faults of any kind | `EveryEventHandled`, `StoredIsShown` |
| `RabbitClientRecovery` | 1 publisher, 2 consumers, 4 connections | types, where the loop gives up, `RecoveredOnCurrentConnection`, `OneGoroutinePerConnection`, `LostIsRecovered` |
| `RabbitClientLoopEnds` | 1 publisher, 1 consumer, 4 connections | a violation, see Findings |
| `HubRegistry` | 2 connections, 2 sessions, 2 chats, 2 notifications | types, `ConnectedIsCurrent`, `ConnectedIsLive`, `HearsTheChatItShows`, `HearsOfEveryChatItFound`, `NoCircularWait` |
| `HubLive` | 2 connections of 1 session, 1 chat, 2 notifications | `EveryCallReturns`, `EveryNoteIsFinished` |
| `MessageStoreCache` | 2 readers, 2 writers, 4 messages, list of 2, 2 updates, 1 failure | types, `CoherentUnlessDisturbed`, `BoundedDuplication` |
| `ChatViewCrossing` | 2 chats, 2 messages, 1 edit of each, 3 moves, cached lists of 1 | types, `ShowsTheChat`, `ShowsInOrder`, `ShowsOnlyTheChat`, `UnreadIsMarked` |
| `FileUploadFaults` | 2 uploads of all kinds, 2 seconds, 2 faults | types, `NamesAreDistinct`, `AnswerIsTrue`, `EveryUploadReturns`, `EveryPumpEnds` |
| `AccountsLogin` | 4 requests, 2 webapps, 2 browsers, 1 name, 2 passwords, 2 faults | types, `NameTakenOnce`, `RightPasswordIsAccepted`, `ActsAsWhoLoggedIn` |

Why the bounds are enough for the question asked:

- Three events are a message and two changes of it, or a chat, its message and a
  change; two faults are an error beside a crash, or a webapp that restarts and cannot
  read its chats. In `ChatServerFaults` two events are enough for an order, or for two acks
  that are lost with one connection, and three faults for a redelivery that goes wrong
  twice. Two goroutines are the old and the new one around a reconnect. With two webapps
  one posts to what the other announced.
- In `ChatServerOrderly` connections of the chat-server are not lost: with a goroutine
  left over from a lost connection two workers publish about one message in any
  order, and `ShownIsCurrent` does not hold (nor does the code mean it to).
- Two connections are enough for the shared key and for every pair of locks; two
  chats for a move between them; the third party is the consumer. Two
  notifications announce a chat and then write to it.
- A list of two entries stands for 100: four messages fill it and overflow it.
  Two readers and two writers give every pair of overlapping users.
- Four connections allow three losses: one that is waited for, one during the
  recovery from it, and one after that.
- Two consumers in `ChatServerScaled` hold different events, and one event between them
  after a fault; three events let one be queued meanwhile.
- Three moves go to a chat, away and back, so that a window finds leftovers of an earlier
  one; two messages are one in each chat or two that must keep their order; one edit
  crosses a window in every position. A cached list of one message is cut off, stale,
  or right; longer ones, with messages doubled or out of order, are left to the proofs,
  which hold for any `CacheSize`.
- Two uploads take two names of one second, or of a second that is left and set back to;
  two faults are a restart or a correction beside an error of the copy. More uploads are
  left to the proofs, which hold for any number.
- Four requests are two registrations that race and two logins, or a registration, two
  logins of one browser and a visit; two webapps have a session each. A second user name
  adds nothing to a race for one: no step reads a user of another name.

Deadlock checking is off: every bound above is a place where a system that goes on
in reality stops in the model. That nothing is stuck is what the liveness runs
are for.

### Fairness

`ChatServerLive`: workers subscribe, are delivered to and go on; hubs read their
queues; client and broker notice a cut connection in the end, which the heartbeats of
AMQP see to on either side. Faults, users and restarts of webapps owe nothing, and the faults are finite.
A chat-server that lost its connection or ended subscribes again: the reconnecting
loop does that, or whoever restarts the process; `RabbitClientLoopEnds` shows
the one case where the loop itself does not, and a restart is then what it takes.

`HubLive`: strong fairness for each goroutine, since `sync.Mutex` hands a lock
directly to a goroutine that has waited longer than 1 ms. It is an *assumption* that
a websocket write returns: `Send` sets no deadline, and a peer that stops reading
while its buffers are full would stall the consumer of the whole webapp.

`RabbitClientRecovery`: the loop runs and a broker dialled every second for ever
accepts in the end. Nothing says that no connection is lost.

`FileUploadFaults`: weak fairness of two steps only. `http.Client.Timeout` of 60 s
(`fileuploader.go:29`) ends `Do` and the reading of the answer, which is `DoFails`, and the
Go runtime lets the pump go on once a write has returned an error (`PumpStops`). The
network, the file-server and the browser owe nothing.

## Proofs

`ChatServerProofs` holds, for any sets of workers, webapps and users and any bounds:

- `TypeCorrect`: `Spec => []TypeOK`.
- `TypeInvariant`: `Spec => []TypeInv`, the inductive strengthening. `TypeOK` alone is
  not inductive, as handlers index `events` by what was delivered and `docs` by what
  an event names: `DeliveriesOK` says that what is queued, unacknowledged or
  buffered was published, `InHandOK` that a working worker has such an event in
  hand, `EventRefsOK` that a change names a stored message. All three survive
  crashes and redelivery because events and documents are only ever appended.
- `NothingIsLost`: `Spec => []NothingLost`. `NothingLost` by itself is not inductive: an
  ack removes the event from `unacked`, and nothing in the property says that the
  event has had its effect by then. `HandledLeavesATrace` says it: a worker
  that broadcasts or acks has an event in hand that is committed or was given
  up on. `KeptIsNotLost` covers the steps that only move an event.
- `ChatsAreKnown`: `Solo` (one goroutine of one chat-server) gives
  `Spec => []ChatKnownBeforeItsMessages`, with chats that could not be read at the start
  among the missed ones. `ToldOrInHand`: a running webapp knows a stored
  chat, will read of it or missed its announcement, or the worker is about to announce
  it; `AnnouncedFirst` says the same of each place in an inbox. With two workers it is
  false: a restarted webapp reads from MongoDB a chat that is not announced yet, and a message
  posted there overtakes the announcement on its way to the other webapps.

`HubProofs`, for any number of connections, sessions, chats and notifications:

- `RegistryInvariant`: `Spec => []HubInv`, and from it `HubTypeCorrect`
  (`[]TypeOK`), `SessionInOneChat` (`[]ConnectedIsCurrent`) and
  `NoDeadClientConnected` (`[]ConnectedIsLive`).
- The two properties speak of what holds when nobody is at work; `HubInv` says what
  holds in between. `MetasLocked`: a handler past the `Lock` of `ConnectClient` or
  `RemoveClient` holds `clientMetasMutex`. `HasLeft`: from the moment the
  handler has left the current chat until it joins another, its session is in no
  chat; this is why a join leaves one entry only, and why the panic of a `changeChat`
  to an unknown chat leaves none behind. `ConnectedIsKnown`: a connected client is
  under the id of its own session in a chat the hub knows, which is what lets
  `RemoveClient` find it. Only `clientMetasMutex` is needed for this: that
  `chatsMutex` is released between the two chats, and that `ReadPrevChat` takes no
  lock, does not matter to them.
- The lemma `Quiet` covers the steps that connect nobody and leave `clientMetas`
  alone; the five others have a lemma each.
- `HearsItsChat` (which excepts the window, not the place, of a `windowless` page) and `HearsOfFoundChats` (`[]HearsTheChatItShows`,
  `[]HearsOfEveryChatItFound`) say what holds between two visits; `PlaceInv` says it from
  the join on. `WindowOK`: once joined, the only connection of a session is where the
  window that it has or is about to get says. `FoundOK`: each chat it found on its arrival
  has an entry of it or is still to be visited. `FirstVisit`: only the first
  `ConnectClient` of a connection visits chats. The lemma `Bystander` covers the steps of
  other connections and of the notification consumer: an entry of a session is changed by
  connections of that session only, or by the replacement of its chat.
- `NobodyWaitsInACircle` (`[]NoCircularWait`): `HolderInv` says for each of the four
  kinds of mutex where its holder stands, between `Lock` and `Unlock` (so none reads,
  ends or panics with a mutex). `WaitsForLaterLock`: whoever holds a mutex stands before
  one that is later in the order, or before none; hence, of any goroutines, the one
  furthest in the order (`FurthestIsFree`) waits for none of them, be they infinitely many.

`RabbitClientProofs`, for any number of publishers, consumers and connections:

- `ClientTypeCorrect`: `Spec => []TypeOK`, which is inductive as it stands.
- `LoopGivesUpOnlyUnwatched`: `Spec => []LoopEndsOnlyWhenClosedOrUnwatched`. The
  invariant adds `AtWorkOnConn`, which ties the loop's place to the state of the
  connection it holds.
- `OneGoroutine`: `Spec => []OneGoroutinePerConnection`. `RangeOK` says where the loop stands in
  the lists it ranges over, `SubsOK` that a consumer it has still to set up has no
  goroutine on the new connection, or one when its registration overlapped the recovery:
  the loop comes to each item once.
- `NothingIsLeftBehind`: `Spec => []RecoveredOnCurrentConnection`. `OnCurrent` says it of the
  items the loop has passed already, up to those whose setup failed on this connection,
  `NoneUnderWay` that an item half registered is
  one of those the property excepts.

`ChatDeliveryProofs`, for any number of chat-servers, webapps, events and faults:

- `Implements`: `Spec => ImplementsDelivery`, and on the way `SavedOnce`:
  `Spec => []SavedOnceUnlessRedelivered`. The argument is about who holds an event.
  `OneHolder`: the queue or one channel has it, in the broker's eyes. `Given(w)`: what a channel
  was given is what the broker waits for, or, once it has closed the channel, has given out
  again; what is buffered on it is among that, once (`BufferIsGiven`). `InHandIsHeld`: so is what a worker has
  in hand, and it is not buffered too. `StoredIsNotPending`: an event that has become a message
  and was not given out again is in no queue, no buffer and no handler that has still to run.
  A handler that inserts therefore inserts for the first time, or for an event given out twice.
- `AtLeastOnce`, `OnceUnlessRepeated`: the two consequences of the promise, from the steps of
  `EventDelivery` alone (`Delivery!Spec => ...`), so that they hold of whatever implements it.
  `AllAccepted` ranges over what was accepted only, so that a new event is new to every set.
- `InPublishOrder`: `MaxConsumers = 1` gives `Spec => InOrderUnlessRedelivered`. It is about *fresh*
  events, those that were not given out again and that the queue or the one open channel
  (`OneChannel`) still has to get through. `BufferInOrder`: a fresh event stands in the channel behind all that
  was given before it, and none in the queue is older than what is buffered. `NothingOlder`
  is what survives a lost connection, with whatever acks: all that is stored, or in the
  hand of a worker (also of one that outlived its channel), is no younger than any fresh
  event. What comes back after a lost ack is not fresh, and nothing is said of it.
- `ShownAsStored`: `Solo` gives `Spec => []ShownIsCurrent`. `InHandIsCurrent`: what the worker is
  about to publish is the message as stored. `ShownIsKnown`: a notification that a webapp
  reads is of a chat it knows, so it is shown and not dropped; this is where
  `ChatsAreKnown` is used. `ChatRefsOK` adds that notifications name the chat of their
  message, also those in hand of a goroutine that outlived the webapp's connection; what such
  a goroutine shows is counted as missed (`LateShown`). The last notification of a message in
  an inbox is found with the well-foundedness of strict inclusion, as induction on data is
  out of the prover's reach.
- One lemma for each kind of step says that the invariant is kept, one that the step
  maps to a step of `EventDelivery` or changes nothing there.

`MessageStoreProofs`, for any number of readers, writers and messages and any length of
the list:

- `StoreTypeCorrect`: `Spec => []TypeOK`.
- `CoherentCache`: `Spec => []CoherentUnlessDisturbed`. `Calm` says what holds in between while
  nothing was disturbed: at most one user of the list is at work (`Alone`), the list is
  a beginning of the chat (`ListRight`) and has all of it unless it is full
  (`ListWhole`), up to the one entry or the one change that the user at work has
  still to make (`ReadersOK`, `WritersOK`).

- `DuplicationIsBounded`: `Spec => []BoundedDuplication`. `BoundedDuplication` counts what is in
  the list and is not inductive: nothing in it limits who is about to add. `Budget` counts
  those too: the places of a message in the list, the readers that are filling the list
  and the push of the message that is still to come are together no more than the
  readers, one push and the failures. A reader that finds the list empty starts to fill
  when the message has no place in it, so that there is room for all readers; one that
  starts on a failure brings the room along; `RPUSH` turns its claim into one place,
  because what it has read holds each message once (`EntriesAreStored`), and `RPUSHX` does
  the same for the writer (`OnePushEach`).

`ChatViewProofs`, for any number of chats, messages, changes and moves, and cached lists of
any length:

- `TypeCorrect`, on the way to which `FramesOK` and `NotesOK` say that what a frame or a
  notification names is stored and of the chat it says.
- `PageShowsTheChat`, `PageShowsInOrder`, `PageShowsOnlyTheChat`: `Spec => []ShowsTheChat`,
  `[]ShowsInOrder` and `[]ShowsOnlyTheChat`. They speak of a page that has swapped in all it was sent,
  the invariant of one that has not. The frames on the wire and, behind them, the
  notifications in the queue are counted as one list of news (`Told`, `News`), which
  `HandleEvent` leaves as it is, a swap shortens by one and a window on the wire only
  splits. `NewsOK`: the news of a message come in the order of its versions and end with
  the stored one, new messages in the order of their insertion. `PageInv` looks at the
  last window, on the page or still on the wire (`Latest`), and at what comes after it
  (`Coming`): each message of the chat is in its list, to be brought up to date by what is
  coming, or will be appended (`ListOK`). `SendInv` says it of the window between
  `GetMessages` and `Send`, where no news of a message are left to come unless they crossed it.
  A message that a cached list gives amiss is among the crossed ones from the start; of the
  others the list is what `Stored` would have been.
  Frames before the last window need no invariant: they go with the old window.
- A lemma each says what a swap, an append, a mark and a stored change do to `ListOK`; `StoredLists`
  that `Stored` lists each message of the chat once, in their order.
- `UnreadChatIsMarked`: `Spec => []UnreadIsMarked`. `UnreadInv`: the mark of an unread chat is in
  the list or on the wire, and no later window on the wire is of that chat or takes its
  mark away. A window that has still to be sent does neither, since the chats it is about
  are not unread.

`FileUploadProofs`, for any number of uploads and faults:

- `TypeCorrect`; `NamesDistinct`: `Spec => []NamesAreDistinct`. `CounterIsAhead`: no name lies in
  the future of the clock, and those of the current second are below the counter.
- `AnswersAreTrue`: `Spec => []AnswerIsTrue`. `FilesAreNamed` ties what is on the disk or open to
  the name of a request, `OwnFile` says how far a request with a name of its own has
  come with its file, unless the file system failed it (`ignored`), `Told` that the webapp goes by the answer.

`AccountsProofs`, for any number of requests, webapps, browsers, names and passwords:

- `TypeCorrect`; `OneUserPerName`: who is about to insert found the name free, and it
  still is unless another registration of that name was under way.
- `RightPassword`: a user that was there when the form came is there for good, and is
  the only one of that name without a race.
- `ActsAsLoggedIn`: `SessionsInv` follows a session from the login that makes
  it over the cookie to the context of a visit. The middle of a login is not reached by a
  visit because no browser has the cookie yet (`CookiesOK`).

All of them rest on the constants' assumptions alone (`ConstantsAssumption`,
`NamesAssumption`, `ItemsAssumption`, `BoundsAssumption`, `ReadersAssumption`, `ViewAssumption`,
`UploadAssumption`, `AccountsAssumption`), which TLC evaluates in every run of these modules.
`ReadersAssumption`, that there are finitely many readers, is what makes
`BoundedDuplication` mean something: it counts them.

Only model-checked: the liveness properties (`EveryEventHandled`, `StoredIsShown`,
`LostIsRecovered`, `EveryCallReturns`, `EveryNoteIsFinished`, `EveryUploadReturns`,
`EveryPumpEnds`). Liveness under fairness and `ENABLED` are beyond the prover and stay with
TLC. Every safety property of the passing runs is a theorem.

## Findings

- `rabbitmq.go:138-140` says that the loop reconnects when the connection was not
  closed gracefully. A connection lost while the loop is not waiting in
  `NotifyClose` (during the setup at 166-179, or before the first call) is taken
  for a graceful close at 142-146 and the loop ends; publishers and consumers stay
  dead. `RabbitClientLoopEnds` shows the shortest case, a first connection that is lost before
  the loop first calls `NotifyClose`, and `LoopEndsOnlyWhenClosedOrUnwatched`
  shows that this is the only way.

Seen while modelling and contradicted by no document: a session's second connection
takes the first one's place and takes the registration with it when it ends; a
client of a session is never registered in chats announced after it connected;
nothing sorts the messages of a window; `LTRIM 0 99` keeps the oldest entries, so that new messages of a long chat are
missing from cache hits; entries of disconnected clients outlive their connection in
the chats that were not current; a message that crosses a window can be missing from
the page, there twice or out of date until the next window; a chat without a name, which
`CreateChat` accepts, panics where its list item is rendered (`chat.templ:360`); an upload
whose client gave up stays on the disk with no message that names it; an error of the
store at login is answered as a wrong password; a registration that failed after the
insert has taken the name; a message or chat whose insert took effect without a reply is told to
nobody; a webapp that could not read its chats when it started runs without them; a
chat of more than 100 messages is shown without its newest ones when the cache is hit;
a refused upload whose file cannot be removed leaves it.

## Plan

Done: the pipeline, the hub, the RabbitMQ client and the store; then the page, the upload
and the accounts; the abstract promise of the pipeline and its refinement; proofs of
the safety properties of all modules, as listed above.

What is left: chats announced while a page loads, that is `ChatView` with a growing set of
chats.

## Not modelled

- `handler.updateMessage` and `SaveMessage`'s update of an existing message: nothing
  publishes the event, nothing passes an id. `Hub.DisconnectClient`, `GetSessions` and
  `GetSessionByID` have no caller either.
- Handlers and store calls that only read and render: the home page, the login and
  error pages, `GetMessage` with its edit form and context menu.
- The copy of a user in Redis beyond the step that can fail: nothing updates a user,
  so the copy cannot be wrong.
- A broker that restarts and loses transient messages: the code has no step that could
  notice.
- Logging, configuration, nginx, compose files, style sheets and scrolling: no state
  that another part depends on.
