---------------------------- MODULE RabbitClient ----------------------------
(***************************************************************************)
(* The reconnecting RabbitMQ client (internal/rabbitmq).  Two goroutines   *)
(* share it: the application's, which registers publishers and consumers   *)
(* one after the other, and the reconnecting loop that Dial starts, which  *)
(* waits for the connection to close and then dials again and sets every   *)
(* registered publisher and consumer up on the new connection.             *)
(*                                                                         *)
(* Connections are numbered in the order they are made.  The client of the *)
(* library (amqp091) is modelled as this code uses it: a receiver given to *)
(* NotifyClose gets the reason of a loss, nothing at all after a graceful  *)
(* close (the channel is just closed), and is closed at once when the      *)
(* connection is already gone.                                             *)
(***************************************************************************)
EXTENDS Naturals, Sequences, FiniteSets

CONSTANTS
    Publishers,
    Consumers,
    MaxConns        \* bound: connections made

Items == Publishers \cup Consumers

ASSUME ItemsAssumption ==
    /\ Publishers \cap Consumers = {}
    /\ MaxConns \in Nat \ {0}

VARIABLES
    dialled,     \* connections made so far
    status,      \* status[k]: unused, open, lost or closed (gracefully)
    conn,        \* Client.conn, 0 when nil
    loop,        \* the reconnecting loop: notify, wait, dial, publishers,
                 \* consumers, exit; panic when the process has ended in one
    todo,        \* items the loop's `range` has still to set up
    stage,       \* stage[i]: new, setup (not appended yet), listed, failed
    channel,     \* channel[i]: the connection i's channel is on, 0 when it is
                 \* nil or the broker has closed it
    subs,        \* subs[c]: connections c.setup has started a goroutine on
    failedOn,    \* history: failedOn[i]: the connection of i's last failed setup
    overlapped,  \* history: items whose registration overlapped a recovery
    unwatched    \* history: a connection was lost outside loop = "wait"

vars == <<dialled, status, conn, loop, todo, stage, channel, subs, failedOn,
          overlapped, unwatched>>

Conns == 1..MaxConns
Listed(S) == {i \in S : stage[i] = "listed"}
Registering == {i \in Items : stage[i] = "setup"}
IsOpen(k) == k # 0 /\ status[k] = "open"

\* Dial has made the first connection and started the loop.
Init ==
    /\ dialled = 1
    /\ status = [k \in Conns |-> IF k = 1 THEN "open" ELSE "unused"]
    /\ conn = 1
    /\ loop = "notify"
    /\ todo = {}
    /\ stage = [i \in Items |-> "new"]
    /\ channel = [i \in Items |-> 0]
    /\ subs = [c \in Consumers |-> <<>>]
    /\ failedOn = [i \in Items |-> 0]
    /\ overlapped = {}
    /\ unwatched = FALSE

-----------------------------------------------------------------------------
(* Publisher.setup and Consumer.setup on Client.conn.                      *)

MutantSetupOK(i) ==
    /\ channel' = [channel EXCEPT ![i] = conn]
    /\ subs' = IF i \in Consumers THEN [subs EXCEPT ![i] = Append(@, conn)] ELSE subs
    /\ UNCHANGED failedOn

SetupOK(i) ==
    /\ IsOpen(conn)
    /\ channel' = [channel EXCEPT ![i] = conn]
    /\ subs' = IF i \in Consumers THEN [subs EXCEPT ![i] = Append(@, conn)] ELSE subs
    /\ UNCHANGED failedOn

\* The connection is nil or gone, or the broker refuses the channel or what is
\* declared on it.  A publisher has lost its channel by then; a consumer is left
\* as it was.
SetupFails(i) ==
    /\ channel' = IF i \in Publishers THEN [channel EXCEPT ![i] = 0] ELSE channel
    /\ failedOn' = [failedOn EXCEPT ![i] = conn]
    /\ UNCHANGED subs

-----------------------------------------------------------------------------
(* The application.                                                        *)

\* NewPublisher and RegisterConsumer set the item up first ...
StartRegistration(i) ==
    /\ stage[i] = "new"
    /\ Registering = {}
    /\ \/ SetupOK(i) /\ stage' = [stage EXCEPT ![i] = "setup"]
       \/ SetupFails(i) /\ stage' = [stage EXCEPT ![i] = "failed"]
    /\ overlapped' = IF loop \in {"notify", "wait"} /\ IsOpen(conn)
                     THEN overlapped ELSE overlapped \cup {i}
    /\ UNCHANGED <<dialled, status, conn, loop, todo, unwatched>>

\* ... and append it to the client's list afterwards.
FinishRegistration(i) ==
    /\ stage[i] = "setup"
    /\ stage' = [stage EXCEPT ![i] = "listed"]
    /\ UNCHANGED <<dialled, status, conn, loop, todo, channel, subs, failedOn,
                   overlapped, unwatched>>

\* Close on a connection that is gone already changes nothing; after a dial that
\* failed the connection is nil, and the program ends in a panic.
Close ==
    /\ \/ /\ IsOpen(conn)
          /\ status' = [status EXCEPT ![conn] = "closed"]
          /\ UNCHANGED loop
       \/ /\ conn = 0
          /\ loop' = "panic"
          /\ UNCHANGED status
    /\ UNCHANGED <<dialled, conn, todo, stage, channel, subs, failedOn, overlapped,
                   unwatched>>

-----------------------------------------------------------------------------
(* The reconnecting loop.                                                  *)

\* The receiver is registered, or closed at once on a connection that is gone.
NotifyClose ==
    /\ loop = "notify"
    /\ loop' = IF IsOpen(conn) THEN "wait" ELSE "exit"
    /\ UNCHANGED <<dialled, status, conn, todo, stage, channel, subs, failedOn,
                   overlapped, unwatched>>

MutantCloseNotified ==
    /\ loop = "wait"
    /\ \/ status[conn] = "lost" /\ loop' = "exit"
       \/ status[conn] = "closed" /\ loop' = "exit"
    /\ UNCHANGED <<dialled, status, conn, todo, stage, channel, subs, failedOn,
                   overlapped, unwatched>>

CloseNotified ==
    /\ loop = "wait"
    /\ \/ status[conn] = "lost" /\ loop' = "dial"
       \/ status[conn] = "closed" /\ loop' = "exit"
    /\ UNCHANGED <<dialled, status, conn, todo, stage, channel, subs, failedOn,
                   overlapped, unwatched>>

DialFails ==
    /\ loop = "dial"
    /\ conn' = 0
    /\ UNCHANGED <<dialled, status, loop, todo, stage, channel, subs, failedOn,
                   overlapped, unwatched>>

DialOK ==
    /\ loop = "dial"
    /\ dialled < MaxConns
    /\ dialled' = dialled + 1
    /\ conn' = dialled + 1
    /\ status' = [status EXCEPT ![dialled + 1] = "open"]
    /\ loop' = "publishers"
    /\ todo' = Listed(Publishers)
    /\ UNCHANGED <<stage, channel, subs, failedOn, overlapped, unwatched>>

MutantSetupNext(i) ==
    /\ loop \in {"publishers", "consumers"}
    /\ i \in todo
    /\ \/ SetupOK(i) /\ todo' = todo \ {i}
       \/ SetupFails(i) /\ todo' = todo \ {i}
       \/ SetupOK(i) /\ UNCHANGED todo
    /\ UNCHANGED <<dialled, status, conn, loop, stage, overlapped, unwatched>>

\* An item that cannot be set up is logged and left.
SetupNext(i) ==
    /\ loop \in {"publishers", "consumers"}
    /\ i \in todo
    /\ SetupOK(i) \/ SetupFails(i)
    /\ todo' = todo \ {i}
    /\ UNCHANGED <<dialled, status, conn, loop, stage, overlapped, unwatched>>

MutantNextRange ==
    /\ todo = {}
    /\ \/ loop = "publishers" /\ loop' = "notify"
       \/ loop = "consumers" /\ loop' = "notify"
    /\ UNCHANGED <<dialled, status, conn, todo, stage, channel, subs, failedOn,
                   overlapped, unwatched>>

\* `range` takes the list as it is when the loop over it starts.
NextRange ==
    /\ todo = {}
    /\ \/ loop = "publishers" /\ loop' = "consumers" /\ todo' = Listed(Consumers)
       \/ loop = "consumers" /\ loop' = "notify" /\ UNCHANGED todo
    /\ UNCHANGED <<dialled, status, conn, stage, channel, subs, failedOn,
                   overlapped, unwatched>>

-----------------------------------------------------------------------------
(* The environment.                                                        *)

Lose ==
    /\ IsOpen(conn)
    /\ status' = [status EXCEPT ![conn] = "lost"]
    /\ overlapped' = overlapped \cup Registering
    /\ unwatched' = (unwatched \/ loop # "wait")
    /\ UNCHANGED <<dialled, conn, loop, todo, stage, channel, subs, failedOn>>

-----------------------------------------------------------------------------
Next ==
    /\ loop # "panic"
    /\ \/ \E i \in Items : StartRegistration(i) \/ FinishRegistration(i)
       \/ Close
       \/ NotifyClose
       \/ CloseNotified
       \/ DialFails
       \/ DialOK
       \/ \E i \in Items : SetupNext(i)
       \/ NextRange
       \/ Lose

Spec == Init /\ [][Next]_vars

\* The loop is never blocked but by NotifyClose and the network: the goroutine
\* runs, and a broker that is dialled every second for ever accepts in the end.
Fairness ==
    /\ WF_vars(NotifyClose) /\ WF_vars(CloseNotified)
    /\ WF_vars(DialOK)
    /\ WF_vars(\E i \in Items : SetupNext(i))
    /\ WF_vars(NextRange)

FairSpec == Spec /\ Fairness

-----------------------------------------------------------------------------
(* Properties.                                                             *)

TypeOK ==
    /\ dialled \in Conns
    /\ status \in [Conns -> {"unused", "open", "lost", "closed"}]
    /\ conn \in 0..MaxConns
    /\ loop \in {"notify", "wait", "dial", "publishers", "consumers", "exit", "panic"}
    /\ todo \subseteq Items
    /\ stage \in [Items -> {"new", "setup", "listed", "failed"}]
    /\ channel \in [Items -> 0..MaxConns]
    /\ subs \in [Consumers -> Seq(Conns)]
    /\ failedOn \in [Items -> 0..MaxConns]
    /\ overlapped \subseteq Items
    /\ unwatched \in BOOLEAN

\* "When connection to rabbit closed not gracefully it tries to reconnect"
\* (rabbitmq.go:139): the loop ends only when the connection was closed.
LoopEndsOnlyWhenClosed == loop = "exit" => status[conn] = "closed"

\* The one way the loop gives up on a connection that was not closed: it was
\* lost while the loop was not waiting for that (rabbitmq.go:142, 151-180).
LoopEndsOnlyWhenClosedOrUnwatched ==
    loop = "exit" => status[conn] = "closed" \/ unwatched

\* Once the loop waits again on an open connection, every publisher and consumer
\* is set up on that connection: none is left on an older one, or without a
\* channel, because of an earlier connection (rabbitmq.go:166-179).  Excepted are
\* those whose setup failed on this very connection, which the code does not
\* repeat before the next one (the note at rabbitmq.go:161-164), and those that
\* were being registered during a recovery or a loss.
RecoveredOnCurrentConnection ==
    loop = "wait" /\ IsOpen(conn)
        => \A i \in Listed(Items) \ overlapped :
              channel[i] = conn \/ failedOn[i] = conn

\* The goroutines that c.setup has started on connection k.
Goroutines(c, k) == {n \in DOMAIN subs[c] : subs[c][n] = k}

\* A consumer has one goroutine on a connection, however often it is set up: two
\* would handle the deliveries of one queue side by side.  A consumer that was
\* being registered during a recovery or a loss may have two, one started by
\* RegisterConsumer and one by the loop (rabbitmq.go:175-179, 217-221), and never
\* has three.
OneGoroutinePerConnection ==
    \A c \in Consumers, k \in Conns :
        /\ c \notin overlapped => \A m, n \in Goroutines(c, k) : m = n
        /\ \A l, m, n \in Goroutines(c, k) : l = m \/ m = n \/ l = n

\* A connection lost while the loop waits is replaced, and the loop waits again,
\* unless the new one is lost or closed during the recovery or Close ends the
\* process.
LostIsRecovered ==
    \A k \in 1..(MaxConns - 1) :
        loop = "wait" /\ conn = k /\ status[k] = "lost"
            ~> \/ loop = "wait" /\ conn > k
               \/ unwatched \/ loop = "panic"
               \/ \E j \in Conns : status[j] = "closed"
=============================================================================
