------------------------- MODULE RabbitClientProofs -------------------------
(***************************************************************************)
(* Theorems about RabbitClient, for any number of publishers, consumers    *)
(* and connections.                                                        *)
(***************************************************************************)
EXTENDS RabbitClient, TLAPS

LEMMA InitTypeOK == Init => TypeOK
<1> SUFFICES ASSUME Init PROVE TypeOK
  OBVIOUS
<1>1. 1 \in Conns
  BY ItemsAssumption DEF Conns
<1>2. subs \in [Consumers -> Seq(Conns)]
  BY DEF Init
<1>3. status \in [Conns -> {"unused", "open", "lost", "closed"}]
  BY DEF Init
<1>4. conn \in 0..MaxConns /\ channel \in [Items -> 0..MaxConns]
  BY ItemsAssumption DEF Init
<1>5. failedOn \in [Items -> 0..MaxConns]
  BY ItemsAssumption DEF Init
<1> QED
  BY <1>1, <1>2, <1>3, <1>4, <1>5 DEF Init, TypeOK

LEMMA SetupType ==
    ASSUME TypeOK, NEW i \in Items, SetupOK(i) \/ SetupFails(i)
    PROVE  /\ channel' \in [Items -> 0..MaxConns]
           /\ subs' \in [Consumers -> Seq(Conns)]
           /\ failedOn' \in [Items -> 0..MaxConns]
<1>1. CASE SetupOK(i)
  <2>1. conn \in Conns
    BY <1>1, ItemsAssumption DEF SetupOK, IsOpen, TypeOK, Conns
  <2>2. channel' \in [Items -> 0..MaxConns] /\ failedOn' \in [Items -> 0..MaxConns]
    BY <1>1 DEF SetupOK, TypeOK
  <2>3. CASE i \in Consumers
    <3>1. Append(subs[i], conn) \in Seq(Conns)
      BY <2>1, <2>3 DEF TypeOK
    <3>2. subs' = [subs EXCEPT ![i] = Append(subs[i], conn)]
      BY <1>1, <2>3 DEF SetupOK
    <3> QED
      BY <2>2, <3>1, <3>2 DEF TypeOK
  <2>4. CASE i \notin Consumers
    BY <1>1, <2>2, <2>4 DEF SetupOK, TypeOK
  <2> QED
    BY <2>3, <2>4
<1>2. CASE SetupFails(i)
  BY <1>2, ItemsAssumption DEF SetupFails, TypeOK
<1> QED
  BY <1>1, <1>2

LEMMA StepTypeOK == TypeOK /\ [Next]_vars => TypeOK'
<1> SUFFICES ASSUME TypeOK, [Next]_vars
             PROVE  TypeOK'
  OBVIOUS
<1>1. ASSUME NEW i \in Items, StartRegistration(i)
      PROVE  TypeOK'
  <2>1. /\ channel' \in [Items -> 0..MaxConns] /\ subs' \in [Consumers -> Seq(Conns)]
        /\ failedOn' \in [Items -> 0..MaxConns]
    BY <1>1, SetupType DEF StartRegistration
  <2> QED
    BY <1>1, <2>1 DEF StartRegistration, TypeOK
<1>2. ASSUME NEW i \in Items, FinishRegistration(i)
      PROVE  TypeOK'
  BY <1>2 DEF FinishRegistration, TypeOK
<1>3. CASE Close
  BY <1>3 DEF Close, TypeOK
<1>4. CASE NotifyClose \/ CloseNotified \/ NextRange
  BY <1>4 DEF NotifyClose, CloseNotified, NextRange, TypeOK, Listed, Items
<1>5. CASE DialFails
  BY <1>5, ItemsAssumption DEF DialFails, TypeOK
<1>6. CASE DialOK
  BY <1>6, ItemsAssumption DEF DialOK, TypeOK, Listed, Items, Conns
<1>7. ASSUME NEW i \in Items, SetupNext(i)
      PROVE  TypeOK'
  <2>1. /\ channel' \in [Items -> 0..MaxConns] /\ subs' \in [Consumers -> Seq(Conns)]
        /\ failedOn' \in [Items -> 0..MaxConns]
    BY <1>7, SetupType DEF SetupNext
  <2> QED
    BY <1>7, <2>1 DEF SetupNext, TypeOK
<1>8. CASE Lose
  BY <1>8 DEF Lose, TypeOK, Registering
<1>9. CASE UNCHANGED vars
  BY <1>9 DEF vars, TypeOK
<1> QED
  BY <1>1, <1>2, <1>3, <1>4, <1>5, <1>6, <1>7, <1>8, <1>9 DEF Next

\* Every variable of the client keeps its type, however often the connection is
\* lost and whenever items are registered.
THEOREM ClientTypeCorrect == Spec => []TypeOK
BY InitTypeOK, StepTypeOK, PTL DEF Spec

-----------------------------------------------------------------------------
(* Where the loop gives up.                                                *)

\* Outside its wait the loop works on a connection that is open, was closed, or
\* was lost with nobody watching.
AtWorkOnConn ==
    loop \in {"notify", "publishers", "consumers"}
        => conn # 0 /\ (status[conn] \in {"open", "closed"} \/ unwatched)

LoopInv == LoopEndsOnlyWhenClosedOrUnwatched /\ AtWorkOnConn

LEMMA InitLoopInv == Init => LoopInv
BY ItemsAssumption DEF Init, LoopInv, LoopEndsOnlyWhenClosedOrUnwatched, AtWorkOnConn, Conns

LEMMA StepLoopInv == TypeOK /\ LoopInv /\ [Next]_vars => LoopInv'
<1> SUFFICES ASSUME TypeOK, LoopInv, [Next]_vars
             PROVE  LoopInv'
  OBVIOUS
<1> USE DEF LoopInv, LoopEndsOnlyWhenClosedOrUnwatched, AtWorkOnConn
<1>1. CASE \E i \in Items :
             StartRegistration(i) \/ FinishRegistration(i) \/ SetupNext(i)
  BY <1>1 DEF StartRegistration, FinishRegistration, SetupNext
<1>2. CASE Close
  BY <1>2 DEF Close, IsOpen, TypeOK
<1>3. CASE NotifyClose
  BY <1>3 DEF NotifyClose, IsOpen
<1>4. CASE CloseNotified
  BY <1>4 DEF CloseNotified
<1>5. CASE DialFails
  BY <1>5 DEF DialFails
<1>6. CASE DialOK
  <2>1. dialled + 1 \in Conns /\ dialled + 1 # 0
    BY <1>6, ItemsAssumption DEF DialOK, TypeOK, Conns
  <2> QED
    BY <1>6, <2>1 DEF DialOK, TypeOK
<1>7. CASE NextRange
  BY <1>7 DEF NextRange
<1>8. CASE Lose
  BY <1>8 DEF Lose, IsOpen, TypeOK
<1>9. CASE UNCHANGED vars
  BY <1>9 DEF vars
<1> QED
  BY <1>1, <1>2, <1>3, <1>4, <1>5, <1>6, <1>7, <1>8, <1>9 DEF Next

\* The reconnecting loop never gives up on a lost connection as long as every
\* loss hits it while it waits in NotifyClose (rabbitmq.go:142): whatever is
\* registered, closed or lost, in any order.
THEOREM LoopGivesUpOnlyUnwatched == Spec => []LoopEndsOnlyWhenClosedOrUnwatched
<1>1. LoopInv => LoopEndsOnlyWhenClosedOrUnwatched
  BY DEF LoopInv
<1> QED
  BY <1>1, InitLoopInv, StepLoopInv, ClientTypeCorrect, PTL DEF Spec

-----------------------------------------------------------------------------
(* What a recovery leaves behind.                                          *)

\* The loop sets items up again.
AtWork == loop \in {"publishers", "consumers"}

\* The loop only works on listed items, on the last connection that was made.
RangeOK ==
    /\ conn \in {0, dialled}
    /\ todo \subseteq Listed(Items)
    /\ loop = "publishers" => todo \subseteq Publishers

\* c's turn in this recovery is still to come.
Pending(c) == loop = "publishers" \/ (loop = "consumers" /\ c \in todo)

\* No goroutine is on a connection that was not made, none belongs to a consumer
\* that was not registered, and before c's turn there is none on the new connection
\* or, when c was registered during the recovery, the one of its registration.
SubsOK ==
    \A c \in Consumers :
        /\ \A m \in DOMAIN subs[c] : subs[c][m] <= dialled
        /\ stage[c] = "new" => subs[c] = <<>>
        /\ Pending(c) =>
             \A m, n \in DOMAIN subs[c] :
                subs[c][m] = conn => c \in overlapped /\ (subs[c][n] = conn => m = n)

\* OneGoroutinePerConnection of consumer c, place by place.
Few(c) ==
    \A l, m, n \in DOMAIN subs[c] :
        /\ c \notin overlapped /\ subs[c][m] = subs[c][n] => m = n
        /\ subs[c][l] = subs[c][m] /\ subs[c][m] = subs[c][n] => l = m \/ m = n \/ l = n

SubsInv == RangeOK /\ SubsOK /\ \A c \in Consumers : Few(c)

LEMMA InitSubsInv == Init => SubsInv
<1> SUFFICES ASSUME Init PROVE SubsInv
  OBVIOUS
<1>1. \A c \in Consumers : subs[c] = <<>> /\ DOMAIN subs[c] = {}
  BY DEF Init
<1> QED
  BY <1>1 DEF Init, SubsInv, RangeOK, SubsOK, Pending, Few

\* Setting up a consumer that has no goroutine on the connection, or the one of a
\* registration during the recovery.
LEMMA FreshSetup ==
    ASSUME TypeOK, SubsInv, NEW c \in Consumers, SetupOK(c), dialled' = dialled,
           conn' = conn, c \in overlapped => c \in overlapped',
           \A m, n \in DOMAIN subs[c] :
              subs[c][m] = conn => c \in overlapped /\ (subs[c][n] = conn => m = n)
    PROVE  /\ \A d \in Consumers \ {c} : subs'[d] = subs[d]
           /\ \A m \in DOMAIN subs'[c] : subs'[c][m] <= dialled
           /\ Few(c)'
<1>1. subs' = [subs EXCEPT ![c] = Append(subs[c], conn)]
  BY DEF SetupOK
<1>2. subs'[c] = Append(subs[c], conn) /\ \A d \in Consumers \ {c} : subs'[d] = subs[d]
  BY <1>1 DEF TypeOK
<1>3. PICK s \in Seq(Conns) : s = subs[c]
  BY DEF TypeOK
<1>4. conn = dialled /\ conn \in Nat
  BY ItemsAssumption DEF SetupOK, IsOpen, SubsInv, RangeOK, TypeOK, Conns
<1>5. /\ DOMAIN Append(s, conn) = DOMAIN s \cup {Len(s) + 1}
      /\ \A m \in DOMAIN s : Append(s, conn)[m] = s[m]
      /\ Append(s, conn)[Len(s) + 1] = conn
  BY <1>3, <1>4, SMTT(30)
<1>6. \A m \in DOMAIN s : s[m] <= dialled
  BY <1>3 DEF SubsInv, SubsOK
<1>7. Few(c)
  BY DEF SubsInv
<1>8. PICK t : t = Append(s, conn)
  OBVIOUS
<1>9. PICK e : e = Len(s) + 1
  OBVIOUS
<1>10. /\ DOMAIN t = DOMAIN s \cup {e} /\ t[e] = conn
       /\ \A m \in DOMAIN s : t[m] = s[m]
  BY <1>5, <1>8, <1>9
<1>11. \A m, n \in DOMAIN s :
          s[m] = conn => c \in overlapped /\ (s[n] = conn => m = n)
  BY <1>3
<1>12. \A l, m, n \in DOMAIN s :
          /\ c \notin overlapped /\ s[m] = s[n] => m = n
          /\ s[l] = s[m] /\ s[m] = s[n] => l = m \/ m = n \/ l = n
  BY <1>3, <1>7 DEF Few
<1>13. \A l, m, n \in DOMAIN t :
          /\ c \notin overlapped /\ t[m] = t[n] => m = n
          /\ t[l] = t[m] /\ t[m] = t[n] => l = m \/ m = n \/ l = n
  BY <1>10, <1>11, <1>12
<1>14. Few(c)'
  BY <1>2, <1>3, <1>8, <1>13 DEF Few
<1>15. \A m \in DOMAIN subs'[c] : subs'[c][m] <= dialled
  BY <1>2, <1>3, <1>4, <1>5, <1>6
<1> QED
  BY <1>2, <1>14, <1>15

LEMMA StepSubsInv == TypeOK /\ LoopInv /\ SubsInv /\ [Next]_vars => SubsInv'
<1> SUFFICES ASSUME TypeOK, LoopInv, SubsInv, [Next]_vars
             PROVE  SubsInv'
  OBVIOUS
<1>0. \A c \in Consumers : subs[c] \in Seq(Conns)
  BY DEF TypeOK
<1>1. ASSUME NEW i \in Items, StartRegistration(i)
      PROVE  SubsInv'
  <2>1. RangeOK'
    BY <1>1 DEF StartRegistration, SubsInv, RangeOK, Listed, TypeOK
  <2>2. CASE i \in Consumers /\ SetupOK(i)
    <3>1. subs[i] = <<>> /\ DOMAIN subs[i] = {}
      BY <1>1, <2>2 DEF StartRegistration, SubsInv, SubsOK
    <3>2. Pending(i)' => i \in overlapped'
      BY <1>1 DEF StartRegistration, Pending, Items
    <3>3. stage'[i] # "new" /\ \A d \in Consumers \ {i} : stage'[d] = stage[d]
      BY <1>1, <2>2 DEF StartRegistration, TypeOK, Items
    <3>4. overlapped \subseteq overlapped' /\ (\A d \in Consumers : Pending(d)' <=> Pending(d))
      BY <1>1 DEF StartRegistration, Pending
    <3>5. /\ \A d \in Consumers \ {i} : subs'[d] = subs[d]
          /\ \A m \in DOMAIN subs'[i] : subs'[i][m] <= dialled
          /\ Few(i)'
      BY <1>1, <2>2, <3>1, FreshSetup DEF StartRegistration
    <3>6. dialled' = dialled /\ conn' = conn
      BY <1>1 DEF StartRegistration
    <3>7. \A m, n \in DOMAIN subs'[i] : m = n
      <4>1. subs'[i] = Append(<<>>, conn)
        BY <2>2, <3>1 DEF SetupOK, TypeOK
      <4> QED
        BY <4>1
    <3> QED
      BY <2>1, <3>2, <3>3, <3>4, <3>5, <3>6, <3>7
      DEF SubsInv, SubsOK, Few
  <2>3. CASE i \notin Consumers \/ ~ SetupOK(i)
    <3>1. subs' = subs
      BY <1>1, <2>3 DEF StartRegistration, SetupOK, SetupFails
    <3>2. \A d \in Consumers : stage'[d] = "new" => stage[d] = "new"
      BY <1>1 DEF StartRegistration, TypeOK, Items
    <3> QED
      BY <1>1, <2>1, <3>1, <3>2
      DEF StartRegistration, SubsInv, SubsOK, Pending, Few
  <2> QED
    BY <2>2, <2>3
<1>2. ASSUME NEW i \in Items, FinishRegistration(i)
      PROVE  SubsInv'
  <2>1. RangeOK'
    BY <1>2 DEF FinishRegistration, SubsInv, RangeOK, Listed, TypeOK
  <2>2. \A d \in Consumers : stage'[d] = "new" => stage[d] = "new"
    BY <1>2 DEF FinishRegistration, TypeOK, Items
  <2> QED
    BY <1>2, <2>1, <2>2
    DEF FinishRegistration, SubsInv, SubsOK, Pending, Few
<1>3. CASE Close \/ Lose
  BY <1>3 DEF Close, Lose, SubsInv, RangeOK, Listed, SubsOK, Pending, Few
<1>4. CASE NotifyClose \/ CloseNotified
  BY <1>4 DEF NotifyClose, CloseNotified, SubsInv, RangeOK, Listed, SubsOK, Pending,
              Few
<1>5. CASE DialFails
  BY <1>5 DEF DialFails, SubsInv, RangeOK, Listed, SubsOK, Pending, Few
<1>6. CASE DialOK
  <2>1. dialled \in Nat /\ dialled' = dialled + 1 /\ conn' = dialled + 1
    BY <1>6, ItemsAssumption DEF DialOK, TypeOK, Conns
  <2>2. RangeOK'
    BY <1>6, <2>1 DEF DialOK, RangeOK, Listed, Items
  <2>3. \A c \in Consumers : \A m \in DOMAIN subs[c] :
            subs[c][m] \in Nat /\ subs[c][m] <= dialled
    BY <1>0, ItemsAssumption DEF SubsInv, SubsOK, Conns
  <2>4. \A c \in Consumers : \A m \in DOMAIN subs[c] :
            subs[c][m] <= dialled' /\ subs[c][m] # conn'
    BY <2>1, <2>3
  <2>5. subs' = subs /\ stage' = stage /\ overlapped' = overlapped
    BY <1>6 DEF DialOK
  <2> QED
    BY <2>2, <2>4, <2>5 DEF SubsInv, SubsOK, Few
<1>7. ASSUME NEW i \in Items, SetupNext(i)
      PROVE  SubsInv'
  <2>1. RangeOK'
    BY <1>7 DEF SetupNext, SubsInv, RangeOK, Listed
  <2>2. CASE i \in Consumers /\ SetupOK(i)
    <3>1. Pending(i) /\ stage[i] = "listed"
      BY <1>7, <2>2, ItemsAssumption DEF SetupNext, SubsInv, RangeOK, Listed, Pending
    <3>2. \A m, n \in DOMAIN subs[i] :
             subs[i][m] = conn => i \in overlapped /\ (subs[i][n] = conn => m = n)
      BY <2>2, <3>1 DEF SubsInv, SubsOK
    <3>3. /\ \A d \in Consumers \ {i} : subs'[d] = subs[d]
          /\ \A m \in DOMAIN subs'[i] : subs'[i][m] <= dialled
          /\ Few(i)'
      BY <1>7, <2>2, <3>2, FreshSetup DEF SetupNext
    <3>4. ~ Pending(i)' /\ \A d \in Consumers : Pending(d)' => Pending(d)
      BY <1>7, <2>2, ItemsAssumption DEF SetupNext, SubsInv, RangeOK, Pending
    <3>5. /\ dialled' = dialled /\ conn' = conn /\ stage' = stage
          /\ overlapped' = overlapped
      BY <1>7 DEF SetupNext
    <3> QED
      BY <2>1, <3>1, <3>3, <3>4, <3>5 DEF SubsInv, SubsOK, Few
  <2>3. CASE i \notin Consumers \/ ~ SetupOK(i)
    <3>1. subs' = subs
      BY <1>7, <2>3 DEF SetupNext, SetupOK, SetupFails
    <3>2. \A d \in Consumers : Pending(d)' => Pending(d)
      BY <1>7 DEF SetupNext, Pending
    <3> QED
      BY <1>7, <2>1, <3>1, <3>2 DEF SetupNext, SubsInv, SubsOK, Few
  <2> QED
    BY <2>2, <2>3
<1>8. CASE NextRange
  <2>1. RangeOK'
    BY <1>8 DEF NextRange, SubsInv, RangeOK, Listed, Items
  <2>2. \A d \in Consumers : Pending(d)' => Pending(d)
    BY <1>8 DEF NextRange, Pending
  <2> QED
    BY <1>8, <2>1, <2>2 DEF NextRange, SubsInv, SubsOK, Few
<1>9. CASE UNCHANGED vars
  BY <1>9 DEF vars, SubsInv, RangeOK, Listed, SubsOK, Pending, Few
<1> QED
  BY <1>1, <1>2, <1>3, <1>4, <1>5, <1>6, <1>7, <1>8, <1>9 DEF Next

\* However often the connection is lost during a recovery or outside one, a
\* consumer is handed the deliveries of a connection by one goroutine, and by two
\* if it was being registered during a recovery or a loss.
THEOREM OneGoroutine == Spec => []OneGoroutinePerConnection
<1>1. SubsInv => OneGoroutinePerConnection
  BY DEF SubsInv, Few, OneGoroutinePerConnection, Goroutines
<1>2. TypeOK /\ LoopInv /\ SubsInv /\ [Next]_vars => (TypeOK /\ LoopInv /\ SubsInv)'
  BY StepTypeOK, StepLoopInv, StepSubsInv
<1>3. Init => TypeOK /\ LoopInv /\ SubsInv
  BY InitTypeOK, InitLoopInv, InitSubsInv
<1> QED
  BY <1>1, <1>2, <1>3, PTL DEF Spec

\* A registration that has begun does not survive a loss unnoticed: from the loss
\* on it counts as overlapped.
NoneUnderWay ==
    AtWork \/ loop = "dial" \/ (loop \in {"notify", "wait"} /\ status[conn] = "lost")
        => Registering \subseteq overlapped

\* The loop has still to come to i.
Awaits(i) == (AtWork /\ i \in todo) \/ (loop = "publishers" /\ i \in Consumers)

\* While the connection is open, an item is on it, or failed there, or the loop has
\* still to come.
OnCurrent ==
    AtWork \/ loop \in {"notify", "wait"} =>
        (IsOpen(conn) =>
            \A i \in Items \ overlapped :
                stage[i] \in {"setup", "listed"} =>
                    channel[i] = conn \/ failedOn[i] = conn \/ Awaits(i))

RecoveryInv == NoneUnderWay /\ OnCurrent

LEMMA InitRecoveryInv == Init => RecoveryInv
BY DEF Init, RecoveryInv, NoneUnderWay, OnCurrent, AtWork, Registering

LEMMA StepRecoveryInv ==
    TypeOK /\ LoopInv /\ SubsInv /\ RecoveryInv /\ [Next]_vars => RecoveryInv'
<1> SUFFICES ASSUME TypeOK, LoopInv, SubsInv, RecoveryInv, [Next]_vars
             PROVE  RecoveryInv'
  OBVIOUS
<1> USE DEF RecoveryInv, AtWork
<1>1. ASSUME NEW i \in Items, StartRegistration(i)
      PROVE  RecoveryInv'
  <2>1. stage' \in [Items -> {"new", "setup", "listed", "failed"}]
        /\ \A j \in Items \ {i} : stage'[j] = stage[j]
    BY <1>1 DEF StartRegistration, TypeOK
  <2>2. overlapped \subseteq overlapped'
    BY <1>1 DEF StartRegistration
  <2>3. NoneUnderWay'
    <3>1. CASE loop \in {"notify", "wait"} /\ IsOpen(conn)
      BY <1>1, <3>1 DEF StartRegistration, NoneUnderWay, IsOpen
    <3>2. CASE ~ (loop \in {"notify", "wait"} /\ IsOpen(conn))
      <4>1. i \in overlapped'
        BY <1>1, <3>2 DEF StartRegistration
      <4>2. Registering = {}
        BY <1>1 DEF StartRegistration
      <4> QED
        BY <2>1, <4>1, <4>2 DEF NoneUnderWay, Registering
    <3> QED
      BY <3>1, <3>2
  <2>4. OnCurrent'
    <3>1. CASE SetupOK(i)
      <4>1. /\ channel'[i] = conn /\ failedOn' = failedOn
            /\ \A j \in Items \ {i} : channel'[j] = channel[j]
        BY <3>1 DEF SetupOK, TypeOK
      <4>2. conn' = conn /\ status' = status /\ loop' = loop /\ todo' = todo
        BY <1>1 DEF StartRegistration
      <4> QED
        BY <2>1, <2>2, <4>1, <4>2 DEF OnCurrent, IsOpen, Awaits
    <3>2. CASE SetupFails(i) /\ stage' = [stage EXCEPT ![i] = "failed"]
      <4>1. /\ \A j \in Items \ {i} : channel'[j] = channel[j] /\ failedOn'[j] = failedOn[j]
            /\ stage'[i] = "failed"
        BY <3>2 DEF SetupFails, TypeOK
      <4>2. conn' = conn /\ status' = status /\ loop' = loop /\ todo' = todo
        BY <1>1 DEF StartRegistration
      <4> QED
        BY <2>1, <2>2, <4>1, <4>2 DEF OnCurrent, IsOpen, Awaits
    <3> QED
      BY <1>1, <3>1, <3>2 DEF StartRegistration
  <2> QED
    BY <2>3, <2>4
<1>2. ASSUME NEW i \in Items, FinishRegistration(i)
      PROVE  RecoveryInv'
  <2>1. /\ \A j \in Items : stage'[j] = "setup" => stage[j] = "setup"
        /\ \A j \in Items : stage'[j] \in {"setup", "listed"} => stage[j] \in {"setup", "listed"}
    BY <1>2 DEF FinishRegistration, TypeOK
  <2>2. NoneUnderWay'
    BY <1>2, <2>1 DEF FinishRegistration, NoneUnderWay, Registering
  <2>3. OnCurrent'
    BY <1>2, <2>1 DEF FinishRegistration, OnCurrent, IsOpen, Awaits
  <2> QED
    BY <2>2, <2>3
<1>3. CASE Close
  <2>1. CASE loop' = "panic"
    BY <2>1 DEF NoneUnderWay, OnCurrent
  <2>2. CASE IsOpen(conn) /\ status' = [status EXCEPT ![conn] = "closed"] /\ loop' = loop
    <3>1. conn \in Conns
      BY <2>2, ItemsAssumption DEF IsOpen, TypeOK, Conns
    <3>2. status'[conn] = "closed" /\ conn' = conn
      BY <1>3, <2>2, <3>1 DEF Close, TypeOK
    <3> QED
      BY <1>3, <2>2, <3>2 DEF Close, NoneUnderWay, OnCurrent, IsOpen, Registering
  <2> QED
    BY <1>3, <2>1, <2>2 DEF Close
<1>4. CASE Lose
  <2>1. conn \in Conns
    BY <1>4, ItemsAssumption DEF Lose, IsOpen, TypeOK, Conns
  <2>2. status'[conn] = "lost" /\ conn' = conn
    BY <1>4, <2>1 DEF Lose, TypeOK
  <2>3. Registering' \subseteq overlapped'
    BY <1>4 DEF Lose, Registering
  <2> QED
    BY <2>2, <2>3 DEF NoneUnderWay, OnCurrent, IsOpen
<1>5. CASE NotifyClose
  BY <1>5 DEF NotifyClose, NoneUnderWay, OnCurrent, IsOpen, Registering, Awaits
<1>6. CASE CloseNotified
  BY <1>6 DEF CloseNotified, NoneUnderWay, OnCurrent, IsOpen, Registering
<1>7. CASE DialFails
  BY <1>7 DEF DialFails, NoneUnderWay, OnCurrent, Registering
<1>8. CASE DialOK
  <2>1. Registering' \subseteq overlapped'
    BY <1>8 DEF DialOK, NoneUnderWay, Registering
  <2>2. \A i \in Items \ overlapped : stage[i] # "setup"
    BY <1>8 DEF DialOK, NoneUnderWay, Registering
  <2>3. \A i \in Items \ overlapped : stage[i] = "listed" => Awaits(i)'
    BY <1>8 DEF DialOK, Awaits, Items, Listed
  <2> QED
    BY <1>8, <2>1, <2>2, <2>3 DEF DialOK, NoneUnderWay, OnCurrent
<1>9. ASSUME NEW i \in Items, SetupNext(i)
      PROVE  RecoveryInv'
  <2>1. NoneUnderWay'
    BY <1>9 DEF SetupNext, NoneUnderWay, Registering
  <2>2. CASE SetupOK(i)
    <3>1. /\ channel'[i] = conn /\ failedOn' = failedOn
          /\ \A j \in Items \ {i} : channel'[j] = channel[j]
      BY <2>2 DEF SetupOK, TypeOK
    <3> QED
      BY <1>9, <2>1, <3>1 DEF SetupNext, OnCurrent, IsOpen, Awaits
  <2>3. CASE SetupFails(i)
    <3>1. /\ failedOn'[i] = conn
          /\ \A j \in Items \ {i} : channel'[j] = channel[j] /\ failedOn'[j] = failedOn[j]
      BY <2>3 DEF SetupFails, TypeOK
    <3> QED
      BY <1>9, <2>1, <3>1 DEF SetupNext, OnCurrent, IsOpen, Awaits
  <2> QED
    BY <1>9, <2>2, <2>3 DEF SetupNext
<1>10. CASE NextRange
  <2>1. NoneUnderWay'
    BY <1>10 DEF NextRange, NoneUnderWay, Registering
  <2>2. CASE loop = "publishers"
    <3>1. /\ loop' = "consumers" /\ todo' = Listed(Consumers) /\ todo = {}
          /\ UNCHANGED <<conn, status, stage, channel, failedOn, overlapped>>
      BY <1>10, <2>2 DEF NextRange
    <3>2. \A i \in Items \ overlapped : stage[i] # "setup"
      BY <2>2 DEF NoneUnderWay, Registering
    <3> QED
      BY <2>1, <2>2, <3>1, <3>2 DEF OnCurrent, IsOpen, Awaits, Listed
  <2>3. CASE loop = "consumers"
    <3>1. /\ loop' = "notify" /\ todo = {}
          /\ UNCHANGED <<conn, status, stage, channel, failedOn, overlapped>>
      BY <1>10, <2>3 DEF NextRange
    <3> QED
      BY <2>1, <2>3, <3>1 DEF OnCurrent, IsOpen, Awaits
  <2> QED
    BY <1>10, <2>2, <2>3 DEF NextRange
<1>11. CASE UNCHANGED vars
  BY <1>11 DEF vars, NoneUnderWay, OnCurrent, IsOpen, Awaits, Registering
<1> QED
  BY <1>1, <1>2, <1>3, <1>4, <1>5, <1>6, <1>7, <1>8, <1>9, <1>10, <1>11 DEF Next

\* A recovery that ends on an open connection leaves nothing behind on an older
\* one, for any number of losses on the way: only an item whose setup failed on
\* this connection, or whose registration the recovery overlapped, may be left.
THEOREM NothingIsLeftBehind == Spec => []RecoveredOnCurrentConnection
<1>1. RecoveryInv => RecoveredOnCurrentConnection
  BY DEF RecoveryInv, OnCurrent, RecoveredOnCurrentConnection, Awaits, AtWork, Listed
<1>2. TypeOK /\ LoopInv /\ SubsInv /\ RecoveryInv /\ [Next]_vars
          => (TypeOK /\ LoopInv /\ SubsInv /\ RecoveryInv)'
  BY StepTypeOK, StepLoopInv, StepSubsInv, StepRecoveryInv
<1>3. Init => TypeOK /\ LoopInv /\ SubsInv /\ RecoveryInv
  BY InitTypeOK, InitLoopInv, InitSubsInv, InitRecoveryInv
<1> QED
  BY <1>1, <1>2, <1>3, PTL DEF Spec
=============================================================================
