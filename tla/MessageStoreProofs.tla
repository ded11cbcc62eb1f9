------------------------- MODULE MessageStoreProofs -------------------------
(***************************************************************************)
(* Theorems about MessageStore, for any number of readers, writers and     *)
(* messages and any length of the list.                                    *)
(***************************************************************************)
EXTENDS MessageStore, FiniteSetTheorems, TLAPS

-----------------------------------------------------------------------------
(* The invariant.                                                          *)

IdleWritesNothing == \A w \in Writers : wpc[w] = "idle" => msg[w] = 0

AtMostOne(S) == \A t, u \in S : t = u

Alone == AtMostOne(Filling) /\ AtMostOne(Writing) /\ (Filling = {} \/ Writing = {})

Kept == {i \in DOMAIN cache : i <= Limit}

\* The list has every message in its place ...
ListRight ==
    \A i \in Kept : /\ i <= Len(docs) /\ cache[i].msg = i
                    /\ Settled(i) => cache[i].ver = docs[i]

\* ... and all of them, if it is there and not full.
ListWhole ==
    \/ cache = <<>> \/ Len(cache) >= Limit
    \/ \A m \in DOMAIN docs : Settled(m) => m <= Len(cache)

Snapshot == [m \in DOMAIN docs |-> [msg |-> m, ver |-> docs[m]]]

\* A reader fills a list that is empty, with what MongoDB holds.
ReadersOK ==
    \A r \in Filling : cache = <<>> /\ (rpc[r] = "fill" => snap[r] = Snapshot)

\* A writer pushes the newest message, which the list does not have, and trims
\* a list that has it unless it was full.
WritersOK ==
    \A w \in Writers :
        /\ wpc[w] \in {"push", "trim"} =>
              msg[w] = Len(docs) /\ Len(docs) \in DOMAIN docs /\ docs[Len(docs)] = 0
        /\ wpc[w] = "push" => \A i \in Kept : i < Len(docs)
        /\ wpc[w] = "trim" => /\ \A i \in Kept : cache[i].ver = docs[i]
                              /\ Len(cache) >= Limit \/ Len(cache) >= Len(docs)

Calm == Alone /\ ListRight /\ ListWhole /\ ReadersOK /\ WritersOK

StoreInv == TypeOK /\ IdleWritesNothing /\ (~ disturbed => Calm)

-----------------------------------------------------------------------------
(* Types.                                                                  *)

LEMMA InitStoreInv == Init => StoreInv
<1> SUFFICES ASSUME Init PROVE StoreInv
  OBVIOUS
<1>1. docs = <<>> /\ cache = <<>> /\ Len(docs) = 0
  BY DEF Init
<1>2. TypeOK
  <2>1. <<>> \in Seq(Nat) /\ <<>> \in Seq(Entry)
    OBVIOUS
  <2>2. snap \in [Readers -> Seq(Entry)]
    BY <2>1 DEF Init
  <2>3. docs \in Seq(Nat) /\ cache \in Seq(Entry)
    BY <1>1, <2>1
  <2>4. msg \in [Writers -> 0..Len(docs)]
    <3>1. 0 \in 0..Len(docs)
      BY <1>1
    <3> QED
      BY <3>1 DEF Init
  <2>5. /\ rpc \in [Readers -> {"idle", "missed", "fill"}]
        /\ wpc \in [Writers -> {"idle", "push", "trim", "lookup", "del"}]
        /\ updates \in Nat /\ failures \in Nat /\ disturbed \in BOOLEAN
    BY DEF Init
  <2> QED
    BY <2>2, <2>3, <2>4, <2>5 DEF TypeOK
<1>3. Filling = {} /\ Writing = {} /\ Kept = {}
  BY <1>1 DEF Init, Filling, Writing, Kept
<1>4. \A w \in Writers : wpc[w] = "idle" /\ msg[w] = 0
  BY DEF Init
<1> QED
  BY <1>1, <1>2, <1>3, <1>4
  DEF StoreInv, IdleWritesNothing, Calm, Alone, AtMostOne, ListRight, ListWhole, ReadersOK,
      WritersOK

LEMMA FinishType ==
    ASSUME TypeOK, NEW w \in Writers, Finish(w), docs' = docs
    PROVE  /\ wpc' \in [Writers -> {"idle", "push", "trim", "lookup", "del"}]
           /\ msg' \in [Writers -> 0..Len(docs')]
<1>1. Len(docs) \in Nat
  BY DEF TypeOK
<1> QED
  BY <1>1 DEF TypeOK, Finish

LEMMA StepTypeOK == TypeOK /\ [Next]_vars => TypeOK'
<1> SUFFICES ASSUME TypeOK, [Next]_vars
             PROVE  TypeOK'
  OBVIOUS
<1>0. Len(docs) \in Nat /\ DOMAIN docs = 1..Len(docs)
  BY DEF TypeOK
<1>1. ASSUME NEW r \in Readers, CacheMiss(r)
      PROVE  TypeOK'
  <2>1. disturbed' \in BOOLEAN
    BY <1>1, Zenon DEF CacheMiss, TypeOK, Overlap
  <2>2. failures' \in Nat
    <3>1. failures' = failures \/ failures' = failures + 1
      BY <1>1 DEF CacheMiss, Fail
    <3> QED
      BY <3>1 DEF TypeOK
  <2> QED
    BY <1>1, <2>1, <2>2 DEF CacheMiss, TypeOK
<1>2. ASSUME NEW r \in Readers, Aggregate(r)
      PROVE  TypeOK'
  <2>1. Snapshot \in Seq(Entry)
    <3>1. \A m \in 1..Len(docs) : [msg |-> m, ver |-> docs[m]] \in Entry
      BY <1>0 DEF Entry, TypeOK
    <3> QED
      BY <1>0, <3>1 DEF Snapshot
  <2>2. snap' \in [Readers -> Seq(Entry)]
    <3>1. snap \in [Readers -> Seq(Entry)]
      BY DEF TypeOK
    <3>2. snap' = [snap EXCEPT ![r] = Snapshot] \/ snap' = snap
      BY <1>2 DEF Aggregate, Snapshot
    <3> QED
      BY <2>1, <3>1, <3>2
  <2>3. rpc' \in [Readers -> {"idle", "missed", "fill"}]
    <3>1. rpc' = [rpc EXCEPT ![r] = "fill"] \/ rpc' = [rpc EXCEPT ![r] = "idle"]
      BY <1>2 DEF Aggregate
    <3> QED
      BY <3>1 DEF TypeOK
  <2>4. failures' \in Nat
    <3>1. failures' = failures \/ failures' = failures + 1
      BY <1>2 DEF Aggregate, Fail
    <3> QED
      BY <3>1 DEF TypeOK
  <2> QED
    BY <1>2, <2>2, <2>3, <2>4 DEF Aggregate, TypeOK
<1>3. ASSUME NEW r \in Readers, PopulateMessages(r)
      PROVE  TypeOK'
  <2>1. cache \o snap[r] \in Seq(Entry)
    BY DEF TypeOK
  <2>2. snap' \in [Readers -> Seq(Entry)]
    <3>1. <<>> \in Seq(Entry)
      OBVIOUS
    <3>2. snap' = [snap EXCEPT ![r] = <<>>] /\ snap \in [Readers -> Seq(Entry)]
      BY <1>3 DEF PopulateMessages, TypeOK
    <3> HIDE DEF Entry
    <3> QED
      BY <3>1, <3>2
  <2>3. cache' \in Seq(Entry)
    BY <1>3, <2>1 DEF PopulateMessages, TypeOK
  <2>4. rpc' \in [Readers -> {"idle", "missed", "fill"}] /\ failures' \in Nat
    BY <1>3 DEF PopulateMessages, Fail, TypeOK
  <2> QED
    BY <1>3, <2>2, <2>3, <2>4 DEF PopulateMessages, TypeOK
<1>4. ASSUME NEW w \in Writers, InsertOne(w)
      PROVE  TypeOK'
  <2>1. docs' \in Seq(Nat) /\ Len(docs') = Len(docs) + 1
    BY <1>4 DEF InsertOne, TypeOK
  <2>2. msg' \in [Writers -> 0..Len(docs')]
    BY <1>0, <1>4, <2>1 DEF InsertOne, TypeOK
  <2> QED
    BY <1>4, <2>1, <2>2 DEF InsertOne, TypeOK, Overlap
<1>5. ASSUME NEW w \in Writers, RPushX(w)
      PROVE  TypeOK'
  <2>1. CASE cache = <<>>
    <3>1. Finish(w) /\ docs' = docs
      BY <1>5, <2>1 DEF RPushX
    <3> QED
      BY <1>5, <2>1, <3>1, FinishType DEF RPushX, TypeOK
  <2>2. CASE cache # <<>>
    <3>1. [msg |-> msg[w], ver |-> 0] \in Entry
      BY <1>0 DEF TypeOK, Entry
    <3>2. cache' \in Seq(Entry)
      <4>1. cache' = Append(cache, [msg |-> msg[w], ver |-> 0])
        BY <1>5, <2>2 DEF RPushX
      <4>2. cache \in Seq(Entry)
        BY DEF TypeOK
      <4> QED
        BY <3>1, <4>1, <4>2
    <3> QED
      BY <1>5, <2>2, <3>2 DEF RPushX, TypeOK
  <2> QED
    BY <2>1, <2>2
<1>6. ASSUME NEW w \in Writers, LTrim(w)
      PROVE  TypeOK'
  <2>1. Len(cache) > Limit => SubSeq(cache, 1, Limit) \in Seq(Entry)
    BY BoundsAssumption DEF TypeOK
  <2> QED
    BY <1>6, <2>1, FinishType DEF LTrim, TypeOK
<1>7. ASSUME NEW w \in Writers, FindOneAndUpdate(w)
      PROVE  TypeOK'
  <2>1. PICK m \in DOMAIN docs : docs' = [docs EXCEPT ![m] = @ + 1] /\ msg' = [msg EXCEPT ![w] = m]
    BY <1>7 DEF FindOneAndUpdate
  <2>2. docs' \in Seq(Nat) /\ Len(docs') = Len(docs)
    BY <1>0, <2>1 DEF TypeOK
  <2>3. msg' \in [Writers -> 0..Len(docs')]
    BY <1>0, <2>1, <2>2 DEF TypeOK
  <2> QED
    BY <1>7, <2>2, <2>3 DEF FindOneAndUpdate, TypeOK, Overlap
<1>8. ASSUME NEW w \in Writers, GetUserById(w)
      PROVE  TypeOK'
  <2>1. CASE wpc' = [wpc EXCEPT ![w] = "del"] /\ UNCHANGED <<msg, failures, disturbed>>
    BY <1>8, <2>1 DEF GetUserById, TypeOK
  <2>2. CASE Fail /\ Finish(w) /\ disturbed' = TRUE
    <3>1. docs' = docs
      BY <1>8 DEF GetUserById
    <3> QED
      BY <1>8, <2>2, <3>1, FinishType DEF GetUserById, Fail, TypeOK
  <2> QED
    BY <1>8, <2>1, <2>2 DEF GetUserById
<1>9. ASSUME NEW w \in Writers, UpdateMessage(w)
      PROVE  TypeOK'
  BY <1>9, FinishType DEF UpdateMessage, TypeOK
<1>10. ASSUME NEW w \in Writers, WriterFails(w)
       PROVE  TypeOK'
  BY <1>10, FinishType DEF WriterFails, Fail, TypeOK
<1>11. CASE UNCHANGED vars
  BY <1>11 DEF vars, TypeOK
<1> QED
  BY <1>1, <1>2, <1>3, <1>4, <1>5, <1>6, <1>7, <1>8, <1>9, <1>10, <1>11 DEF Next

\* Every variable of the store keeps its type, for any number of users of the list.
THEOREM StoreTypeCorrect == Spec => []TypeOK
<1>1. Init => TypeOK
  BY InitStoreInv DEF StoreInv
<1> QED
  BY <1>1, StepTypeOK, PTL DEF Spec

-----------------------------------------------------------------------------
(* One user of the list at a time keeps it coherent.                       *)

LEMMA StepIdle == TypeOK /\ IdleWritesNothing /\ [Next]_vars => IdleWritesNothing'
<1> SUFFICES ASSUME TypeOK, IdleWritesNothing, [Next]_vars
             PROVE  IdleWritesNothing'
  OBVIOUS
<1> USE DEF IdleWritesNothing
<1>1. ASSUME NEW r \in Readers, CacheMiss(r) \/ Aggregate(r) \/ PopulateMessages(r)
      PROVE  IdleWritesNothing'
  BY <1>1 DEF CacheMiss, Aggregate, PopulateMessages
<1>2. ASSUME NEW w \in Writers, InsertOne(w) \/ FindOneAndUpdate(w)
      PROVE  IdleWritesNothing'
  <2>1. wpc'[w] # "idle" /\ \A v \in Writers \ {w} : wpc'[v] = wpc[v] /\ msg'[v] = msg[v]
    BY <1>2 DEF InsertOne, FindOneAndUpdate, TypeOK
  <2> QED
    BY <2>1
<1>3. ASSUME NEW w \in Writers,
             RPushX(w) \/ LTrim(w) \/ GetUserById(w) \/ UpdateMessage(w) \/ WriterFails(w)
      PROVE  IdleWritesNothing'
  <2>1. CASE Finish(w)
    BY <2>1 DEF Finish, TypeOK
  <2>2. CASE msg' = msg /\ \E p \in {"trim", "del"} : wpc' = [wpc EXCEPT ![w] = p]
    BY <2>2 DEF TypeOK
  <2> QED
    BY <1>3, <2>1, <2>2 DEF RPushX, LTrim, GetUserById, UpdateMessage, WriterFails
<1>4. CASE UNCHANGED vars
  BY <1>4 DEF vars
<1> QED
  BY <1>1, <1>2, <1>3, <1>4 DEF Next

\* What nobody writes is settled.
LEMMA OthersSettled ==
    ASSUME TypeOK, IdleWritesNothing, NEW m \in DOMAIN docs,
           \A w \in Writing : msg[w] # m
    PROVE  Settled(m)
BY DEF TypeOK, IdleWritesNothing, Writing, Settled

\* An empty list is coherent, when nobody is at it.
LEMMA EmptyIsCalm ==
    ASSUME cache = <<>>, Filling = {}, Writing = {}
    PROVE  Calm
<1>1. Kept = {}
  BY DEF Kept
<1>2. \A w \in Writers : wpc[w] = "idle"
  BY DEF Writing
<1> QED
  BY <1>1, <1>2
  DEF Calm, Alone, AtMostOne, ListRight, ListWhole, ReadersOK, WritersOK

\* Who starts on a list that stays undisturbed is alone with it.
LEMMA StartsAlone ==
    ASSUME StoreInv, ~ disturbed', disturbed' = (disturbed \/ Overlap)
    PROVE  Filling = {} /\ Writing = {} /\ Calm /\ \A w \in Writers : wpc[w] = "idle" /\ msg[w] = 0
<1>1. ~ disturbed /\ ~ Overlap
  BY Zenon
<1>2. Filling = {} /\ Writing = {}
  BY <1>1 DEF Overlap
<1> QED
  BY <1>1, <1>2 DEF StoreInv, IdleWritesNothing, Writing

LEMMA ReaderKeepsCalm ==
    ASSUME StoreInv, NEW r \in Readers, ~ disturbed',
           CacheMiss(r) \/ Aggregate(r) \/ PopulateMessages(r)
    PROVE  Calm'
<1>0. TypeOK
  BY DEF StoreInv
<1>1. CASE CacheMiss(r)
  <2>1. cache = <<>> /\ disturbed' = (disturbed \/ Overlap)
    BY <1>1 DEF CacheMiss
  <2>2. Filling = {} /\ Writing = {} /\ \A w \in Writers : wpc[w] = "idle"
    BY <2>1, StartsAlone
  <2>3. rpc'[r] = "missed" /\ \A s \in Readers \ {r} : rpc'[s] = "idle"
    BY <1>0, <1>1, <2>2 DEF CacheMiss, TypeOK, Filling
  <2>4. Filling' = {r} /\ Writing' = {} /\ cache' = <<>> /\ Kept' = {}
    BY <1>1, <2>1, <2>2, <2>3 DEF CacheMiss, Filling, Writing, Kept
  <2>5. \A w \in Writers : wpc'[w] = "idle"
    BY <1>1, <2>2 DEF CacheMiss
  <2> QED
    BY <2>3, <2>4, <2>5
    DEF Calm, Alone, AtMostOne, ListRight, ListWhole, ReadersOK, WritersOK
<1>2. CASE Aggregate(r)
  <2>1. Calm /\ r \in Filling
    BY <1>2 DEF Aggregate, StoreInv, Filling
  <2>2. Filling' \subseteq Filling /\ Writing' = Writing
    BY <1>0, <1>2 DEF Aggregate, TypeOK, Filling, Writing
  <2>3. UNCHANGED <<docs, cache, wpc, msg>>
    BY <1>2 DEF Aggregate
  <2>4. rpc'[r] = "fill" => snap'[r] = Snapshot
    BY <1>0, <1>2 DEF Aggregate, TypeOK, Snapshot
  <2>5. Filling = {r} /\ Writing = {} /\ cache = <<>>
    BY <2>1 DEF Calm, Alone, AtMostOne, ReadersOK
  <2>6. Snapshot' = Snapshot
    BY <2>3 DEF Snapshot
  <2>7. ReadersOK' /\ Alone'
    BY <2>2, <2>3, <2>4, <2>5, <2>6 DEF ReadersOK, Alone, AtMostOne
  <2>8. ListRight' /\ ListWhole' /\ WritersOK'
    BY <2>1, <2>3 DEF Calm, ListRight, ListWhole, WritersOK, Kept, Settled
  <2> QED
    BY <2>7, <2>8 DEF Calm
<1>3. CASE PopulateMessages(r)
  <2>1. Calm /\ r \in Filling /\ rpc[r] = "fill"
    BY <1>3 DEF PopulateMessages, StoreInv, Filling
  <2>2. Filling = {r} /\ Writing = {} /\ cache = <<>> /\ snap[r] = Snapshot
    BY <2>1 DEF Calm, Alone, AtMostOne, ReadersOK
  <2>3. UNCHANGED <<docs, wpc, msg>>
    BY <1>3 DEF PopulateMessages
  <2>4. Filling' = {} /\ Writing' = {}
    BY <1>0, <1>3, <2>2 DEF PopulateMessages, TypeOK, Filling, Writing
  <2>5. CASE cache' = cache
    BY <2>2, <2>4, <2>5, EmptyIsCalm
    DEF Calm, Alone, AtMostOne, ListRight, ListWhole, ReadersOK, WritersOK, Kept, Writing
  <2>6. CASE cache' = cache \o snap[r]
    <3>1. Snapshot \in Seq(Entry) /\ Len(Snapshot) = Len(docs) /\ DOMAIN Snapshot = DOMAIN docs
      <4>1. DOMAIN docs = 1..Len(docs) /\ Len(docs) \in Nat
        BY <1>0 DEF TypeOK
      <4>2. \A m \in DOMAIN docs : [msg |-> m, ver |-> docs[m]] \in Entry
        BY <1>0, <4>1 DEF TypeOK, Entry
      <4> QED
        BY <4>1, <4>2 DEF Snapshot
    <3>2. cache' = Snapshot
      BY <2>2, <2>6, <3>1
    <3>3. ListRight'
      BY <1>0, <2>3, <3>1, <3>2 DEF ListRight, Kept, Snapshot, TypeOK
    <3>4. ListWhole'
      BY <1>0, <2>3, <3>1, <3>2 DEF ListWhole, TypeOK
    <3>5. \A w \in Writers : wpc'[w] = "idle"
      BY <2>4 DEF Writing
    <3> QED
      BY <2>4, <3>3, <3>4, <3>5 DEF Calm, Alone, AtMostOne, ReadersOK, WritersOK
  <2> QED
    BY <1>3, <2>5, <2>6 DEF PopulateMessages
<1> QED
  BY <1>1, <1>2, <1>3

LEMMA PushKeepsCalm ==
    ASSUME StoreInv, NEW w \in Writers, ~ disturbed', RPushX(w)
    PROVE  Calm'
<1>1. TypeOK /\ Calm /\ w \in Writing
  BY DEF RPushX, StoreInv, Writing
<1>2. Filling = {} /\ Writing = {w}
  BY <1>1 DEF Calm, Alone, AtMostOne
<1>3. Filling' = {} /\ UNCHANGED <<docs, rpc>>
  BY <1>2 DEF RPushX, Filling
<1>4. CASE cache = <<>>
  <2>1. Finish(w) /\ cache' = <<>>
    BY <1>4 DEF RPushX
  <2>2. Writing' = {}
    BY <1>1, <1>2, <2>1 DEF Finish, TypeOK, Writing
  <2>3. Kept' = {} /\ \A v \in Writers : wpc'[v] = "idle"
    BY <2>1, <2>2 DEF Kept, Writing
  <2> QED
    BY <1>3, <2>1, <2>2, <2>3
    DEF Calm, Alone, AtMostOne, ListRight, ListWhole, ReadersOK, WritersOK
<1>5. CASE cache # <<>>
  <2> DEFINE new == [msg |-> msg[w], ver |-> 0]
  <2>0. PICK n \in Nat, d \in Nat : n = Len(cache) /\ d = Len(docs)
    BY <1>1 DEF TypeOK
  <2>1. cache' = Append(cache, new) /\ wpc' = [wpc EXCEPT ![w] = "trim"] /\ msg' = msg
    BY <1>5 DEF RPushX
  <2>2. n # 0 /\ DOMAIN cache = 1..n /\ DOMAIN docs = 1..d
    BY <1>1, <1>5, <2>0 DEF TypeOK
  <2>3. new \in Entry /\ new.msg = msg[w] /\ new.ver = 0
    BY <1>1, <2>0 DEF TypeOK, Entry
  <2>4. /\ DOMAIN cache' = 1..(n + 1) /\ Len(cache') = n + 1 /\ cache'[n + 1] = new
        /\ \A i \in 1..n : cache'[i] = cache[i]
    <3>1. cache \in Seq(Entry)
      BY <1>1 DEF TypeOK
    <3> HIDE DEF new
    <3> QED
      BY <2>0, <2>1, <2>3, <3>1
  <2>5. msg[w] = d /\ d \in 1..d /\ docs[d] = 0 /\ \A i \in Kept : i < d
    BY <1>1, <2>0, <2>2 DEF RPushX, Calm, WritersOK
  <2>6. \A m \in 1..d : m # d => Settled(m)
    BY <1>1, <1>2, <2>2, <2>5, OthersSettled DEF StoreInv
  <2>7. ASSUME NEW i \in Kept
        PROVE  i \in 1..d /\ cache[i].msg = i /\ cache[i].ver = docs[i]
    BY <1>1, <2>0, <2>2, <2>5, <2>6 DEF Calm, ListRight, Kept
  <2>8. n < Limit => n + 1 = d
    <3> SUFFICES ASSUME n < Limit PROVE n + 1 = d
      OBVIOUS
    <3>1. n < d
      BY <2>2, <2>5, BoundsAssumption DEF Kept
    <3>2. \A m \in 1..d : Settled(m) => m <= n
      BY <1>1, <1>5, <2>0, <2>2, BoundsAssumption DEF Calm, ListWhole
    <3>3. d - 1 \in 1..d /\ d - 1 # d
      BY <2>2, <3>1
    <3>4. d - 1 <= n
      BY <2>6, <3>2, <3>3
    <3> QED
      BY <3>1, <3>4
  <2>9. ASSUME NEW i \in Kept'
        PROVE  i \in 1..d /\ cache'[i].msg = i /\ cache'[i].ver = docs[i]
    <3>1. i \in 1..(n + 1) /\ i <= Limit
      BY <2>4 DEF Kept
    <3>2. CASE i <= n
      <4>1. i \in Kept /\ cache'[i] = cache[i]
        BY <2>2, <2>4, <3>1, <3>2 DEF Kept
      <4> QED
        BY <2>7, <4>1
    <3>3. CASE i = n + 1
      <4>1. i = d
        BY <2>8, <3>1, <3>3, BoundsAssumption
      <4>2. cache'[i] = new
        BY <2>4, <3>3
      <4> QED
        BY <2>3, <2>5, <4>1, <4>2
    <3> QED
      BY <3>1, <3>2, <3>3
  <2>10. ListRight'
    <3>1. \A i \in 1..d : i <= Len(docs)
      BY <2>0
    <3> QED
      BY <1>3, <2>9, <3>1 DEF ListRight
  <2>11. n + 1 >= Limit \/ n + 1 >= d
    BY <2>8, BoundsAssumption
  <2>12. ListWhole'
    BY <1>3, <2>0, <2>2, <2>4, <2>11, BoundsAssumption DEF ListWhole
  <2>13. Writing' = {w} /\ wpc'[w] = "trim" /\ \A v \in Writers \ {w} : wpc'[v] = "idle"
    BY <1>1, <1>2, <2>1 DEF TypeOK, Writing
  <2>14. WritersOK'
    BY <1>3, <2>0, <2>1, <2>2, <2>4, <2>5, <2>9, <2>11, <2>13 DEF WritersOK
  <2> QED
    BY <1>3, <2>10, <2>12, <2>13, <2>14 DEF Calm, Alone, AtMostOne, ReadersOK
<1> QED
  BY <1>4, <1>5

LEMMA TrimKeepsCalm ==
    ASSUME StoreInv, NEW w \in Writers, ~ disturbed', LTrim(w)
    PROVE  Calm'
<1>1. TypeOK /\ Calm /\ w \in Writing
  BY DEF LTrim, StoreInv, Writing
<1>2. Filling = {} /\ Writing = {w}
  BY <1>1 DEF Calm, Alone, AtMostOne
<1>3. Filling' = {} /\ UNCHANGED <<docs, rpc>>
  BY <1>2 DEF LTrim, Filling
<1>4. Writing' = {}
  BY <1>1, <1>2 DEF LTrim, Finish, TypeOK, Writing
<1>5. /\ Len(cache) \in Nat /\ DOMAIN cache = 1..Len(cache)
      /\ Len(docs) \in Nat /\ DOMAIN docs = 1..Len(docs)
  BY <1>1 DEF TypeOK
<1>6. /\ Len(cache') = IF Len(cache) > Limit THEN Limit ELSE Len(cache)
      /\ DOMAIN cache' = 1..Len(cache')
      /\ \A i \in DOMAIN cache' : cache'[i] = cache[i]
  <2>1. CASE Len(cache) > Limit
    <3>1. cache \in Seq(Entry) /\ cache' = SubSeq(cache, 1, Limit)
      BY <1>1, <2>1 DEF TypeOK, LTrim
    <3>2. 1 \in 1..(Len(cache) + 1) /\ Limit \in 1..Len(cache)
      BY <1>5, <2>1, BoundsAssumption
    <3> QED
      BY <1>5, <2>1, <3>1, <3>2, BoundsAssumption
  <2>2. CASE ~ (Len(cache) > Limit)
    BY <1>5, <2>2 DEF LTrim
  <2> QED
    BY <2>1, <2>2
<1>7. /\ \A i \in Kept : cache[i].ver = docs[i] /\ i <= Len(docs) /\ cache[i].msg = i
      /\ Len(cache) >= Limit \/ Len(cache) >= Len(docs)
  BY <1>1 DEF LTrim, Calm, WritersOK, ListRight
<1>8. Kept' \subseteq Kept
  BY <1>5, <1>6, BoundsAssumption DEF Kept
<1>9. ListRight'
  BY <1>3, <1>6, <1>7, <1>8 DEF ListRight, Kept
<1>10. ListWhole'
  BY <1>3, <1>5, <1>6, <1>7, BoundsAssumption DEF ListWhole
<1>11. \A v \in Writers : wpc'[v] = "idle"
  BY <1>4 DEF Writing
<1> QED
  BY <1>3, <1>4, <1>9, <1>10, <1>11 DEF Calm, Alone, AtMostOne, ReadersOK, WritersOK

LEMMA InsertKeepsCalm ==
    ASSUME StoreInv, NEW w \in Writers, ~ disturbed', InsertOne(w)
    PROVE  Calm'
<1>1. TypeOK /\ IdleWritesNothing
  BY DEF StoreInv
<1>2. Filling = {} /\ Writing = {} /\ Calm /\ \A v \in Writers : wpc[v] = "idle" /\ msg[v] = 0
  BY StartsAlone DEF InsertOne
<1>3. /\ Len(docs) \in Nat /\ DOMAIN docs = 1..Len(docs)
      /\ Len(docs') = Len(docs) + 1 /\ DOMAIN docs' = 1..(Len(docs) + 1)
      /\ docs'[Len(docs) + 1] = 0 /\ \A m \in 1..Len(docs) : docs'[m] = docs[m]
  BY <1>1 DEF InsertOne, TypeOK
<1>4. /\ wpc'[w] = "push" /\ \A v \in Writers \ {w} : wpc'[v] = "idle"
      /\ msg'[w] = Len(docs) + 1
      /\ UNCHANGED <<cache, rpc>>
  BY <1>1, <1>2 DEF InsertOne, TypeOK
<1>5. Filling' = {} /\ Writing' = {w}
  BY <1>2, <1>4 DEF Filling, Writing
<1>6. Kept' = Kept /\ \A i \in Kept : i \in 1..Len(docs)
  BY <1>1, <1>2, <1>3, <1>4 DEF Kept, Calm, ListRight, TypeOK
<1>7. \A m \in DOMAIN docs : Settled(m)
  BY <1>1, <1>2, OthersSettled
<1>8. ListRight'
  BY <1>2, <1>3, <1>4, <1>6, <1>7 DEF Calm, ListRight
<1>9. ListWhole'
  <2>1. \A m \in DOMAIN docs' : Settled(m)' => m \in DOMAIN docs
    BY <1>3, <1>4 DEF Settled
  <2> QED
    BY <1>2, <1>4, <1>7, <2>1 DEF Calm, ListWhole
<1>10. WritersOK'
  BY <1>3, <1>4, <1>6 DEF WritersOK
<1> QED
  BY <1>5, <1>8, <1>9, <1>10 DEF Calm, Alone, AtMostOne, ReadersOK

LEMMA UpdateKeepsCalm ==
    ASSUME StoreInv, NEW w \in Writers, ~ disturbed', FindOneAndUpdate(w)
    PROVE  Calm'
<1>1. TypeOK /\ IdleWritesNothing
  BY DEF StoreInv
<1>2. Filling = {} /\ Writing = {} /\ Calm /\ \A v \in Writers : wpc[v] = "idle" /\ msg[v] = 0
  BY StartsAlone DEF FindOneAndUpdate
<1>3. PICK m \in DOMAIN docs : docs' = [docs EXCEPT ![m] = @ + 1] /\ msg' = [msg EXCEPT ![w] = m]
  BY DEF FindOneAndUpdate
<1>4. /\ DOMAIN docs' = DOMAIN docs /\ Len(docs') = Len(docs)
      /\ \A i \in DOMAIN docs \ {m} : docs'[i] = docs[i]
      /\ Len(docs) \in Nat /\ DOMAIN docs = 1..Len(docs)
  BY <1>1, <1>3 DEF TypeOK
<1>5. /\ wpc'[w] = "lookup" /\ \A v \in Writers \ {w} : wpc'[v] = "idle"
      /\ msg'[w] = m /\ UNCHANGED <<cache, rpc>>
  BY <1>1, <1>2, <1>3 DEF FindOneAndUpdate, TypeOK
<1>6. Filling' = {} /\ Writing' = {w}
  BY <1>2, <1>5 DEF Filling, Writing
<1>7. \A i \in DOMAIN docs : Settled(i) /\ (Settled(i)' => i # m)
  BY <1>1, <1>2, <1>5, OthersSettled DEF Settled
<1>8. \A i \in Kept : i \in DOMAIN docs
  BY <1>1, <1>2, <1>4 DEF Kept, Calm, ListRight, TypeOK
<1>9. ListRight' /\ ListWhole'
  BY <1>2, <1>4, <1>5, <1>7, <1>8 DEF Calm, ListRight, ListWhole, Kept
<1>10. WritersOK'
  BY <1>5 DEF WritersOK
<1> QED
  BY <1>6, <1>9, <1>10 DEF Calm, Alone, AtMostOne, ReadersOK

LEMMA DropIsCalm ==
    ASSUME StoreInv, NEW w \in Writers, ~ disturbed', UpdateMessage(w)
    PROVE  Calm'
<1>1. TypeOK
  BY DEF StoreInv
<1>2. Filling = {} /\ Writing = {w}
  BY Zenon DEF UpdateMessage
<1>3. Filling' = {} /\ Writing' = {} /\ cache' = <<>>
  BY <1>1, <1>2 DEF UpdateMessage, Finish, TypeOK, Filling, Writing
<1>4. Kept' = {} /\ \A v \in Writers : wpc'[v] = "idle"
  BY <1>3 DEF Kept, Writing
<1> QED
  BY <1>3, <1>4
  DEF Calm, Alone, AtMostOne, ListRight, ListWhole, ReadersOK, WritersOK

LEMMA LookupKeepsCalm ==
    ASSUME StoreInv, NEW w \in Writers, ~ disturbed', GetUserById(w)
    PROVE  Calm'
<1>1. TypeOK
  BY DEF StoreInv
<1>2. /\ wpc' = [wpc EXCEPT ![w] = "del"] /\ wpc[w] = "lookup"
      /\ UNCHANGED <<msg, disturbed, docs, cache, rpc, snap>>
  BY DEF GetUserById
<1>3. Calm
  BY <1>2 DEF StoreInv
<1>4. Writing' = Writing /\ Filling' = Filling /\ Kept' = Kept
  BY <1>1, <1>2 DEF TypeOK, Writing, Filling, Kept
<1>5. WritersOK'
  <2>1. wpc'[w] = "del" /\ \A v \in Writers \ {w} : wpc'[v] = wpc[v]
    BY <1>1, <1>2 DEF TypeOK
  <2> QED
    BY <1>2, <1>3, <1>4, <2>1 DEF Calm, WritersOK
<1> QED
  BY <1>2, <1>3, <1>4, <1>5
  DEF Calm, Alone, AtMostOne, ListRight, ListWhole, ReadersOK, Settled, Snapshot

LEMMA StepStoreInv == StoreInv /\ [Next]_vars => StoreInv'
<1> SUFFICES ASSUME StoreInv, [Next]_vars
             PROVE  StoreInv'
  OBVIOUS
<1>1. TypeOK' /\ IdleWritesNothing'
  BY StepTypeOK, StepIdle DEF StoreInv
<1>2. ASSUME ~ disturbed'
      PROVE  Calm'
  <2>1. ASSUME NEW r \in Readers, CacheMiss(r) \/ Aggregate(r) \/ PopulateMessages(r)
        PROVE  Calm'
    BY <1>2, <2>1, ReaderKeepsCalm
  <2>2. ASSUME NEW w \in Writers, InsertOne(w) \/ RPushX(w) \/ LTrim(w)
        PROVE  Calm'
    BY <1>2, <2>2, InsertKeepsCalm, PushKeepsCalm, TrimKeepsCalm
  <2>3. ASSUME NEW w \in Writers, FindOneAndUpdate(w) \/ GetUserById(w) \/ UpdateMessage(w)
        PROVE  Calm'
    BY <1>2, <2>3, UpdateKeepsCalm, LookupKeepsCalm, DropIsCalm
  <2>4. ASSUME NEW w \in Writers, WriterFails(w)
        PROVE  Calm'
    BY <1>2, <2>4 DEF WriterFails
  <2>5. CASE UNCHANGED vars
    <3>1. Calm
      BY <1>2, <2>5 DEF vars, StoreInv
    <3> QED
      BY <2>5, <3>1
      DEF vars, Calm, Alone, AtMostOne, Filling, Writing, ListRight, ListWhole, ReadersOK,
          WritersOK, Kept, Settled, Snapshot
  <2> QED
    BY <2>1, <2>2, <2>3, <2>4, <2>5 DEF Next
<1> QED
  BY <1>1, <1>2 DEF StoreInv

LEMMA CalmIsCoherent == TypeOK /\ Calm => (cache # <<>> =>
    /\ \A i \in DOMAIN Hit : Hit[i].msg = i /\ (Settled(i) => Hit[i].ver = docs[i])
    /\ Len(Hit) = Limit \/ \A m \in DOMAIN docs : Settled(m) => m <= Len(Hit))
<1> SUFFICES ASSUME TypeOK, Calm, cache # <<>>
             PROVE  /\ \A i \in DOMAIN Hit : Hit[i].msg = i /\ (Settled(i) => Hit[i].ver = docs[i])
                    /\ Len(Hit) = Limit \/ \A m \in DOMAIN docs : Settled(m) => m <= Len(Hit)
  OBVIOUS
<1>1. Len(cache) \in Nat /\ DOMAIN cache = 1..Len(cache) /\ cache \in Seq(Entry)
  BY DEF TypeOK
<1>2. CASE Len(cache) > Limit
  <2>1. Hit = SubSeq(cache, 1, Limit) /\ Limit \in 1..Len(cache)
    BY <1>1, <1>2, BoundsAssumption DEF Hit
  <2>2. /\ Len(Hit) = Limit /\ DOMAIN Hit = 1..Limit
        /\ \A i \in 1..Limit : Hit[i] = cache[i]
    BY <1>1, <1>2, <2>1, BoundsAssumption
  <2>3. \A i \in 1..Limit : i \in Kept
    BY <1>1, <1>2, BoundsAssumption DEF Kept
  <2> QED
    BY <2>2, <2>3 DEF Calm, ListRight
<1>3. CASE ~ (Len(cache) > Limit)
  <2>1. Hit = cache
    BY <1>3 DEF Hit
  <2>2. \A i \in DOMAIN cache : i \in Kept
    BY <1>1, <1>3, BoundsAssumption DEF Kept
  <2>3. Len(cache) >= Limit => Len(cache) = Limit
    <3>1. \A k \in Nat : k >= Limit /\ ~ (k > Limit) => k = Limit
      BY BoundsAssumption
    <3> QED
      BY <1>1, <1>3, <3>1
  <2> QED
    BY <2>1, <2>2, <2>3 DEF Calm, ListRight, ListWhole
<1> QED
  BY <1>2, <1>3

\* The invariant of the list, whoever uses it and however they overlap.
THEOREM StoreInvariant == Spec => []StoreInv
BY InitStoreInv, StepStoreInv, PTL DEF Spec

\* A cache hit is the beginning of the chat in its latest version, for any number
\* of users of the list and any length of it, as long as no two of them overlapped
\* and none failed since the list was last dropped.
THEOREM CoherentCache == Spec => []CoherentUnlessDisturbed
<1>1. StoreInv => CoherentUnlessDisturbed
  BY CalmIsCoherent DEF StoreInv, CoherentUnlessDisturbed
<1> QED
  BY <1>1, StoreInvariant, PTL

-----------------------------------------------------------------------------
(* How often the list holds a message.                                     *)

Places(s, m) == {i \in DOMAIN s : s[i].msg = m}

\* Who has inserted m and not pushed it yet.
Pushing(m) == {w \in Writers : wpc[w] = "push" /\ msg[w] = m}

OnePushEach ==
    /\ \A w \in Writers : wpc[w] = "push" => msg[w] \in DOMAIN docs
    /\ \A v, w \in Writers :
           wpc[v] = "push" /\ wpc[w] = "push" /\ msg[v] = msg[w] => v = w

\* What is in the list, or about to be pushed onto it, is in MongoDB.  A reader
\* has each message once.
EntriesAreStored ==
    /\ \A i \in DOMAIN cache : cache[i].msg \in DOMAIN docs
    /\ \A r \in Readers : \A i \in DOMAIN snap[r] : snap[r][i].msg = i /\ i \in DOMAIN docs

\* Each place of m in the list, each reader at work and the push of m that is
\* still to come were let in by a reader, by the insert of m or by a failure.
Budget ==
    \A m \in DOMAIN docs :
        Occurrences(m) + Cardinality(Filling) + Cardinality(Pushing(m))
            <= Cardinality(Readers) + 1 + failures

DupInv == OnePushEach /\ EntriesAreStored /\ Budget

LEMMA OneMore ==
    ASSUME NEW P, IsFiniteSet(P), NEW Q, Q = P \/ \E i : Q = P \cup {i}
    PROVE  Cardinality(Q) <= Cardinality(P) + 1
<1>1. Cardinality(P) \in Nat
  BY FS_CardinalityType
<1>2. CASE Q = P
  BY <1>1, <1>2
<1>3. ASSUME NEW i, Q = P \cup {i}
      PROVE  Cardinality(Q) <= Cardinality(P) + 1
  <2>1. Cardinality(P \cup {i}) \in {Cardinality(P), Cardinality(P) + 1}
    BY FS_AddElement
  <2> QED
    BY <1>1, <1>3, <2>1
<1> QED
  BY <1>2, <1>3

LEMMA PlacesFinite ==
    ASSUME NEW s \in Seq(Entry), NEW m
    PROVE  IsFiniteSet(Places(s, m)) /\ Cardinality(Places(s, m)) \in Nat
<1>1. PICK n \in Nat : DOMAIN s = 1..n
  OBVIOUS
<1>2. Places(s, m) \in SUBSET (1..n)
  BY <1>1 DEF Places
<1>3. IsFiniteSet(1..n)
  BY FS_Interval
<1>4. IsFiniteSet(Places(s, m))
  BY <1>2, <1>3, FS_Subset
<1> QED
  BY <1>4, FS_CardinalityType

\* An entry pushed onto the list is one more place of its message.
LEMMA PlacesAppend ==
    ASSUME NEW s \in Seq(Entry), NEW e \in Entry, NEW m
    PROVE  Cardinality(Places(Append(s, e), m)) =
               IF e.msg = m THEN Cardinality(Places(s, m)) + 1 ELSE Cardinality(Places(s, m))
<1>1. PICK n \in Nat : n = Len(s) /\ DOMAIN s = 1..n
  OBVIOUS
<1>2. /\ DOMAIN Append(s, e) = 1..(n + 1) /\ Append(s, e)[n + 1] = e
      /\ \A i \in 1..n : Append(s, e)[i] = s[i]
  BY <1>1
<1>3. Places(Append(s, e), m) = IF e.msg = m THEN Places(s, m) \cup {n + 1} ELSE Places(s, m)
  BY <1>1, <1>2 DEF Places
<1>4. n + 1 \notin Places(s, m)
  BY <1>1 DEF Places
<1> QED
  BY <1>3, <1>4, PlacesFinite, FS_AddElement

\* A list pushed as a whole brings each message once.
LEMMA PlacesConcat ==
    ASSUME NEW s \in Seq(Entry), NEW t \in Seq(Entry), NEW m,
           \A i \in DOMAIN t : t[i].msg = i
    PROVE  Cardinality(Places(s \o t, m)) <= Cardinality(Places(s, m)) + 1
<1>1. PICK n \in Nat, k \in Nat : /\ n = Len(s) /\ DOMAIN s = 1..n
                                  /\ k = Len(t) /\ DOMAIN t = 1..k
  OBVIOUS
<1>2. /\ DOMAIN (s \o t) = 1..(n + k)
      /\ \A i \in 1..n : (s \o t)[i] = s[i]
      /\ \A i \in (n + 1)..(n + k) : (s \o t)[i] = t[i - n]
  BY <1>1
<1>3. \A i \in (n + 1)..(n + k) : (s \o t)[i].msg = i - n
  BY <1>1, <1>2
<1> DEFINE P == Places(s, m)
           Q == Places(s \o t, m)
<1>4. \A i : i \in P <=> i \in 1..n /\ s[i].msg = m
  BY <1>1 DEF Places
<1>5. \A i : i \in Q <=> i \in 1..(n + k) /\ (s \o t)[i].msg = m
  BY <1>2 DEF Places
<1>6. \A i : i \in Q <=> i \in P \/ (i \in (n + 1)..(n + k) /\ i - n = m)
  <2>1. \A i \in 1..n : i \in Q <=> i \in P
    BY <1>2, <1>4, <1>5
  <2>2. \A i \in (n + 1)..(n + k) : i \in Q <=> i - n = m
    <3> SUFFICES ASSUME NEW i \in (n + 1)..(n + k)
                 PROVE  i \in Q <=> i - n = m
      OBVIOUS
    <3>1. i \in 1..(n + k)
      OBVIOUS
    <3>2. (s \o t)[i].msg = i - n
      BY <1>3, Zenon
    <3> HIDE DEF P, Q
    <3> QED
      BY <1>5, <3>1, <3>2
  <2>3. \A i : i \in Q => i \in 1..n \/ i \in (n + 1)..(n + k)
    BY <1>5
  <2>4. \A i \in P : i \in 1..n
    BY <1>4
  <2> HIDE DEF P, Q
  <2> QED
    BY <2>1, <2>2, <2>3, <2>4
<1>7. IsFiniteSet(P) /\ Cardinality(P) \in Nat
  BY PlacesFinite
<1> HIDE DEF P, Q
<1>8. Q = P \/ \E i : Q = P \cup {i}
  <2>1. CASE m \in 1..k
    <3>1. \A i : i \in (n + 1)..(n + k) /\ i - n = m <=> i = n + m
      BY <2>1
    <3>2. Q = P \cup {n + m}
      BY <1>6, <3>1
    <3> QED
      BY <3>2
  <2>2. CASE m \notin 1..k
    <3>1. \A i \in (n + 1)..(n + k) : i - n # m
      BY <2>2
    <3> QED
      BY <1>6, <3>1
  <2> QED
    BY <2>1, <2>2
<1>9. Cardinality(Q) <= Cardinality(P) + 1
  BY <1>7, <1>8, OneMore
<1> QED
  BY <1>9 DEF P, Q

\* Cutting the list off adds no place.
LEMMA PlacesCut ==
    ASSUME NEW s \in Seq(Entry), NEW k \in Nat, k <= Len(s), NEW m
    PROVE  Cardinality(Places(SubSeq(s, 1, k), m)) <= Cardinality(Places(s, m))
<1>1. DOMAIN s = 1..Len(s) /\ DOMAIN SubSeq(s, 1, k) = 1..k
  OBVIOUS
<1>2. \A i \in 1..k : SubSeq(s, 1, k)[i] = s[i]
  OBVIOUS
<1>3. Places(SubSeq(s, 1, k), m) \subseteq Places(s, m)
  BY <1>1, <1>2 DEF Places
<1> QED
  BY <1>3, PlacesFinite, FS_Subset

LEMMA ReadersFinite ==
    ASSUME NEW S \in SUBSET Readers
    PROVE  IsFiniteSet(S) /\ Cardinality(S) \in Nat /\ Cardinality(S) <= Cardinality(Readers)
           /\ Cardinality(Readers) \in Nat
BY ReadersAssumption, FS_Subset, FS_CardinalityType

LEMMA AtMostOneCounts ==
    ASSUME NEW S, \A v, w \in S : v = w
    PROVE  IsFiniteSet(S) /\ Cardinality(S) \in 0..1
<1>1. CASE S = {}
  BY <1>1, FS_EmptySet
<1>2. CASE \E v : v \in S
  <2>1. PICK v : S = {v}
    BY <1>2
  <2> QED
    BY <2>1, FS_Singleton
<1> QED
  BY <1>1, <1>2

\* The parts of the budget are numbers, before and after a step.
LEMMA Counts ==
    ASSUME TypeOK, TypeOK', OnePushEach, OnePushEach', NEW m
    PROVE  /\ Occurrences(m) \in Nat /\ Occurrences(m)' \in Nat
           /\ IsFiniteSet(Filling) /\ IsFiniteSet(Filling')
           /\ Cardinality(Filling) \in Nat /\ Cardinality(Filling)' \in Nat
           /\ Cardinality(Pushing(m)) \in 0..1 /\ Cardinality(Pushing(m))' \in 0..1
           /\ IsFiniteSet(Pushing(m)) /\ IsFiniteSet(Pushing(m)')
           /\ Cardinality(Filling) <= Cardinality(Readers)
           /\ Cardinality(Filling)' <= Cardinality(Readers)
           /\ Cardinality(Readers) \in Nat /\ failures \in Nat /\ failures' \in Nat
<1>1. Occurrences(m) \in Nat /\ Occurrences(m)' \in Nat
  <2>1. cache \in Seq(Entry) /\ cache' \in Seq(Entry)
    BY DEF TypeOK
  <2>2. Occurrences(m) = Cardinality(Places(cache, m)) /\ Occurrences(m)' = Cardinality(Places(cache', m))
    BY DEF Occurrences, Places
  <2> QED
    BY <2>1, <2>2, PlacesFinite
<1>2. Filling \in SUBSET Readers /\ Filling' \in SUBSET Readers
  BY DEF Filling
<1>3. (\A v, w \in Pushing(m) : v = w) /\ (\A v, w \in Pushing(m)' : v = w)
  BY DEF Pushing, OnePushEach
<1>4. failures \in Nat /\ failures' \in Nat
  BY DEF TypeOK
<1> QED
  BY <1>1, <1>2, <1>3, <1>4, ReadersFinite, AtMostOneCounts

\* Steps that add no place and no user of the list keep within the budget.
LEMMA NoMore ==
    ASSUME TypeOK, TypeOK', DupInv, OnePushEach', DOMAIN docs' = DOMAIN docs,
           failures' >= failures, Filling' \subseteq Filling,
           \A m \in DOMAIN docs : Pushing(m)' \subseteq Pushing(m),
           \A m \in DOMAIN docs : Occurrences(m)' <= Occurrences(m)
    PROVE  Budget'
<1> SUFFICES ASSUME NEW m \in DOMAIN docs
             PROVE  (Occurrences(m) + Cardinality(Filling) + Cardinality(Pushing(m))
                        <= Cardinality(Readers) + 1 + failures)'
  BY DEF Budget
<1>1. OnePushEach
  BY DEF DupInv
<1>2. Cardinality(Filling)' <= Cardinality(Filling)
  BY <1>1, Counts, FS_Subset
<1>3. Cardinality(Pushing(m))' <= Cardinality(Pushing(m))
  BY <1>1, Counts, FS_Subset
<1>4. Occurrences(m) + Cardinality(Filling) + Cardinality(Pushing(m))
          <= Cardinality(Readers) + 1 + failures
  BY DEF DupInv, Budget
<1> QED
  BY <1>1, <1>2, <1>3, <1>4, Counts

LEMMA InitDup == Init => DupInv
<1> SUFFICES ASSUME Init PROVE DupInv
  OBVIOUS
<1>1. DOMAIN docs = {} /\ DOMAIN cache = {}
  BY DEF Init
<1>2. \A r \in Readers : DOMAIN snap[r] = {}
  BY DEF Init
<1>3. \A w \in Writers : wpc[w] # "push"
  BY DEF Init
<1> QED
  BY <1>1, <1>2, <1>3 DEF DupInv, OnePushEach, EntriesAreStored, Budget

LEMMA CacheMissDup ==
    ASSUME TypeOK, TypeOK', DupInv, NEW r \in Readers, CacheMiss(r)
    PROVE  DupInv'
<1>1. OnePushEach /\ EntriesAreStored /\ Budget
  BY DEF DupInv
<1>2. OnePushEach' /\ EntriesAreStored' /\ UNCHANGED <<docs, cache, wpc, msg>>
  BY <1>1 DEF CacheMiss, OnePushEach, EntriesAreStored
<1>3. Filling' = Filling \cup {r} /\ r \notin Filling
  BY DEF CacheMiss, Filling, TypeOK
<1>4. ASSUME NEW m \in DOMAIN docs
      PROVE  (Occurrences(m) + Cardinality(Filling) + Cardinality(Pushing(m))
                 <= Cardinality(Readers) + 1 + failures)'
  <2>1. Occurrences(m)' = Occurrences(m) /\ Pushing(m)' = Pushing(m)
    BY <1>2 DEF Occurrences, Pushing
  <2>2. CASE cache = <<>>
    <3>1. Occurrences(m) = 0
      <4>1. {i \in DOMAIN cache : cache[i].msg = m} = {}
        BY <2>2
      <4> QED
        BY <4>1, FS_EmptySet DEF Occurrences
    <3> QED
      BY <1>1, <1>2, <2>1, <3>1, Counts
  <2>3. CASE Fail
    <3>1. Cardinality(Filling)' = Cardinality(Filling) + 1 /\ failures' = failures + 1
      BY <1>1, <1>2, <1>3, <2>3, Counts, FS_AddElement DEF Fail
    <3>2. Occurrences(m) + Cardinality(Filling) + Cardinality(Pushing(m))
              <= Cardinality(Readers) + 1 + failures
      BY <1>1 DEF Budget
    <3>3. Cardinality(Pushing(m))' = Cardinality(Pushing(m))
      BY <2>1
    <3> QED
      BY <1>1, <1>2, <2>1, <3>1, <3>2, <3>3, Counts
  <2> QED
    BY <2>2, <2>3 DEF CacheMiss
<1> QED
  BY <1>2, <1>4 DEF DupInv, Budget

LEMMA AggregateDup ==
    ASSUME TypeOK, TypeOK', DupInv, NEW r \in Readers, Aggregate(r)
    PROVE  DupInv'
<1>1. OnePushEach' /\ UNCHANGED <<docs, cache, wpc, msg>>
  BY DEF Aggregate, DupInv, OnePushEach
<1>2. EntriesAreStored'
  <2>1. snap' = snap \/ snap' = [snap EXCEPT ![r] = Snapshot]
    BY DEF Aggregate, Snapshot
  <2>2. \A s \in Readers : snap'[s] = snap[s] \/ snap'[s] = Snapshot
    BY <2>1 DEF TypeOK
  <2>3. \A i \in DOMAIN Snapshot : Snapshot[i].msg = i /\ i \in DOMAIN docs
    BY DEF Snapshot
  <2> QED
    BY <1>1, <2>2, <2>3 DEF DupInv, EntriesAreStored
<1>3. Filling' \subseteq Filling
  BY DEF Aggregate, Filling, TypeOK
<1>4. failures' >= failures
  BY DEF Aggregate, Fail, TypeOK
<1>5. \A m : Occurrences(m)' = Occurrences(m) /\ Pushing(m)' = Pushing(m)
  BY <1>1 DEF Occurrences, Pushing
<1>6. \A m : Occurrences(m) \in Nat
  BY <1>1, Counts DEF DupInv
<1> QED
  BY <1>1, <1>2, <1>3, <1>4, <1>5, <1>6, NoMore DEF DupInv

LEMMA PopulateDup ==
    ASSUME TypeOK, TypeOK', DupInv, NEW r \in Readers, PopulateMessages(r)
    PROVE  DupInv'
<1>1. OnePushEach /\ EntriesAreStored /\ Budget
  BY DEF DupInv
<1>2. OnePushEach' /\ UNCHANGED <<docs, wpc, msg>>
  BY <1>1 DEF PopulateMessages, OnePushEach
<1>3. Filling' = Filling \ {r} /\ r \in Filling
  BY DEF PopulateMessages, Filling, TypeOK
<1>4. failures' \in Nat /\ failures' >= failures /\ cache \in Seq(Entry) /\ snap[r] \in Seq(Entry)
  BY DEF PopulateMessages, Fail, TypeOK
<1>5. \A s \in Readers : snap'[s] = snap[s] \/ snap'[s] = <<>>
  BY DEF PopulateMessages, TypeOK
<1>6. EntriesAreStored'
  <2>1. \A s \in Readers : \A i \in DOMAIN snap'[s] : snap'[s][i].msg = i /\ i \in DOMAIN docs
    BY <1>1, <1>5 DEF EntriesAreStored
  <2>2. \A i \in DOMAIN cache' : cache'[i].msg \in DOMAIN docs
    <3>1. CASE cache' = cache
      BY <1>1, <3>1 DEF EntriesAreStored
    <3>2. CASE cache' = cache \o snap[r]
      <4>1. PICK n \in Nat, k \in Nat : /\ n = Len(cache) /\ DOMAIN cache = 1..n
                                        /\ k = Len(snap[r]) /\ DOMAIN snap[r] = 1..k
        BY <1>4
      <4>2. /\ DOMAIN cache' = 1..(n + k)
            /\ \A i \in 1..n : cache'[i] = cache[i]
            /\ \A i \in (n + 1)..(n + k) : cache'[i] = snap[r][i - n]
        BY <1>4, <3>2, <4>1
      <4>3. ASSUME NEW i \in (n + 1)..(n + k)
            PROVE  cache'[i].msg \in DOMAIN docs
        <5>1. i - n \in 1..k
          OBVIOUS
        <5> QED
          BY <1>1, <4>1, <4>2, <5>1 DEF EntriesAreStored
      <4>4. ASSUME NEW i \in 1..n
            PROVE  cache'[i].msg \in DOMAIN docs
        BY <1>1, <4>1, <4>2 DEF EntriesAreStored
      <4>5. \A i \in 1..(n + k) : i \in 1..n \/ i \in (n + 1)..(n + k)
        OBVIOUS
      <4> QED
        BY <4>2, <4>3, <4>4, <4>5
    <3> QED
      BY <3>1, <3>2 DEF PopulateMessages
  <2> QED
    BY <1>2, <2>1, <2>2 DEF EntriesAreStored
<1>7. ASSUME NEW m \in DOMAIN docs
      PROVE  (Occurrences(m) + Cardinality(Filling) + Cardinality(Pushing(m))
                 <= Cardinality(Readers) + 1 + failures)'
  <2>1. Cardinality(Filling)' = Cardinality(Filling) - 1
    BY <1>1, <1>2, <1>3, Counts, FS_RemoveElement
  <2>2. Cardinality(Pushing(m))' = Cardinality(Pushing(m))
    BY <1>2 DEF Pushing
  <2>3. Occurrences(m)' <= Occurrences(m) + 1
    <3>1. CASE cache' = cache
      <4>1. Occurrences(m) \in Nat
        BY <1>1, <1>2, Counts
      <4>2. Occurrences(m)' = Occurrences(m)
        BY <3>1 DEF Occurrences
      <4> QED
        BY <4>1, <4>2
    <3>2. CASE cache' = cache \o snap[r]
      <4>1. \A i \in DOMAIN snap[r] : snap[r][i].msg = i
        BY <1>1 DEF EntriesAreStored
      <4>2. Cardinality(Places(cache', m)) <= Cardinality(Places(cache, m)) + 1
        BY <1>4, <3>2, <4>1, PlacesConcat
      <4> QED
        BY <4>2 DEF Places, Occurrences
    <3> QED
      BY <3>1, <3>2 DEF PopulateMessages
  <2>4. Occurrences(m) + Cardinality(Filling) + Cardinality(Pushing(m))
            <= Cardinality(Readers) + 1 + failures
    BY <1>1 DEF Budget
  <2>5. /\ Occurrences(m) \in Nat /\ Occurrences(m)' \in Nat
        /\ Cardinality(Filling) \in Nat /\ Cardinality(Pushing(m)) \in Nat
        /\ Cardinality(Readers) \in Nat /\ failures \in Nat
    BY <1>1, <1>2, Counts
  <2> QED
    BY <1>4, <2>1, <2>2, <2>3, <2>4, <2>5
<1> QED
  BY <1>2, <1>6, <1>7 DEF DupInv, Budget

LEMMA InsertDup ==
    ASSUME TypeOK, TypeOK', DupInv, NEW w \in Writers, InsertOne(w)
    PROVE  DupInv'
<1>1. OnePushEach /\ EntriesAreStored /\ Budget
  BY DEF DupInv
<1>2. PICK n \in Nat : n = Len(docs) /\ DOMAIN docs = 1..n
  BY DEF TypeOK
<1>3. DOMAIN docs' = 1..(n + 1) /\ UNCHANGED <<cache, rpc, snap, failures>>
  BY <1>2 DEF InsertOne, TypeOK
<1>4. /\ wpc'[w] = "push" /\ msg'[w] = n + 1 /\ wpc[w] = "idle"
      /\ \A v \in Writers \ {w} : wpc'[v] = wpc[v] /\ msg'[v] = msg[v]
  BY <1>2 DEF InsertOne, TypeOK
<1>5. OnePushEach'
  BY <1>1, <1>2, <1>3, <1>4 DEF OnePushEach
<1>6. EntriesAreStored'
  BY <1>1, <1>2, <1>3 DEF EntriesAreStored
<1>7. Filling' = Filling
  BY <1>3 DEF Filling
<1>8. ASSUME NEW m \in DOMAIN docs
      PROVE  (Occurrences(m) + Cardinality(Filling) + Cardinality(Pushing(m))
                 <= Cardinality(Readers) + 1 + failures)'
  <2>1. Pushing(m)' = Pushing(m)
    BY <1>2, <1>4 DEF Pushing
  <2>2. Occurrences(m)' = Occurrences(m)
    BY <1>3 DEF Occurrences
  <2> QED
    BY <1>1, <1>3, <1>7, <2>1, <2>2 DEF Budget
<1>9. (Occurrences(n + 1) + Cardinality(Filling) + Cardinality(Pushing(n + 1))
          <= Cardinality(Readers) + 1 + failures)'
  <2>1. {i \in DOMAIN cache' : cache'[i].msg = n + 1} = {}
    BY <1>1, <1>2, <1>3 DEF EntriesAreStored
  <2>2. Occurrences(n + 1)' = 0
    BY <2>1, FS_EmptySet DEF Occurrences
  <2> QED
    BY <1>1, <1>5, <2>2, Counts
<1>10. \A m \in 1..(n + 1) : m \in 1..n \/ m = n + 1
  OBVIOUS
<1> QED
  BY <1>2, <1>3, <1>5, <1>6, <1>8, <1>9, <1>10 DEF DupInv, Budget

\* A writer that leaves its push leaves one push less.
LEMMA FinishPushing ==
    ASSUME TypeOK, OnePushEach, NEW w \in Writers, Finish(w), DOMAIN docs' = DOMAIN docs
    PROVE  OnePushEach' /\ \A m : Pushing(m)' \subseteq Pushing(m)
<1>1. wpc'[w] = "idle" /\ \A v \in Writers \ {w} : wpc'[v] = wpc[v] /\ msg'[v] = msg[v]
  BY DEF Finish, TypeOK
<1> QED
  BY <1>1 DEF OnePushEach, Pushing

LEMMA PushDup ==
    ASSUME TypeOK, TypeOK', DupInv, NEW w \in Writers, RPushX(w)
    PROVE  DupInv'
<1>1. OnePushEach /\ EntriesAreStored /\ Budget
  BY DEF DupInv
<1>2. UNCHANGED <<docs, rpc, snap, failures>> /\ Filling' = Filling
  BY DEF RPushX, Filling
<1>3. CASE cache = <<>>
  <2>1. Finish(w) /\ cache' = cache
    BY <1>3 DEF RPushX
  <2>2. OnePushEach' /\ \A m : Pushing(m)' \subseteq Pushing(m)
    BY <1>1, <1>2, <2>1, FinishPushing
  <2>3. EntriesAreStored'
    BY <1>1, <1>2, <2>1 DEF EntriesAreStored
  <2>4. \A m : Occurrences(m)' = Occurrences(m)
    BY <2>1 DEF Occurrences
  <2>5. failures' >= failures /\ \A m : Occurrences(m) \in Nat
    BY <1>1, <1>2, <2>2, Counts
  <2> QED
    BY <1>2, <2>2, <2>3, <2>4, <2>5, NoMore DEF DupInv
<1>4. CASE cache # <<>>
  <2> DEFINE new == [msg |-> msg[w], ver |-> 0]
  <2>1. cache' = Append(cache, new) /\ wpc' = [wpc EXCEPT ![w] = "trim"] /\ msg' = msg
    BY <1>4 DEF RPushX
  <2>2. /\ wpc[w] = "push" /\ wpc'[w] = "trim"
        /\ \A v \in Writers \ {w} : wpc'[v] = wpc[v]
    BY <2>1 DEF RPushX, TypeOK
  <2>3. new \in Entry /\ cache \in Seq(Entry)
    BY DEF TypeOK, Entry
  <2>4. OnePushEach'
    BY <1>1, <1>2, <2>1, <2>2 DEF OnePushEach
  <2>5. EntriesAreStored'
    <3>1. new.msg \in DOMAIN docs
      BY <1>1, <2>2 DEF OnePushEach
    <3>2. \A i \in DOMAIN cache' : cache'[i] = new \/ (i \in DOMAIN cache /\ cache'[i] = cache[i])
      <4> HIDE DEF new
      <4> QED
        BY <2>1, <2>3
    <3> QED
      BY <1>1, <1>2, <3>1, <3>2 DEF EntriesAreStored
  <2>6. ASSUME NEW m \in DOMAIN docs
        PROVE  (Occurrences(m) + Cardinality(Filling) + Cardinality(Pushing(m))
                   <= Cardinality(Readers) + 1 + failures)'
    <3>1. Occurrences(m)' = IF msg[w] = m THEN Occurrences(m) + 1 ELSE Occurrences(m)
      <4>1. Cardinality(Places(cache', m)) =
              IF new.msg = m THEN Cardinality(Places(cache, m)) + 1 ELSE Cardinality(Places(cache, m))
        <5> HIDE DEF new
        <5> QED
          BY <2>1, <2>3, PlacesAppend
      <4> QED
        BY <4>1 DEF Places, Occurrences
    <3>2. Pushing(m)' = Pushing(m) \ {w} /\ (msg[w] = m <=> w \in Pushing(m))
      BY <2>1, <2>2 DEF Pushing
    <3>3. Cardinality(Pushing(m))' =
              IF msg[w] = m THEN Cardinality(Pushing(m)) - 1 ELSE Cardinality(Pushing(m))
      BY <1>1, <2>4, <3>2, Counts, FS_RemoveElement
    <3>4. Occurrences(m) + Cardinality(Filling) + Cardinality(Pushing(m))
              <= Cardinality(Readers) + 1 + failures
      BY <1>1 DEF Budget
    <3>5. /\ Occurrences(m) \in Nat /\ Cardinality(Filling) \in Nat
          /\ Cardinality(Pushing(m)) \in Nat /\ Cardinality(Readers) \in Nat /\ failures \in Nat
      BY <1>1, <2>4, Counts
    <3>6. Cardinality(Filling)' = Cardinality(Filling) /\ failures' = failures
      BY <1>2
    <3> QED
      BY <3>1, <3>3, <3>4, <3>5, <3>6
  <2> QED
    BY <1>2, <2>4, <2>5, <2>6 DEF DupInv, Budget
<1> QED
  BY <1>3, <1>4

LEMMA TrimDup ==
    ASSUME TypeOK, TypeOK', DupInv, NEW w \in Writers, LTrim(w)
    PROVE  DupInv'
<1>1. OnePushEach /\ EntriesAreStored
  BY DEF DupInv
<1>2. UNCHANGED <<docs, rpc, snap, failures>> /\ Filling' = Filling /\ Finish(w)
  BY DEF LTrim, Filling
<1>3. OnePushEach' /\ \A m : Pushing(m)' \subseteq Pushing(m)
  BY <1>1, <1>2, FinishPushing
<1>4. cache' = cache \/ (Len(cache) > Limit /\ cache' = SubSeq(cache, 1, Limit))
  BY DEF LTrim
<1>5. cache \in Seq(Entry) /\ Limit \in Nat /\ Limit >= 1
  BY BoundsAssumption DEF TypeOK
<1>6. EntriesAreStored'
  <2>1. \A i \in DOMAIN cache' : i \in DOMAIN cache /\ cache'[i] = cache[i]
    <3>1. CASE Len(cache) > Limit /\ cache' = SubSeq(cache, 1, Limit)
      <4>1. PICK n \in Nat : n = Len(cache) /\ DOMAIN cache = 1..n
        BY <1>5
      <4>2. DOMAIN cache' = 1..Limit /\ \A i \in 1..Limit : cache'[i] = cache[i]
        BY <1>5, <3>1
      <4> QED
        BY <1>5, <3>1, <4>1, <4>2
    <3> QED
      BY <1>4, <3>1
  <2> QED
    BY <1>1, <1>2, <2>1 DEF EntriesAreStored
<1>7. failures' >= failures /\ \A m : Occurrences(m) \in Nat
  BY <1>1, <1>2, <1>3, Counts
<1>8. ASSUME NEW m
      PROVE  Occurrences(m)' <= Occurrences(m)
  <2>1. CASE cache' = cache
    <3>1. Occurrences(m)' = Occurrences(m)
      BY <2>1 DEF Occurrences
    <3> QED
      BY <1>7, <3>1
  <2>2. CASE Len(cache) > Limit /\ cache' = SubSeq(cache, 1, Limit)
    <3>1. Cardinality(Places(cache', m)) <= Cardinality(Places(cache, m))
      BY <1>5, <2>2, PlacesCut
    <3> QED
      BY <3>1 DEF Places, Occurrences
  <2> QED
    BY <1>4, <2>1, <2>2
<1> QED
  BY <1>2, <1>3, <1>6, <1>7, <1>8, NoMore DEF DupInv

LEMMA UpdateDup ==
    ASSUME TypeOK, TypeOK', DupInv, NEW w \in Writers, FindOneAndUpdate(w)
    PROVE  DupInv'
<1>1. OnePushEach /\ EntriesAreStored
  BY DEF DupInv
<1>2. /\ DOMAIN docs' = DOMAIN docs /\ UNCHANGED <<cache, rpc, snap, failures>>
      /\ wpc[w] = "idle" /\ wpc'[w] = "lookup"
      /\ \A v \in Writers \ {w} : wpc'[v] = wpc[v] /\ msg'[v] = msg[v]
  BY DEF FindOneAndUpdate, TypeOK
<1>3. OnePushEach' /\ EntriesAreStored'
  BY <1>1, <1>2 DEF OnePushEach, EntriesAreStored
<1>4. Filling' = Filling /\ \A m : Pushing(m)' = Pushing(m) /\ Occurrences(m)' = Occurrences(m)
  BY <1>2 DEF Filling, Pushing, Occurrences
<1>5. failures' >= failures /\ \A m : Occurrences(m) \in Nat
  BY <1>1, <1>2, <1>3, Counts
<1> QED
  BY <1>2, <1>3, <1>4, <1>5, NoMore DEF DupInv

LEMMA LookupDup ==
    ASSUME TypeOK, TypeOK', DupInv, NEW w \in Writers, GetUserById(w)
    PROVE  DupInv'
<1>1. OnePushEach /\ EntriesAreStored
  BY DEF DupInv
<1>2. UNCHANGED <<docs, cache, rpc, snap>> /\ Filling' = Filling
  BY DEF GetUserById, Filling
<1>3. OnePushEach' /\ \A m : Pushing(m)' \subseteq Pushing(m)
  <2>1. CASE Finish(w)
    BY <1>1, <1>2, <2>1, FinishPushing
  <2>2. CASE wpc' = [wpc EXCEPT ![w] = "del"] /\ msg' = msg
    <3>1. wpc'[w] = "del" /\ \A v \in Writers \ {w} : wpc'[v] = wpc[v]
      BY <2>2 DEF TypeOK
    <3> QED
      BY <1>1, <1>2, <2>2, <3>1 DEF OnePushEach, Pushing
  <2> QED
    BY <2>1, <2>2 DEF GetUserById
<1>4. EntriesAreStored' /\ \A m : Occurrences(m)' = Occurrences(m)
  BY <1>1, <1>2 DEF EntriesAreStored, Occurrences
<1>5. failures' >= failures
  BY DEF GetUserById, Fail, TypeOK
<1>6. \A m : Occurrences(m) \in Nat
  BY <1>1, <1>3, Counts
<1> QED
  BY <1>2, <1>3, <1>4, <1>5, <1>6, NoMore DEF DupInv

LEMMA DropDup ==
    ASSUME TypeOK, TypeOK', DupInv, NEW w \in Writers, UpdateMessage(w) \/ WriterFails(w)
    PROVE  DupInv'
<1>1. OnePushEach /\ EntriesAreStored
  BY DEF DupInv
<1>2. UNCHANGED <<docs, rpc, snap>> /\ Filling' = Filling /\ Finish(w)
  BY DEF UpdateMessage, WriterFails, Filling
<1>3. OnePushEach' /\ \A m : Pushing(m)' \subseteq Pushing(m)
  BY <1>1, <1>2, FinishPushing
<1>4. cache' = cache \/ cache' = <<>>
  BY DEF UpdateMessage, WriterFails
<1>5. EntriesAreStored'
  BY <1>1, <1>2, <1>4 DEF EntriesAreStored
<1>6. \A m : Occurrences(m) \in Nat
  BY <1>1, <1>3, Counts
<1>7. ASSUME NEW m
      PROVE  Occurrences(m)' <= Occurrences(m)
  <2>1. CASE cache' = cache
    <3>1. Occurrences(m)' = Occurrences(m)
      BY <2>1 DEF Occurrences
    <3> QED
      BY <1>6, <3>1
  <2>2. CASE cache' = <<>>
    <3>1. {i \in DOMAIN cache' : cache'[i].msg = m} = {}
      BY <2>2
    <3>2. Occurrences(m)' = 0
      BY <3>1, FS_EmptySet DEF Occurrences
    <3> QED
      BY <1>6, <3>2
  <2> QED
    BY <1>4, <2>1, <2>2
<1>8. failures' >= failures
  BY DEF UpdateMessage, WriterFails, Fail, TypeOK
<1> QED
  BY <1>2, <1>3, <1>5, <1>7, <1>8, NoMore DEF DupInv

LEMMA StepDup == TypeOK /\ TypeOK' /\ DupInv /\ [Next]_vars => DupInv'
<1> SUFFICES ASSUME TypeOK, TypeOK', DupInv, [Next]_vars
             PROVE  DupInv'
  OBVIOUS
<1>1. CASE UNCHANGED vars
  BY <1>1
  DEF vars, DupInv, OnePushEach, EntriesAreStored, Budget, Occurrences, Filling, Pushing
<1> QED
  BY <1>1, CacheMissDup, AggregateDup, PopulateDup, InsertDup, PushDup, TrimDup, UpdateDup,
     LookupDup, DropDup DEF Next

\* However many readers, writers and failures there are and however they overlap,
\* a message is in the list at most once for each reader, once for its own push
\* and once for each failure.
THEOREM DuplicationIsBounded == Spec => []BoundedDuplication
<1>1. DupInv /\ TypeOK => BoundedDuplication
  <2> SUFFICES ASSUME DupInv, TypeOK, NEW m \in DOMAIN docs
               PROVE  Occurrences(m) <= Cardinality(Readers) + 1 + failures
    BY DEF BoundedDuplication
  <2>1. cache \in Seq(Entry) /\ failures \in Nat
    BY DEF TypeOK
  <2>2. Occurrences(m) \in Nat
    BY <2>1, PlacesFinite DEF Occurrences, Places
  <2>3. /\ Cardinality(Filling) \in Nat /\ Cardinality(Readers) \in Nat
    BY ReadersFinite DEF Filling
  <2>4. Cardinality(Pushing(m)) \in 0..1
    BY AtMostOneCounts DEF DupInv, OnePushEach, Pushing
  <2>5. Occurrences(m) + Cardinality(Filling) + Cardinality(Pushing(m))
            <= Cardinality(Readers) + 1 + failures
    BY DEF DupInv, Budget
  <2> QED
    BY <2>1, <2>2, <2>3, <2>4, <2>5
<1> QED
  BY <1>1, InitDup, StepDup, StoreTypeCorrect, PTL DEF Spec
=============================================================================
