---------------------------- MODULE MessageStore ----------------------------
(***************************************************************************)
(* The messages of one chat in MongoDB and their copy in a Redis list      *)
(* (internal/store).  Writers are chat-server handlers: they change        *)
(* MongoDB first and the list afterwards.  Readers are webapp handlers in  *)
(* GetMessages: what they do not find in the list they aggregate from      *)
(* MongoDB and push onto the list.  Each call to MongoDB or Redis is a     *)
(* step of its own; nothing else keeps readers and writers apart.          *)
(*                                                                         *)
(* A message is its position in the collection (the aggregation returns    *)
(* insertion order), its content a version number.  Redis has no empty     *)
(* lists: an absent key is <<>>.                                           *)
(***************************************************************************)
EXTENDS Naturals, Sequences, FiniteSets

CONSTANTS
    Readers,
    Writers,
    Limit,         \* messages LRANGE and LTRIM keep: 100 in the code
    MaxDocs,       \* bound: messages inserted
    MaxUpdates,    \* bound: updates of messages
    MaxFailures    \* bound: calls that fail and handlers that crash

ASSUME BoundsAssumption ==
    /\ Limit \in Nat \ {0}
    /\ MaxDocs \in Nat /\ MaxUpdates \in Nat /\ MaxFailures \in Nat

\* Readers are goroutines; BoundedDuplication counts them.
ASSUME ReadersAssumption == IsFiniteSet(Readers)

VARIABLES
    docs,       \* docs[m]: the version of message m in MongoDB
    cache,      \* the Redis list, a sequence of [msg, ver]
    rpc,        \* rpc[r]: idle, missed (LRANGE was empty), fill
    snap,       \* snap[r]: what r's aggregation returned
    wpc,        \* wpc[w]: idle, push, trim, lookup, del
    msg,        \* msg[w]: the message w writes, 0 when none
    updates,
    failures,
    disturbed   \* history: since the list was last dropped with nobody else at
                \* it, two of its users overlapped or one of them failed

vars == <<docs, cache, rpc, snap, wpc, msg, updates, failures, disturbed>>

Entry == [msg : Nat, ver : Nat]

\* A reader between its LRANGE and its RPUSH, a writer between its change of
\* MongoDB and the end of its calls to Redis.
Filling == {r \in Readers : rpc[r] # "idle"}
Writing == {w \in Writers : wpc[w] # "idle"}

\* The disturbance that t starting now brings.
Overlap == Filling \cup Writing # {}

Fail == failures < MaxFailures /\ failures' = failures + 1

Init ==
    /\ docs = <<>> /\ cache = <<>>
    /\ rpc = [r \in Readers |-> "idle"]
    /\ snap = [r \in Readers |-> <<>>]
    /\ wpc = [w \in Writers |-> "idle"]
    /\ msg = [w \in Writers |-> 0]
    /\ updates = 0 /\ failures = 0
    /\ disturbed = FALSE

-----------------------------------------------------------------------------
(* GetMessages.                                                            *)

MutantCacheMiss(r) ==
    /\ rpc[r] = "idle"
    /\ cache = <<>> \/ Len(cache) < Limit
    /\ rpc' = [rpc EXCEPT ![r] = "missed"]
    /\ disturbed' = (disturbed \/ Overlap)
    /\ UNCHANGED <<docs, cache, snap, wpc, msg, updates, failures>>

\* LRANGE finds nothing, or fails.  (What it finds is the answer, and finding it
\* changes nothing.)
CacheMiss(r) ==
    /\ rpc[r] = "idle"
    /\ \/ cache = <<>> /\ UNCHANGED failures /\ disturbed' = (disturbed \/ Overlap)
       \/ Fail /\ disturbed' = TRUE
    /\ rpc' = [rpc EXCEPT ![r] = "missed"]
    /\ UNCHANGED <<docs, cache, snap, wpc, msg, updates>>

\* The aggregation answers with all messages of the chat, or fails.
Aggregate(r) ==
    /\ rpc[r] = "missed"
    /\ \/ /\ snap' = [snap EXCEPT ![r] =
                        [m \in DOMAIN docs |-> [msg |-> m, ver |-> docs[m]]]]
          /\ rpc' = [rpc EXCEPT ![r] = "fill"]
          /\ UNCHANGED failures
       \/ Fail /\ rpc' = [rpc EXCEPT ![r] = "idle"] /\ UNCHANGED snap
    /\ UNCHANGED <<docs, cache, wpc, msg, updates, disturbed>>

\* PopulateMessages: RPUSH of all of them, of which an error is only logged (it
\* is one to push nothing).
PopulateMessages(r) ==
    /\ rpc[r] = "fill"
    /\ \/ cache' = cache \o snap[r] /\ UNCHANGED failures
       \/ Fail /\ UNCHANGED cache
    /\ snap' = [snap EXCEPT ![r] = <<>>]
    /\ rpc' = [rpc EXCEPT ![r] = "idle"]
    /\ UNCHANGED <<docs, wpc, msg, updates, disturbed>>

-----------------------------------------------------------------------------
(* SaveMessage of a new message.                                           *)

MutantInsertOne(w) ==
    /\ wpc[w] = "idle"
    /\ Len(docs) < MaxDocs
    /\ \/ docs' = Append(docs, 0)
       \/ UNCHANGED docs
    /\ msg' = [msg EXCEPT ![w] = Len(docs) + 1]
    /\ wpc' = [wpc EXCEPT ![w] = "push"]
    /\ disturbed' = (disturbed \/ Overlap)
    /\ UNCHANGED <<cache, rpc, snap, updates, failures>>

InsertOne(w) ==
    /\ wpc[w] = "idle"
    /\ Len(docs) < MaxDocs
    /\ docs' = Append(docs, 0)
    /\ msg' = [msg EXCEPT ![w] = Len(docs) + 1]
    /\ wpc' = [wpc EXCEPT ![w] = "push"]
    /\ disturbed' = (disturbed \/ Overlap)
    /\ UNCHANGED <<cache, rpc, snap, updates, failures>>

Finish(w) ==
    /\ wpc' = [wpc EXCEPT ![w] = "idle"]
    /\ msg' = [msg EXCEPT ![w] = 0]

\* RPUSHX appends to an existing list only; LTRIM follows when it did.
RPushX(w) ==
    /\ wpc[w] = "push"
    /\ IF cache = <<>>
       THEN Finish(w) /\ UNCHANGED cache
       ELSE /\ cache' = Append(cache, [msg |-> msg[w], ver |-> 0])
            /\ wpc' = [wpc EXCEPT ![w] = "trim"]
            /\ UNCHANGED msg
    /\ UNCHANGED <<docs, rpc, snap, updates, failures, disturbed>>

\* LTRIM 0 99 keeps the first entries, which are the oldest.
LTrim(w) ==
    /\ wpc[w] = "trim"
    /\ cache' = IF Len(cache) > Limit THEN SubSeq(cache, 1, Limit) ELSE cache
    /\ Finish(w)
    /\ UNCHANGED <<docs, rpc, snap, updates, failures, disturbed>>

-----------------------------------------------------------------------------
(* UpdateMessageContent, SetHideMessage and DeleteMessage.                 *)

FindOneAndUpdate(w) ==
    /\ wpc[w] = "idle"
    /\ updates < MaxUpdates
    /\ \E m \in DOMAIN docs :
        /\ docs' = [docs EXCEPT ![m] = @ + 1]
        /\ msg' = [msg EXCEPT ![w] = m]
    /\ wpc' = [wpc EXCEPT ![w] = "lookup"]
    /\ updates' = updates + 1
    /\ disturbed' = (disturbed \/ Overlap)
    /\ UNCHANGED <<cache, rpc, snap, failures>>

\* GetUserById for the author; when it fails the list is left as it is.
GetUserById(w) ==
    /\ wpc[w] = "lookup"
    /\ \/ /\ wpc' = [wpc EXCEPT ![w] = "del"]
          /\ UNCHANGED <<msg, failures, disturbed>>
       \/ Fail /\ Finish(w) /\ disturbed' = TRUE
    /\ UNCHANGED <<docs, cache, rpc, snap, updates>>

MutantUpdateMessage(w) ==
    /\ wpc[w] = "del"
    /\ cache' = SelectSeq(cache, LAMBDA e : e.msg # msg[w])
    /\ disturbed' = (Filling # {} \/ Writing # {w})
    /\ Finish(w)
    /\ UNCHANGED <<docs, rpc, snap, updates, failures>>

\* RedisStore.UpdateMessage: DEL.
UpdateMessage(w) ==
    /\ wpc[w] = "del"
    /\ cache' = <<>>
    /\ disturbed' = (Filling # {} \/ Writing # {w})
    /\ Finish(w)
    /\ UNCHANGED <<docs, rpc, snap, updates, failures>>

\* A call to Redis fails (the error is dropped) or the chat-server crashes.
WriterFails(w) ==
    /\ wpc[w] # "idle"
    /\ Fail
    /\ disturbed' = TRUE
    /\ Finish(w)
    /\ UNCHANGED <<docs, cache, rpc, snap, updates>>

-----------------------------------------------------------------------------
Next ==
    \/ \E r \in Readers : CacheMiss(r) \/ Aggregate(r) \/ PopulateMessages(r)
    \/ \E w \in Writers : InsertOne(w) \/ RPushX(w) \/ LTrim(w)
    \/ \E w \in Writers : FindOneAndUpdate(w) \/ GetUserById(w) \/ UpdateMessage(w)
    \/ \E w \in Writers : WriterFails(w)

Spec == Init /\ [][Next]_vars

-----------------------------------------------------------------------------
(* Properties.                                                             *)

TypeOK ==
    /\ docs \in Seq(Nat)
    /\ cache \in Seq(Entry)
    /\ rpc \in [Readers -> {"idle", "missed", "fill"}]
    /\ snap \in [Readers -> Seq(Entry)]
    /\ wpc \in [Writers -> {"idle", "push", "trim", "lookup", "del"}]
    /\ msg \in [Writers -> 0..Len(docs)]
    /\ updates \in Nat /\ failures \in Nat
    /\ disturbed \in BOOLEAN

Settled(m) == \A w \in Writers : msg[w] # m

\* What LRANGE 0 99 returns.
Hit == IF Len(cache) > Limit THEN SubSeq(cache, 1, Limit) ELSE cache

\* As long as no two users of the list overlapped and none failed, a cache hit
\* is the beginning of the chat: every message in its place and in its latest
\* version, none missing unless the list is full, but for a message that is
\* being written at the moment and not announced yet.
CoherentUnlessDisturbed ==
    ~ disturbed /\ cache # <<>>
        => /\ \A i \in DOMAIN Hit :
                /\ Hit[i].msg = i
                /\ Settled(i) => Hit[i].ver = docs[i]
           /\ \/ Len(Hit) = Limit
              \/ \A m \in DOMAIN docs : Settled(m) => m <= Len(Hit)

Occurrences(m) == Cardinality({i \in DOMAIN cache : cache[i].msg = m})

\* Whatever overlaps, a message is in the list at most once for its own push,
\* once for each reader that missed it at the same time and once for each LRANGE
\* that failed (GetMessages takes the failure for a miss): a list that is there
\* is not filled again and again.
BoundedDuplication ==
    \A m \in DOMAIN docs : Occurrences(m) <= Cardinality(Readers) + 1 + failures
=============================================================================
