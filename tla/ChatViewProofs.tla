-------------------------- MODULE ChatViewProofs ----------------------------
(***************************************************************************)
(* What ChatView's page shows is what is stored, whatever the number of    *)
(* messages, changes and moves between chats.                              *)
(*                                                                         *)
(* The frames on the wire and the notifications behind them are counted as *)
(* one list of news (Told, News).  NewsOK says that the news of a message  *)
(* come in the order of its versions and end with the stored one.  PageInv *)
(* says of the last window, on the page or still on the wire, that its     *)
(* list becomes the chat's when what comes after it has arrived; SendInv   *)
(* says it of the window that the handler is about to send, whose news are *)
(* told already or crossed it.  What a list of the cache gives otherwise   *)
(* than stored counts as crossed.                                          *)
(***************************************************************************)
EXTENDS ChatView, FiniteSetTheorems, TLAPS

-----------------------------------------------------------------------------
(* What is on its way to the page: the frames on the wire and, behind them, *)
(* the notifications in the queue, in one count.                            *)

Last == Len(wire) + Len(inbox)

\* The places of what tells of a message.
Told == {k \in 1..Last : k <= Len(wire) => wire[k].type # "window"}

News(k) == IF k <= Len(wire) THEN wire[k].list[1] ELSE inbox[k - Len(wire)].item

\* What is told after place l.
Coming(l) == {News(k) : k \in {j \in Told : j > l}}

FramesOK ==
    \A k \in DOMAIN wire : wire[k].type # "window" =>
        /\ Len(wire[k].list) = 1
        /\ wire[k].list[1].msg \in DOMAIN docs
        /\ wire[k].chat = docs[wire[k].list[1].msg].chat

NotesOK ==
    \A k \in DOMAIN inbox :
        /\ inbox[k].item.msg \in DOMAIN docs
        /\ inbox[k].chat = docs[inbox[k].item.msg].chat
        /\ inbox[k].type = "new" <=> inbox[k].item.version = 0

\* News of a message come in the order of its versions and end with the stored
\* one.  New messages come in the order of their insertion.
NewsOK ==
    /\ \A k \in Told : News(k).version <= docs[News(k).msg].version
    /\ \A j, k \in Told : j < k =>
          /\ News(j).msg = News(k).msg => News(j).version < News(k).version
          /\ News(j).version = 0 /\ News(k).version = 0 => News(j).msg < News(k).msg
    /\ \A j \in Told : \E k \in Told :
          j <= k /\ News(k) = [msg |-> News(j).msg, version |-> docs[News(j).msg].version]

-----------------------------------------------------------------------------
(* The window that the page has, or will have.                             *)

Latest(l) ==
    /\ l = 0 \/ (l \in DOMAIN wire /\ wire[l].type = "window")
    /\ \A k \in DOMAIN wire : k > l => wire[k].type # "window"

BaseChat(l) == IF l = 0 THEN page.chat ELSE wire[l].chat
BaseList(l) == IF l = 0 THEN page.list ELSE wire[l].list

\* A list of messages of the current chat.
OfCurrent(list) ==
    \A i \in DOMAIN list : list[i].msg \in DOMAIN docs /\ docs[list[i].msg].chat = current

Uncrossed == {m \in DOMAIN docs \ crossed : docs[m].chat = current}

OneAt(list, i, m) ==
    i \in DOMAIN list /\ list[i].msg = m /\ \A j \in DOMAIN list : list[j].msg = m => j = i

\* What comes after the window l belongs to it, or marks another chat.
FragmentsFit(l) ==
    \A k \in DOMAIN wire : k > l =>
        /\ wire[k].type = "mark" <=> wire[k].chat # current
        /\ wire[k].type = "append" => wire[k].list[1].version = 0
        /\ wire[k].type = "swap" => wire[k].list[1].version # 0

\* m is in the list, or will be appended; its last version is there or is coming.
ToBeShown(list, coming, m) ==
    \/ /\ \A i \in DOMAIN list : list[i].msg # m
       /\ [msg |-> m, version |-> 0] \in coming
    \/ \E i \in DOMAIN list :
          /\ OneAt(list, i, m)
          /\ \A x \in coming : x.msg = m => x.version # 0
          /\ list[i] = Shown(m) \/ \E x \in coming : x.msg = m

InOrder(list, coming) ==
    /\ \A i, j \in DOMAIN list : i < j /\ {list[i].msg, list[j].msg} \cap crossed = {}
          => list[i].msg < list[j].msg
    /\ \A i \in DOMAIN list : \A x \in coming :
          x.version = 0 /\ x.msg \in Uncrossed /\ list[i].msg \notin crossed
             => list[i].msg < x.msg

\* A list that becomes the chat's when what is coming has arrived.
ListOK(list, coming) ==
    /\ OfCurrent(list)
    /\ \A m \in Uncrossed : ToBeShown(list, coming, m)
    /\ InOrder(list, coming)

WindowOK(l) ==
    /\ BaseChat(l) = current
    /\ FragmentsFit(l)
    /\ ListOK(BaseList(l), Coming(l))

PageInv == pc = "reading" /\ ~ failed => \A l \in 0..Len(wire) : Latest(l) => WindowOK(l)

\* The window that the handler is about to send.
SendInv ==
    pc = "send" =>
        /\ OfCurrent(msgs)
        /\ \A m \in Uncrossed :
              /\ \E i \in DOMAIN msgs : OneAt(msgs, i, m) /\ msgs[i] = Shown(m)
              /\ \A k \in DOMAIN inbox : inbox[k].item.msg # m
        /\ \A i, j \in DOMAIN msgs : i < j /\ {msgs[i].msg, msgs[j].msg} \cap crossed = {}
              => msgs[i].msg < msgs[j].msg

\* A mark that no window on the wire will take away.
UnreadInv ==
    \A c \in unread :
        /\ c # current /\ (pc # "reading" => c # prev)
        /\ \E k \in 0..Len(wire) :
              /\ IF k = 0 THEN marks[c] = "newMessage"
                          ELSE wire[k].type = "mark" /\ wire[k].chat = c
              /\ \A l \in DOMAIN wire :
                    l > k /\ wire[l].type = "window" => c \notin {wire[l].chat, wire[l].prev}

CrossedOK ==
    /\ crossed \subseteq DOMAIN docs
    /\ pc # "reading" => current # NoChat

-----------------------------------------------------------------------------
(* Types.                                                                  *)

\* The messages of a chat, listed: each once, in the order of their insertion.
LEMMA StoredLists ==
    ASSUME NEW n \in Nat, DOMAIN docs = 1..n, NEW c
    PROVE  LET ids == {m \in DOMAIN docs : docs[m].chat = c}
               s == Stored(c)
           IN  /\ DOMAIN s = 1..Cardinality(ids) /\ Cardinality(ids) \in Nat
               /\ \A i \in DOMAIN s : s[i].msg \in ids /\ s[i] = Shown(s[i].msg)
               /\ \A m \in ids : \E i \in DOMAIN s : s[i].msg = m
               /\ \A i, j \in DOMAIN s : i < j => s[i].msg < s[j].msg
               /\ s = [i \in 1..Cardinality(ids) |-> s[i]]
<1> DEFINE ids == {m \in DOMAIN docs : docs[m].chat = c}
           Below(m) == {k \in ids : k <= m}
           Rank(m) == Cardinality(Below(m))
           Nth(i) == CHOOSE m \in ids : Rank(m) = i
           size == Cardinality(ids)
<1>1. ids \in SUBSET (1..n) /\ IsFiniteSet(ids) /\ size \in Nat
  <2>1. ids \in SUBSET (1..n)
    OBVIOUS
  <2>2. IsFiniteSet(1..n)
    BY FS_Interval
  <2> HIDE DEF ids
  <2> QED
    BY <2>1, <2>2, FS_Subset, FS_CardinalityType
<1>2. ASSUME NEW m \in ids
      PROVE  /\ IsFiniteSet(Below(m)) /\ Rank(m) \in 1..size
             /\ \A k \in ids : k < m => Rank(k) < Rank(m)
  <2>1. Below(m) \in SUBSET ids /\ m \in Below(m)
    BY <1>1
  <2>2. IsFiniteSet(Below(m)) /\ Rank(m) \in Nat /\ Rank(m) <= size
    BY <1>1, <2>1, FS_Subset, FS_CardinalityType
  <2>3. Rank(m) # 0
    BY <2>1, <2>2, FS_EmptySet
  <2>4. ASSUME NEW k \in ids, k < m
        PROVE  Rank(k) < Rank(m)
    <3>1. Below(k) \in SUBSET Below(m) /\ m \notin Below(k)
      BY <1>1, <2>4
    <3>2. Rank(k) <= Rank(m) /\ Rank(k) # Rank(m) /\ Rank(k) \in Nat
      <4> HIDE DEF Below
      <4> QED
        BY <2>1, <2>2, <3>1, FS_Subset, FS_CardinalityType
    <3> QED
      BY <2>2, <3>2
  <2> QED
    BY <1>1, <2>2, <2>3, <2>4
<1>3. \A k, m \in ids : Rank(k) = Rank(m) => k = m
  <2>1. \A k, m \in ids : k < m \/ m < k \/ k = m
    BY <1>1
  <2>2. \A m \in ids : Rank(m) \in Nat /\ ~ (Rank(m) < Rank(m))
    <3>1. \A m \in ids : Rank(m) \in 1..size
      BY <1>2
    <3> HIDE DEF Rank, ids, size
    <3> QED
      BY <1>1, <3>1
  <2> HIDE DEF Rank, ids
  <2> QED
    BY <1>2, <2>1, <2>2
<1>4. \A i \in 1..size : \E m \in ids : Rank(m) = i
  <2> DEFINE f == [m \in ids |-> Rank(m)]
  <2>1. f \in [ids -> 1..size]
    <3> HIDE DEF Rank, ids, size
    <3> QED
      BY <1>2
  <2>2. f \in Injection(ids, 1..size)
    <3> HIDE DEF Rank, ids, size
    <3> QED
      BY <1>3, <2>1 DEF Injection, IsInjective
  <2>3. IsFiniteSet(1..size) /\ Cardinality(1..size) = size
    <3> HIDE DEF ids
    <3> QED
      BY <1>1, FS_Interval
  <2>4. f \in Surjection(ids, 1..size)
    <3> HIDE DEF f, Rank, ids
    <3> QED
      BY <2>2, <2>3, FS_Injection
  <2>5. \A i \in 1..size : \E m \in ids : f[m] = i
    <3> HIDE DEF f, Rank, ids, size
    <3> QED
      BY <2>4 DEF Surjection
  <2> HIDE DEF Rank, ids, size
  <2> QED
    BY <2>5
<1>5. \A i \in 1..size : Nth(i) \in ids /\ Rank(Nth(i)) = i
  <2> HIDE DEF Rank, ids, size
  <2> QED
    BY <1>4
<1>6. Stored(c) = [i \in 1..size |-> Shown(Nth(i))]
  BY DEF Stored
<1>7. /\ DOMAIN Stored(c) = 1..size
      /\ \A i \in 1..size : Stored(c)[i] = Shown(Nth(i)) /\ Stored(c)[i].msg = Nth(i)
  <2> HIDE DEF Rank, ids, size, Nth
  <2> QED
    BY <1>6 DEF Shown
<1>8. \A m \in ids : Rank(m) \in 1..size /\ Nth(Rank(m)) = m
  <2>1. \A m \in ids : Rank(m) \in 1..size
    BY <1>2
  <2> HIDE DEF Rank, ids, size, Nth
  <2> QED
    BY <1>3, <1>5, <2>1
<1>9. \A i, j \in 1..size : i < j => Nth(i) < Nth(j)
  <2> SUFFICES ASSUME NEW i \in 1..size, NEW j \in 1..size, i < j
               PROVE  Nth(i) < Nth(j)
    OBVIOUS
  <2>1. Nth(i) \in ids /\ Nth(j) \in ids /\ Rank(Nth(i)) = i /\ Rank(Nth(j)) = j
    BY <1>5
  <2>2. Nth(j) < Nth(i) => j < i
    <3> HIDE DEF Rank, ids, size, Nth
    <3> QED
      BY <1>2, <2>1
  <2>3. Nth(i) # Nth(j)
    <3> HIDE DEF Rank, ids, size, Nth
    <3> QED
      BY <1>1, <2>1
  <2>4. Nth(i) \in Nat /\ Nth(j) \in Nat
    <3> HIDE DEF Rank, size, Nth
    <3> QED
      BY <1>1, <2>1
  <2> HIDE DEF Rank, ids, Nth
  <2> QED
    BY <1>1, <2>2, <2>3, <2>4
<1> HIDE DEF Rank, Nth
<1>10. \A i \in DOMAIN Stored(c) : Stored(c)[i].msg \in ids /\ Stored(c)[i] = Shown(Stored(c)[i].msg)
  BY <1>5, <1>7
<1>11. \A m \in ids : \E i \in DOMAIN Stored(c) : Stored(c)[i].msg = m
  BY <1>7, <1>8
<1>12. Stored(c) = [i \in 1..size |-> Stored(c)[i]]
  BY <1>6
<1> QED
  BY <1>1, <1>7, <1>9, <1>10, <1>11, <1>12

TypeInv ==
    /\ TypeOK /\ Len(docs) <= MaxMessages
    /\ FramesOK /\ NotesOK /\ CrossedOK

LEMMA NoItems ==
    /\ \A S : <<>> \in Seq(S)
    /\ DOMAIN <<>> = {} /\ Len(<<>>) = 0
OBVIOUS

LEMMA ListOf ==
    ASSUME NEW S, NEW n \in Nat, NEW s, \A k \in 1..n : s[k] \in S, s = [k \in 1..n |-> s[k]]
    PROVE  s \in Seq(S) /\ Len(s) = n /\ DOMAIN s = 1..n
OBVIOUS

LEMMA ItemsOf ==
    ASSUME NEW S, NEW s \in Seq(S)
    PROVE  /\ Len(s) \in Nat /\ DOMAIN s = 1..Len(s)
           /\ \A k \in DOMAIN s : s[k] \in S
           /\ s = [k \in 1..Len(s) |-> s[k]]
OBVIOUS

LEMMA TailOf ==
    ASSUME NEW S, NEW s \in Seq(S), s # <<>>
    PROVE  /\ Tail(s) \in Seq(S) /\ Head(s) = s[1] /\ s[1] \in S
           /\ Len(s) \in Nat /\ Len(s) >= 1 /\ DOMAIN s = 1..Len(s)
           /\ Len(Tail(s)) = Len(s) - 1 /\ DOMAIN Tail(s) = 1..(Len(s) - 1)
           /\ \A k \in 1..(Len(s) - 1) : Tail(s)[k] = s[k + 1]
           /\ \A k \in DOMAIN Tail(s) : k + 1 \in DOMAIN s /\ Tail(s)[k] = s[k + 1]
OBVIOUS

LEMMA AppendTo ==
    ASSUME NEW S, NEW s \in Seq(S), NEW e \in S
    PROVE  /\ Append(s, e) \in Seq(S)
           /\ Len(s) \in Nat /\ DOMAIN s = 1..Len(s)
           /\ Len(Append(s, e)) = Len(s) + 1 /\ DOMAIN Append(s, e) = 1..(Len(s) + 1)
           /\ \A k \in 1..Len(s) : Append(s, e)[k] = s[k]
           /\ Append(s, e)[Len(s) + 1] = e
OBVIOUS

LEMMA InitTypes == Init => TypeInv
<1> SUFFICES ASSUME Init PROVE TypeInv
  OBVIOUS
<1>0. docs = <<>> /\ inbox = <<>> /\ msgs = <<>> /\ wire = <<>>
  BY DEF Init
<1>1. TypeOK
  <2>1. docs \in Seq(Doc) /\ inbox \in Seq(Note) /\ msgs \in Seq(Item) /\ wire \in Seq(Frame)
    BY <1>0, NoItems
  <2>2. page \in [chat : Chats \cup {NoChat}, list : Seq(Item)]
    <3>1. <<>> \in Seq(Item)
      BY NoItems
    <3>2. page = [chat |-> NoChat, list |-> <<>>]
      BY DEF Init
    <3> QED
      BY <3>1, <3>2
  <2>3. marks \in [Chats -> {"", "active", "newMessage"}]
    BY DEF Init
  <2> QED
    BY <2>1, <2>2, <2>3 DEF Init, TypeOK
<1>2. DOMAIN docs = {} /\ DOMAIN wire = {} /\ DOMAIN inbox = {} /\ Len(docs) = 0
  BY <1>0, NoItems
<1>3. Len(docs) <= MaxMessages
  BY <1>2, ViewAssumption
<1>4. FramesOK /\ NotesOK /\ CrossedOK
  BY <1>2 DEF Init, FramesOK, NotesOK, CrossedOK
<1> QED
  BY <1>1, <1>3, <1>4 DEF TypeInv

LEMMA ConcatOf ==
    ASSUME NEW S, NEW s \in Seq(S), NEW t \in Seq(S)
    PROVE  /\ s \o t \in Seq(S)
           /\ Len(s) \in Nat /\ Len(t) \in Nat /\ DOMAIN s = 1..Len(s)
           /\ Len(s \o t) = Len(s) + Len(t) /\ DOMAIN (s \o t) = 1..(Len(s) + Len(t))
           /\ \A k \in 1..Len(s) : (s \o t)[k] = s[k]
           /\ \A k \in 1..Len(t) : (s \o t)[Len(s) + k] = t[k]
OBVIOUS

\* A change is stored and announced.
LEMMA AnnounceTypes ==
    ASSUME TypeInv, NEW c \in Chats, NEW type \in {"new", "update"}, NEW item \in Item,
           Record(type, c, item),
           docs' \in Seq(Doc), Len(docs') <= MaxMessages,
           DOMAIN docs \subseteq DOMAIN docs',
           \A m \in DOMAIN docs : docs'[m].chat = docs[m].chat,
           item.msg \in DOMAIN docs', c = docs'[item.msg].chat,
           type = "new" <=> item.version = 0
    PROVE  TypeInv'
<1> DEFINE note == [type |-> type, chat |-> c, item |-> item]
<1>1. /\ inbox' = Append(inbox, note)
      /\ crossed' = crossed \/ (pc = "send" /\ crossed' = crossed \cup {item.msg})
      /\ UNCHANGED <<pc, current, prev, msgs, wire, page, marks, moves, failed, unread>>
      /\ pending' \in BOOLEAN
  BY DEF Record, handlerVars, pageVars
<1>2. note \in Note /\ inbox \in Seq(Note)
  BY DEF Note, TypeInv, TypeOK
<1>3. inbox' \in Seq(Note)
  <2> HIDE DEF note
  <2> QED
    BY <1>1, <1>2
<1>4. \A k \in DOMAIN inbox' : inbox'[k] = note \/ (k \in DOMAIN inbox /\ inbox'[k] = inbox[k])
  <2> HIDE DEF note
  <2> QED
    BY <1>1, <1>2
<1>5. NotesOK'
  BY <1>4 DEF TypeInv, NotesOK
<1>6. FramesOK'
  BY <1>1 DEF TypeInv, FramesOK
<1>7. crossed' \subseteq DOMAIN docs' /\ crossed' \subseteq Ids
  <2>1. item.msg \in Ids
    BY DEF Item
  <2> QED
    BY <1>1, <2>1 DEF TypeInv, TypeOK, CrossedOK
<1>8. TypeOK'
  BY <1>1, <1>3, <1>7 DEF TypeInv, TypeOK
<1> QED
  BY <1>1, <1>5, <1>6, <1>7, <1>8 DEF TypeInv, CrossedOK

LEMMA StoreMessageDocs ==
    ASSUME TypeInv, NEW c \in Chats, StoreMessage(c)
    PROVE  /\ docs' \in Seq(Doc) /\ Len(docs') <= MaxMessages
           /\ Len(docs) \in Nat /\ DOMAIN docs = 1..Len(docs) /\ DOMAIN docs' = 1..(Len(docs) + 1)
           /\ \A m \in DOMAIN docs : docs'[m] = docs[m]
           /\ docs'[Len(docs) + 1] = [chat |-> c, version |-> 0]
           /\ Record("new", c, [msg |-> Len(docs) + 1, version |-> 0])
           /\ [msg |-> Len(docs) + 1, version |-> 0] \in Item
<1> DEFINE new == [chat |-> c, version |-> 0]
<1>1. docs' = Append(docs, new) /\ Len(docs) < MaxMessages
  BY DEF StoreMessage
<1>2. new \in Doc
  BY ViewAssumption DEF Doc
<1>3. docs \in Seq(Doc)
  BY DEF TypeInv, TypeOK
<1>4. /\ docs' \in Seq(Doc)
      /\ Len(docs) \in Nat /\ DOMAIN docs = 1..Len(docs)
      /\ Len(docs') = Len(docs) + 1 /\ DOMAIN docs' = 1..(Len(docs) + 1)
      /\ \A m \in DOMAIN docs : docs'[m] = docs[m]
      /\ docs'[Len(docs) + 1] = new
  <2> HIDE DEF new
  <2> QED
    BY <1>1, <1>2, <1>3
<1>5. Len(docs') <= MaxMessages /\ Len(docs) + 1 \in 1..MaxMessages
  BY <1>1, <1>4, ViewAssumption
<1>6. [msg |-> Len(docs) + 1, version |-> 0] \in Item
  BY <1>5, ViewAssumption DEF Item, Ids
<1> QED
  BY <1>4, <1>5, <1>6 DEF StoreMessage

LEMMA StoreChangeDocs ==
    ASSUME TypeInv, NEW m \in DOMAIN docs, StoreChange(m)
    PROVE  /\ docs' \in Seq(Doc) /\ Len(docs') <= MaxMessages
           /\ Len(docs) \in Nat /\ DOMAIN docs = 1..Len(docs) /\ DOMAIN docs' = DOMAIN docs
           /\ \A k \in DOMAIN docs : docs'[k].chat = docs[k].chat
           /\ \A k \in DOMAIN docs : k # m => docs'[k] = docs[k]
           /\ docs'[m].version = docs[m].version + 1 /\ docs[m].version \in Nat
           /\ Record("update", docs[m].chat, [msg |-> m, version |-> docs[m].version + 1])
           /\ [msg |-> m, version |-> docs[m].version + 1] \in Item
           /\ docs[m].chat \in Chats
<1>1. docs' = [docs EXCEPT ![m].version = @ + 1] /\ docs[m].version < MaxEdits
  BY DEF StoreChange
<1>2. docs \in Seq(Doc) /\ Len(docs) <= MaxMessages
  BY DEF TypeInv, TypeOK
<1>3. PICK n \in Nat : n = Len(docs) /\ DOMAIN docs = 1..n
  BY <1>2
<1>4. \A k \in 1..n : docs[k] \in Doc
  BY <1>2, <1>3, ItemsOf
<1>5. docs[m].version + 1 \in 0..MaxEdits /\ docs[m].version \in Nat /\ docs[m].chat \in Chats
  BY <1>1, <1>3, <1>4, ViewAssumption DEF Doc
<1>6. /\ DOMAIN docs' = 1..n
      /\ \A k \in 1..n : k # m => docs'[k] = docs[k]
      /\ docs'[m] = [docs[m] EXCEPT !.version = docs[m].version + 1]
  BY <1>1, <1>3
<1>7. docs'[m] = [chat |-> docs[m].chat, version |-> docs[m].version + 1]
  BY <1>3, <1>4, <1>6 DEF Doc
<1>8. \A k \in 1..n : docs'[k] \in Doc
  BY <1>4, <1>5, <1>6, <1>7 DEF Doc
<1>9. docs' = [k \in 1..n |-> docs'[k]]
  BY <1>1, <1>3
<1>10. docs' \in Seq(Doc) /\ Len(docs') = n
  BY <1>8, <1>9, ListOf
<1>11. m \in Ids
  BY <1>2, <1>3, ViewAssumption DEF Ids
<1> QED
  BY <1>2, <1>3, <1>5, <1>6, <1>7, <1>10, <1>11 DEF StoreChange, Item

\* What a page has is a list of items.
LEMMA SwapTypes ==
    ASSUME TypeInv, NEW f, wire # <<>>, wire' = Tail(wire), f = Head(wire),
           UNCHANGED <<docs, inbox, pending, pc, current, prev, msgs, moves, crossed, failed,
                       unread>>,
           page' \in [chat : Chats \cup {NoChat}, list : Seq(Item)],
           marks' \in [Chats -> {"", "active", "newMessage"}]
    PROVE  TypeInv'
<1>1. wire \in Seq(Frame) /\ wire' \in Seq(Frame)
  <2>1. wire \in Seq(Frame)
    BY DEF TypeInv, TypeOK
  <2> QED
    BY <2>1, TailOf
<1>2. \A k \in DOMAIN wire' : k + 1 \in DOMAIN wire /\ wire'[k] = wire[k + 1]
  BY <1>1, TailOf
<1>3. FramesOK'
  <2> SUFFICES ASSUME NEW k \in DOMAIN wire', wire'[k].type # "window"
               PROVE  /\ Len(wire'[k].list) = 1
                      /\ wire'[k].list[1].msg \in DOMAIN docs
                      /\ wire'[k].chat = docs[wire'[k].list[1].msg].chat
    BY DEF FramesOK
  <2>1. k + 1 \in DOMAIN wire /\ wire'[k] = wire[k + 1]
    BY <1>2
  <2> QED
    BY <2>1 DEF TypeInv, FramesOK
<1>4. TypeOK'
  BY <1>1 DEF TypeInv, TypeOK
<1> QED
  BY <1>3, <1>4 DEF TypeInv, NotesOK, CrossedOK

\* The first frame on the wire.
LEMMA FirstFrame ==
    ASSUME TypeInv, wire # <<>>
    PROVE  /\ Head(wire) = wire[1] /\ wire[1] \in Frame /\ 1 \in DOMAIN wire
           /\ wire[1].type # "window" =>
                Len(wire[1].list) = 1 /\ wire[1].list[1] \in Item
<1>1. wire \in Seq(Frame)
  BY DEF TypeInv, TypeOK
<1>2. 1 \in DOMAIN wire /\ Head(wire) = wire[1] /\ wire[1] \in Frame
  BY <1>1, TailOf
<1>3. wire[1].list \in Seq(Item)
  BY <1>2 DEF Frame
<1> QED
  BY <1>2, <1>3 DEF TypeInv, FramesOK

LEMMA ConnectTypes ==
    ASSUME TypeInv, NEW c \in Chats, ConnectClient(c)
    PROVE  TypeInv'
<1>0. /\ moves \in Nat /\ current \in Chats \cup {NoChat} /\ unread \subseteq Chats
      /\ pc' = "get" /\ moves' = moves + 1 /\ prev' = current /\ current' = c
      /\ unread' = unread \ {c}
      /\ UNCHANGED <<docs, inbox, pending, msgs, wire, page, marks, crossed, failed>>
  BY DEF ConnectClient, TypeInv, TypeOK, pageVars
<1>1. TypeOK'
  <2>1. moves' \in Nat /\ unread' \subseteq Chats
    BY <1>0
  <2> QED
    BY <1>0, <2>1 DEF TypeInv, TypeOK
<1>2. current' # NoChat
  BY ViewAssumption DEF ConnectClient
<1> QED
  BY <1>1, <1>2 DEF TypeInv, ConnectClient, FramesOK, NotesOK, CrossedOK

LEMMA GetTypes ==
    ASSUME TypeInv, GetMessages
    PROVE  TypeInv'
<1>1. /\ docs \in Seq(Doc) /\ inbox \in Seq(Note) /\ Len(docs) <= MaxMessages
      /\ crossed \subseteq DOMAIN docs
  BY DEF TypeInv, TypeOK, CrossedOK
<1>2. PICK n \in Nat : n = Len(docs) /\ DOMAIN docs = 1..n /\ \A m \in 1..n : docs[m] \in Doc
  BY <1>1, ItemsOf
<1>3. Stored(current) \in Seq(Item)
  <2> DEFINE ids == {m \in DOMAIN docs : docs[m].chat = current}
             size == Cardinality(ids)
             s == Stored(current)
  <2>1. /\ DOMAIN s = 1..size /\ size \in Nat
        /\ \A i \in DOMAIN s : s[i].msg \in ids /\ s[i] = Shown(s[i].msg)
        /\ s = [i \in 1..size |-> s[i]]
    BY <1>2, StoredLists
  <2>2. \A m \in ids : Shown(m) \in Item
    BY <1>1, <1>2, ViewAssumption DEF Shown, Item, Ids, Doc
  <2>3. \A i \in 1..size : s[i] \in Item
    <3> HIDE DEF s, size, ids
    <3> QED
      BY <2>1, <2>2
  <2> HIDE DEF s, size
  <2>4. s \in Seq(Item)
    BY <2>1, <2>3, ListOf
  <2> QED
    BY <2>4 DEF s
<1>4. msgs' \in Seq(Item) /\ crossed' \subseteq DOMAIN docs
  <2>1. UnderWay \subseteq DOMAIN docs
    BY DEF TypeInv, NotesOK, UnderWay
  <2>2. CASE Read(Stored(current), {})
    BY <1>3, <2>1, <2>2 DEF Read
  <2>3. ASSUME NEW list \in Cached(current), NEW unsure \in SUBSET DOMAIN docs, Read(list, unsure)
        PROVE  msgs' \in Seq(Item) /\ crossed' \subseteq DOMAIN docs
    <3>1. PICK k \in 1..CacheSize : list \in [1..k -> Item]
      BY DEF Cached
    <3>2. k \in Nat /\ list \in Seq(Item)
      BY <3>1
    <3> QED
      BY <2>1, <2>3, <3>2 DEF Read
  <2> QED
    BY <2>2, <2>3 DEF GetMessages
<1>5. crossed' \subseteq Ids
  BY <1>1, <1>2, <1>4, ViewAssumption DEF Ids
<1>6. /\ pc' = "send" /\ pc = "get"
      /\ UNCHANGED <<docs, inbox, pending, current, prev, wire, page, marks, moves, failed,
                     unread>>
  BY DEF GetMessages, Read, pageVars
<1>7. TypeOK'
  BY <1>4, <1>5, <1>6 DEF TypeInv, TypeOK
<1> QED
  BY <1>4, <1>6, <1>7 DEF TypeInv, FramesOK, NotesOK, CrossedOK

LEMMA FailTypes == ASSUME TypeInv, GetMessagesFails PROVE TypeInv'
BY DEF GetMessagesFails, TypeInv, TypeOK, pageVars, FramesOK, NotesOK, CrossedOK

LEMMA BroadcastTypes == ASSUME TypeInv, Broadcast PROVE TypeInv'
BY DEF Broadcast, TypeInv, TypeOK, handlerVars, pageVars, history, FramesOK, NotesOK, CrossedOK

\* A frame is written to the websocket.
LEMMA WriteTypes ==
    ASSUME TypeInv, NEW f \in Frame, wire' = Append(wire, f), UNCHANGED docs,
           f.type # "window" =>
               Len(f.list) = 1 /\ f.list[1].msg \in DOMAIN docs /\ f.chat = docs[f.list[1].msg].chat
    PROVE  FramesOK' /\ wire' \in Seq(Frame)
<1>1. wire \in Seq(Frame)
  BY DEF TypeInv, TypeOK
<1>2. /\ DOMAIN wire = 1..Len(wire) /\ Len(wire) \in Nat
      /\ DOMAIN wire' = 1..(Len(wire) + 1) /\ wire'[Len(wire) + 1] = f
      /\ \A k \in 1..Len(wire) : wire'[k] = wire[k]
      /\ wire' \in Seq(Frame)
  BY <1>1, AppendTo
<1>3. \A k \in DOMAIN wire' : wire'[k] = f \/ (k \in DOMAIN wire /\ wire'[k] = wire[k])
  BY <1>2
<1> QED
  BY <1>2, <1>3 DEF TypeInv, FramesOK

LEMMA SendTypes ==
    ASSUME TypeInv, Send
    PROVE  TypeInv'
<1> DEFINE f == [type |-> "window", chat |-> current, prev |-> prev, list |-> msgs]
<1>1. current \in Chats
  BY DEF TypeInv, TypeOK, CrossedOK, Send
<1>2. f \in Frame /\ f.type = "window"
  BY <1>1 DEF Frame, TypeInv, TypeOK
<1>3. /\ wire' = Append(wire, f) /\ pc' = "reading" /\ failed' = FALSE
      /\ UNCHANGED <<docs, inbox, pending, current, prev, page, marks, moves, crossed, unread>>
      /\ msgs' = <<>> /\ <<>> \in Seq(Item)
  BY NoItems DEF Send, pageVars
<1> HIDE DEF f
<1>4. FramesOK' /\ wire' \in Seq(Frame)
  BY <1>2, <1>3, WriteTypes
<1>5. TypeOK'
  BY <1>3, <1>4 DEF TypeInv, TypeOK
<1> QED
  BY <1>3, <1>4, <1>5 DEF TypeInv, NotesOK, CrossedOK

LEMMA HandleTypes ==
    ASSUME TypeInv, HandleEvent
    PROVE  TypeInv'
<1> DEFINE n == Head(inbox)
<1>1. inbox \in Seq(Note) /\ inbox # <<>>
  BY DEF HandleEvent, TypeInv, TypeOK
<1>2. /\ n = inbox[1] /\ 1 \in DOMAIN inbox /\ n \in Note /\ inbox' \in Seq(Note)
      /\ \A k \in DOMAIN inbox' : k + 1 \in DOMAIN inbox /\ inbox'[k] = inbox[k + 1]
  <2>1. inbox' = Tail(inbox)
    BY DEF HandleEvent
  <2> QED
    BY <1>1, <2>1, TailOf
<1>3. n.item \in Item /\ n.chat \in Chats /\ n.item.msg \in DOMAIN docs /\ n.chat = docs[n.item.msg].chat
  BY <1>2 DEF Note, TypeInv, NotesOK
<1>4. /\ wire' = Append(wire, Fragment(n))
      /\ unread' = unread \/ unread' = unread \cup {n.chat}
      /\ UNCHANGED <<docs, pending, pc, current, prev, msgs, page, marks, moves, crossed,
                     failed>>
  BY DEF HandleEvent, pageVars, handlerVars
<1> HIDE DEF n
<1>5. /\ Fragment(n) \in Frame /\ Len(Fragment(n).list) = 1
      /\ Fragment(n).list[1] = n.item /\ Fragment(n).chat = n.chat
  <2>1. <<n.item>> \in Seq(Item) /\ Len(<<n.item>>) = 1 /\ <<n.item>>[1] = n.item
    BY <1>3
  <2> QED
    BY <1>3, <2>1 DEF Fragment, Frame
<1>6. FramesOK' /\ wire' \in Seq(Frame)
  BY <1>3, <1>4, <1>5, WriteTypes
<1>7. NotesOK'
  BY <1>2, <1>4 DEF TypeInv, NotesOK
<1>8. TypeOK'
  BY <1>2, <1>3, <1>4, <1>6 DEF TypeInv, TypeOK
<1> QED
  BY <1>4, <1>6, <1>7, <1>8 DEF TypeInv, CrossedOK

\* The page has a list of items and marks of three kinds after each swap.
LEMMA PageTypes ==
    ASSUME TypeInv, SwapWindow \/ AppendMessage \/ SwapMessage \/ MarkChat
    PROVE  TypeInv'
<1> DEFINE f == Head(wire)
<1>1. /\ wire # <<>> /\ wire' = Tail(wire)
      /\ UNCHANGED <<docs, inbox, pending, pc, current, prev, msgs, moves, crossed, failed,
                     unread>>
  BY DEF SwapWindow, AppendMessage, SwapMessage, MarkChat, NextFrame, handlerVars, history
<1>2. f \in Frame /\ (f.type # "window" => Len(f.list) = 1 /\ f.list[1] \in Item)
  BY <1>1, FirstFrame
<1>3. /\ page \in [chat : Chats \cup {NoChat}, list : Seq(Item)]
      /\ marks \in [Chats -> {"", "active", "newMessage"}]
  BY DEF TypeInv, TypeOK
<1>4. f.list \in Seq(Item) /\ f.chat \in Chats
  BY <1>2 DEF Frame
<1>5. /\ page' \in [chat : Chats \cup {NoChat}, list : Seq(Item)]
      /\ marks' \in [Chats -> {"", "active", "newMessage"}]
  <2> HIDE DEF f
  <2>1. CASE SwapWindow
    <3>1. /\ page' = [chat |-> f.chat, list |-> f.list]
          /\ marks' = [c \in Chats |-> IF c = f.prev THEN "" ELSE
                                       IF c = f.chat THEN "active" ELSE marks[c]]
      BY <2>1 DEF SwapWindow, f
    <3> QED
      BY <1>3, <1>4, <3>1
  <2>2. CASE AppendMessage
    <3>1. marks' = marks /\ (page' = page \/ page' = [page EXCEPT !.list = @ \o f.list])
      BY <2>2 DEF AppendMessage, f
    <3>2. page.list \o f.list \in Seq(Item)
      <4>1. page.list \in Seq(Item)
        BY <1>3
      <4> QED
        BY <1>4, <4>1, ConcatOf
    <3>3. page' = page \/ page' = [chat |-> page.chat, list |-> page.list \o f.list]
      BY <1>3, <3>1
    <3> QED
      BY <1>3, <3>1, <3>2, <3>3
  <2>3. CASE SwapMessage
    <3> DEFINE s == [i \in DOMAIN page.list |->
                        IF page.list[i].msg = f.list[1].msg THEN f.list[1] ELSE page.list[i]]
    <3>1. marks' = marks /\ page' = [page EXCEPT !.list = s] /\ f.type = "swap"
      BY <2>3 DEF SwapMessage, NextFrame, f
    <3>2. s \in Seq(Item)
      <4>1. page.list \in Seq(Item)
        BY <1>3
      <4>2. PICK n \in Nat : DOMAIN page.list = 1..n /\ \A i \in 1..n : page.list[i] \in Item
        BY <4>1, ItemsOf
      <4>3. \A i \in 1..n : s[i] \in Item
        BY <1>2, <3>1, <4>2
      <4>4. s = [i \in 1..n |-> s[i]]
        BY <4>2
      <4> HIDE DEF s
      <4> QED
        BY <4>3, <4>4, ListOf
    <3> HIDE DEF s
    <3>3. page' = [chat |-> page.chat, list |-> s]
      BY <1>3, <3>1
    <3> QED
      BY <1>3, <3>1, <3>2, <3>3
  <2>4. CASE MarkChat
    <3>1. page' = page /\ marks' = [marks EXCEPT ![f.chat] = "newMessage"]
      BY <2>4 DEF MarkChat, f
    <3> QED
      BY <1>3, <3>1
  <2> QED
    BY <2>1, <2>2, <2>3, <2>4
<1> HIDE DEF f
<1> QED
  BY <1>1, <1>5, SwapTypes

LEMMA StepTypes == TypeInv /\ [Next]_vars => TypeInv'
<1> SUFFICES ASSUME TypeInv, [Next]_vars
             PROVE  TypeInv'
  OBVIOUS
<1>1. ASSUME NEW c \in Chats, StoreMessage(c)
      PROVE  TypeInv'
  <2> DEFINE item == [msg |-> Len(docs) + 1, version |-> 0]
  <2>1. /\ docs' \in Seq(Doc) /\ Len(docs') <= MaxMessages
        /\ Len(docs) \in Nat /\ DOMAIN docs = 1..Len(docs) /\ DOMAIN docs' = 1..(Len(docs) + 1)
        /\ \A m \in DOMAIN docs : docs'[m] = docs[m]
        /\ docs'[Len(docs) + 1] = [chat |-> c, version |-> 0]
        /\ Record("new", c, item) /\ item \in Item
    BY <1>1, StoreMessageDocs
  <2>2. /\ DOMAIN docs \subseteq DOMAIN docs' /\ \A m \in DOMAIN docs : docs'[m].chat = docs[m].chat
        /\ item.msg \in DOMAIN docs' /\ c = docs'[item.msg].chat /\ item.version = 0
    BY <2>1
  <2> HIDE DEF item
  <2> QED
    BY <2>1, <2>2, AnnounceTypes
<1>2. ASSUME NEW m \in DOMAIN docs, StoreChange(m)
      PROVE  TypeInv'
  <2> DEFINE item == [msg |-> m, version |-> docs[m].version + 1]
             c == docs[m].chat
  <2>1. /\ docs' \in Seq(Doc) /\ Len(docs') <= MaxMessages /\ DOMAIN docs' = DOMAIN docs
        /\ \A k \in DOMAIN docs : docs'[k].chat = docs[k].chat
        /\ docs[m].version \in Nat
        /\ Record("update", c, item) /\ item \in Item /\ c \in Chats
    BY <1>2, StoreChangeDocs
  <2>2. item.msg \in DOMAIN docs' /\ c = docs'[item.msg].chat /\ item.version # 0
    BY <2>1
  <2> HIDE DEF item, c
  <2> QED
    BY <2>1, <2>2, AnnounceTypes
<1>3. CASE UNCHANGED vars
  BY <1>3 DEF vars, handlerVars, pageVars, history, TypeInv, TypeOK, FramesOK, NotesOK, CrossedOK
<1> QED
  BY <1>1, <1>2, <1>3, BroadcastTypes, ConnectTypes, GetTypes, FailTypes, SendTypes, HandleTypes, PageTypes
  DEF Next

-----------------------------------------------------------------------------
(* What is told of the messages, and in which order.                        *)

LEMMA Places ==
    ASSUME TypeInv
    PROVE  /\ wire \in Seq(Frame) /\ inbox \in Seq(Note) /\ docs \in Seq(Doc)
           /\ Len(wire) \in Nat /\ DOMAIN wire = 1..Len(wire)
           /\ Len(inbox) \in Nat /\ DOMAIN inbox = 1..Len(inbox)
           /\ Len(docs) \in Nat /\ DOMAIN docs = 1..Len(docs)
           /\ \A m \in DOMAIN docs : docs[m] \in Doc
           /\ Last \in Nat /\ Last = Len(wire) + Len(inbox)
<1>1. wire \in Seq(Frame) /\ inbox \in Seq(Note) /\ docs \in Seq(Doc)
  BY DEF TypeInv, TypeOK
<1>2. /\ Len(wire) \in Nat /\ DOMAIN wire = 1..Len(wire)
      /\ Len(inbox) \in Nat /\ DOMAIN inbox = 1..Len(inbox)
      /\ Len(docs) \in Nat /\ DOMAIN docs = 1..Len(docs)
      /\ \A m \in DOMAIN docs : docs[m] \in Doc
  BY <1>1, ItemsOf
<1> QED
  BY <1>1, <1>2 DEF Last

LEMMA NewsTypes ==
    ASSUME TypeInv, NEW k \in Told
    PROVE  /\ k \in Nat /\ 1 <= k /\ k <= Last
           /\ News(k) \in Item /\ News(k).msg \in DOMAIN docs
           /\ News(k).msg \in Nat /\ News(k).version \in Nat
           /\ News(k) = [msg |-> News(k).msg, version |-> News(k).version]
<1>0. k \in Nat /\ 1 <= k /\ k <= Last
  BY Places DEF Told
<1>1. News(k) \in Item /\ News(k).msg \in DOMAIN docs
  <2>1. CASE k <= Len(wire)
    <3>1. k \in DOMAIN wire /\ wire[k].type # "window" /\ News(k) = wire[k].list[1]
      BY <1>0, <2>1, Places DEF Told, News
    <3>2. wire[k] \in Frame
      BY <3>1, Places, ItemsOf
    <3>3. wire[k].list \in Seq(Item) /\ Len(wire[k].list) = 1 /\ wire[k].list[1].msg \in DOMAIN docs
      BY <3>1, <3>2 DEF Frame, TypeInv, FramesOK
    <3> QED
      BY <3>1, <3>3
  <2>2. CASE ~ (k <= Len(wire))
    <3>1. PICK i : i = k - Len(wire) /\ i \in DOMAIN inbox
      BY <1>0, <2>2, Places
    <3>2. News(k) = inbox[i].item
      BY <2>2, <3>1 DEF News
    <3>3. inbox[i] \in Note
      BY <3>1, Places, ItemsOf
    <3> QED
      BY <3>1, <3>2, <3>3 DEF Note, TypeInv, NotesOK
  <2> QED
    BY <2>1, <2>2
<1> QED
  BY <1>0, <1>1, ViewAssumption DEF Item, Ids

\* A notification is queued: one more place, after all others.
LEMMA QueuedNews ==
    ASSUME TypeInv, NEW note \in Note, inbox' = Append(inbox, note), wire' = wire,
           NEW p, p = Last + 1
    PROVE  /\ Told' = Told \cup {p} /\ p \notin Told /\ p \in Nat
           /\ \A k \in Told : k < p /\ News(k)' = News(k)
           /\ News(p)' = note.item
<1>1. /\ Len(inbox') = Len(inbox) + 1 /\ inbox'[Len(inbox) + 1] = note
      /\ \A k \in 1..Len(inbox) : inbox'[k] = inbox[k]
  BY Places, AppendTo
<1>2. Last' = p /\ p \in Nat
  BY <1>1, Places DEF Last
<1>3. Told' = Told \cup {p}
  <2>1. Told' = {k \in 1..p : k <= Len(wire) => wire[k].type # "window"}
    BY <1>2 DEF Told
  <2> QED
    BY <1>2, <2>1, Places DEF Told
<1>4. \A k \in Told : k < p /\ k \in Nat
  BY NewsTypes, Places
<1>5. ASSUME NEW k \in Told
      PROVE  News(k)' = News(k)
  <2>1. CASE k <= Len(wire)
    BY <2>1 DEF News
  <2>2. CASE ~ (k <= Len(wire))
    <3>1. k - Len(wire) \in 1..Len(inbox)
      BY <2>2, NewsTypes, Places
    <3>2. inbox'[k - Len(wire)] = inbox[k - Len(wire)]
      BY <1>1, <3>1
    <3> QED
      BY <2>2, <3>2 DEF News
  <2> QED
    BY <2>1, <2>2
<1>6. News(p)' = note.item
  <2>1. ~ (p <= Len(wire)) /\ p - Len(wire) = Len(inbox) + 1
    BY Places
  <2> QED
    BY <1>1, <2>1 DEF News
<1> QED
  BY <1>2, <1>3, <1>4, <1>5, <1>6

\* The consumer turns the first notification into the last frame: same place.
LEMMA WrittenNews ==
    ASSUME TypeInv, NEW f \in Frame, inbox # <<>>, inbox' = Tail(inbox), wire' = Append(wire, f),
           f.type # "window", f.list[1] = Head(inbox).item
    PROVE  Told' = Told /\ \A k \in Told : News(k)' = News(k)
<1>1. /\ Len(inbox) >= 1 /\ Head(inbox) = inbox[1] /\ Len(inbox') = Len(inbox) - 1
      /\ \A k \in 1..(Len(inbox) - 1) : inbox'[k] = inbox[k + 1]
  BY Places, TailOf
<1>2. /\ Len(wire') = Len(wire) + 1 /\ wire'[Len(wire) + 1] = f
      /\ \A k \in 1..Len(wire) : wire'[k] = wire[k]
  BY Places, AppendTo
<1>3. Last' = Last
  BY <1>1, <1>2, Places DEF Last
<1>4. Told' = Told
  <2>1. Told' = {k \in 1..Last : k <= Len(wire) + 1 => wire'[k].type # "window"}
    BY <1>2, <1>3 DEF Told
  <2>2. ASSUME NEW k \in 1..Last
        PROVE  (k <= Len(wire) + 1 => wire'[k].type # "window")
               <=> (k <= Len(wire) => wire[k].type # "window")
    <3>1. k <= Len(wire) \/ k = Len(wire) + 1 \/ k > Len(wire) + 1
      BY Places
    <3>2. k <= Len(wire) => wire'[k] = wire[k]
      BY <1>2, Places
    <3> QED
      BY <1>2, <3>1, <3>2, Places
  <2> QED
    BY <2>1, <2>2 DEF Told
<1>5. ASSUME NEW k \in Told
      PROVE  News(k)' = News(k)
  <2>0. k \in Nat /\ 1 <= k /\ k <= Last
    BY NewsTypes
  <2>1. CASE k <= Len(wire)
    <3>1. wire'[k] = wire[k] /\ k <= Len(wire')
      BY <1>2, <2>0, <2>1, Places
    <3> QED
      BY <2>1, <3>1 DEF News
  <2>2. CASE k = Len(wire) + 1
    <3>1. k <= Len(wire') /\ wire'[k] = f /\ ~ (k <= Len(wire)) /\ k - Len(wire) = 1
      BY <1>2, <2>2, Places
    <3>2. News(k)' = f.list[1]
      BY <3>1 DEF News
    <3>3. News(k) = inbox[1].item
      BY <3>1 DEF News
    <3> QED
      BY <1>1, <3>2, <3>3
  <2>3. CASE k > Len(wire) + 1
    <3>1. /\ ~ (k <= Len(wire')) /\ ~ (k <= Len(wire))
          /\ k - Len(wire') \in 1..(Len(inbox) - 1) /\ k - Len(wire) = (k - Len(wire')) + 1
      BY <1>2, <2>0, <2>3, Places
    <3>2. inbox'[k - Len(wire')] = inbox[k - Len(wire)]
      BY <1>1, <3>1
    <3> QED
      BY <3>1, <3>2 DEF News
  <2> QED
    BY <2>0, <2>1, <2>2, <2>3, Places
<1> QED
  BY <1>4, <1>5

\* The page swaps the first frame in: each place moves up.
LEMMA SwappedNews ==
    ASSUME TypeInv, wire # <<>>, wire' = Tail(wire), inbox' = inbox
    PROVE  /\ \A k : k \in Told' <=> (k \in Nat /\ k >= 1 /\ k + 1 \in Told)
           /\ \A k \in Told' : News(k)' = News(k + 1)
<1>1. /\ Len(wire) >= 1 /\ Len(wire') = Len(wire) - 1
      /\ \A k \in 1..(Len(wire) - 1) : wire'[k] = wire[k + 1]
  BY Places, TailOf
<1>2. Last' = Last - 1
  BY <1>1, Places DEF Last
<1>3. ASSUME NEW k
      PROVE  k \in Told' <=> (k \in Nat /\ k >= 1 /\ k + 1 \in Told)
  <2>1. k \in Told' <=> (k \in 1..(Last - 1) /\ (k <= Len(wire) - 1 => wire'[k].type # "window"))
    BY <1>1, <1>2 DEF Told
  <2>2. (k \in Nat /\ k >= 1 /\ k + 1 \in Told)
        <=> (k \in 1..(Last - 1) /\ (k + 1 <= Len(wire) => wire[k + 1].type # "window"))
    BY Places DEF Told
  <2>3. k \in 1..(Last - 1) => (k + 1 <= Len(wire) <=> k <= Len(wire) - 1)
    BY Places
  <2>4. k \in 1..(Last - 1) /\ k <= Len(wire) - 1 => wire'[k] = wire[k + 1]
    BY <1>1, Places
  <2> QED
    BY <2>1, <2>2, <2>3, <2>4
<1>4. ASSUME NEW k \in Told'
      PROVE  News(k)' = News(k + 1)
  <2>0. k \in Nat /\ k >= 1 /\ k + 1 \in Told
    BY <1>3
  <2>1. CASE k <= Len(wire) - 1
    <3>1. k <= Len(wire') /\ wire'[k] = wire[k + 1] /\ k + 1 <= Len(wire)
      BY <1>1, <2>0, <2>1, Places
    <3> QED
      BY <3>1 DEF News
  <2>2. CASE ~ (k <= Len(wire) - 1)
    <3>1. ~ (k <= Len(wire')) /\ ~ (k + 1 <= Len(wire)) /\ k - Len(wire') = (k + 1) - Len(wire)
      BY <1>1, <2>0, <2>2, Places
    <3> QED
      BY <3>1 DEF News
  <2> QED
    BY <2>1, <2>2
<1> QED
  BY <1>3, <1>4

\* A window is written: it comes before what is still in the queue.
LEMMA SentNews ==
    ASSUME TypeInv, NEW f \in Frame, f.type = "window", wire' = Append(wire, f), inbox' = inbox,
           NEW p, p = Len(wire) + 1
    PROVE  /\ \A k : k \in Told' <=> (k \in Told /\ k < p) \/ (k \in Nat /\ k > p /\ k - 1 \in Told)
           /\ \A k \in Told' : News(k)' = IF k < p THEN News(k) ELSE News(k - 1)
<1>1. /\ Len(wire') = Len(wire) + 1 /\ wire'[Len(wire) + 1] = f
      /\ \A k \in 1..Len(wire) : wire'[k] = wire[k]
  BY Places, AppendTo
<1>2. Last' = Last + 1
  BY <1>1, Places DEF Last
<1>3. ASSUME NEW k
      PROVE  k \in Told' <=> (k \in Told /\ k < p) \/ (k \in Nat /\ k > p /\ k - 1 \in Told)
  <2>1. k \in Told' <=> (k \in 1..(Last + 1) /\ (k <= p => wire'[k].type # "window"))
    BY <1>1, <1>2 DEF Told
  <2>2. k \in Told <=> (k \in 1..Last /\ (k < p => wire[k].type # "window"))
    BY Places DEF Told
  <2>3. k \in Nat /\ k > p => (k - 1 \in Told <=> k \in 1..(Last + 1))
    BY Places DEF Told
  <2>4. k \in 1..(Last + 1) /\ k < p => wire'[k] = wire[k] /\ k \in 1..Last
    BY <1>1, Places
  <2>5. k = p => wire'[k].type = "window"
    BY <1>1
  <2>6. k \in 1..(Last + 1) => k \in Nat /\ (k < p \/ k = p \/ k > p)
    BY Places
  <2>7. k < p /\ k \in 1..(Last + 1) => k <= p
    BY Places
  <2> QED
    <3>1. CASE k \in 1..(Last + 1) /\ k < p
      BY <2>1, <2>2, <2>4, <2>7, <3>1, Places
    <3>2. CASE k \in 1..(Last + 1) /\ k = p
      BY <2>1, <2>5, <3>2, Places
    <3>3. CASE k \in 1..(Last + 1) /\ k > p
      BY <2>1, <2>3, <3>3, Places
    <3>4. CASE k \notin 1..(Last + 1)
      <4>1. k \notin Told' /\ k \notin 1..Last
        BY <2>1, <3>4, Places
      <4> QED
        BY <2>2, <2>3, <3>4, <4>1, Places
    <3> QED
      BY <2>6, <3>1, <3>2, <3>3, <3>4
<1>4. ASSUME NEW k \in Told'
      PROVE  News(k)' = IF k < p THEN News(k) ELSE News(k - 1)
  <2>1. CASE k \in Told /\ k < p
    <3>1. k <= Len(wire) /\ k <= Len(wire') /\ wire'[k] = wire[k]
      BY <1>1, <2>1, NewsTypes, Places
    <3> QED
      BY <2>1, <3>1 DEF News
  <2>2. CASE k \in Nat /\ k > p /\ k - 1 \in Told
    <3>1. /\ ~ (k <= Len(wire')) /\ ~ (k - 1 <= Len(wire)) /\ ~ (k < p)
          /\ k - Len(wire') = (k - 1) - Len(wire)
      BY <1>1, <2>2, Places
    <3> QED
      BY <3>1 DEF News
  <2> QED
    BY <1>3, <2>1, <2>2
<1> QED
  BY <1>3, <1>4

LEMMA InitNews == Init => NewsOK
<1> SUFFICES ASSUME Init PROVE NewsOK
  OBVIOUS
<1>1. Len(wire) = 0 /\ Len(inbox) = 0
  BY NoItems DEF Init
<1>2. Told = {}
  BY <1>1 DEF Told, Last
<1> QED
  BY <1>2 DEF NewsOK

\* Places that move without overtaking one another tell the same.
LEMMA MovedNews ==
    ASSUME TypeInv, NewsOK, UNCHANGED docs, NEW h,
           \A k \in Told' : h[k] \in Told /\ News(k)' = News(h[k]),
           \A j, k \in Told' : j < k => h[j] < h[k],
           \A j \in Told' : \A k \in Told : h[j] <= k => \E i \in Told' : j <= i /\ h[i] = k
    PROVE  NewsOK'
<1>1. \A k \in Told' : News(k)'.version <= docs[News(k)'.msg].version
  BY DEF NewsOK
<1>2. ASSUME NEW j \in Told', NEW k \in Told', j < k
      PROVE  /\ News(j)'.msg = News(k)'.msg => News(j)'.version < News(k)'.version
             /\ News(j)'.version = 0 /\ News(k)'.version = 0 => News(j)'.msg < News(k)'.msg
  BY <1>2 DEF NewsOK
<1>3. ASSUME NEW j \in Told'
      PROVE  \E k \in Told' :
                j <= k /\ News(k)' = [msg |-> News(j)'.msg, version |-> docs[News(j)'.msg].version]
  <2>1. PICK k \in Told : /\ h[j] <= k
                          /\ News(k) = [msg |-> News(h[j]).msg, version |-> docs[News(h[j]).msg].version]
    BY DEF NewsOK
  <2>2. PICK i \in Told' : j <= i /\ h[i] = k
    BY <2>1
  <2> QED
    BY <2>1, <2>2
<1> QED
  BY <1>1, <1>2, <1>3 DEF NewsOK

LEMMA StoreMessageNews ==
    ASSUME TypeInv, NewsOK, NEW c \in Chats, StoreMessage(c)
    PROVE  NewsOK'
<1> DEFINE new == Len(docs) + 1
           item == [msg |-> new, version |-> 0]
           note == [type |-> "new", chat |-> c, item |-> item]
<1>1. /\ Len(docs) \in Nat /\ DOMAIN docs = 1..Len(docs)
      /\ \A m \in DOMAIN docs : docs'[m] = docs[m]
      /\ docs'[new] = [chat |-> c, version |-> 0]
      /\ Record("new", c, item) /\ item \in Item
  BY StoreMessageDocs
<1>2. inbox' = Append(inbox, note) /\ wire' = wire /\ note \in Note
  BY <1>1 DEF Record, Note
<1>3. PICK p : p = Last + 1
  OBVIOUS
<1>4. /\ Told' = Told \cup {p} /\ p \notin Told /\ p \in Nat
      /\ \A k \in Told : k < p /\ News(k)' = News(k)
      /\ News(p)' = item
  <2> HIDE DEF item
  <2> QED
    BY <1>2, <1>3, QueuedNews
<1>5. ASSUME NEW k \in Told
      PROVE  /\ News(k)' = News(k) /\ News(k).msg < new /\ News(k).msg \in DOMAIN docs
             /\ docs'[News(k).msg] = docs[News(k).msg] /\ k \in Nat /\ k < p
             /\ News(k).version \in Nat /\ News(k).msg \in Nat
  BY <1>1, <1>4, NewsTypes
<1>6. /\ News(p)'.msg = new /\ News(p)'.version = 0 /\ docs'[new].version = 0
      /\ News(p)' = [msg |-> new, version |-> 0] /\ new \in Nat
  BY <1>1, <1>4
<1> HIDE DEF new, item, note
<1>7. \A k \in Told' : News(k)'.version <= docs'[News(k)'.msg].version
  BY <1>4, <1>5, <1>6 DEF NewsOK
<1>8. ASSUME NEW j \in Told', NEW k \in Told', j < k
      PROVE  /\ News(j)'.msg = News(k)'.msg => News(j)'.version < News(k)'.version
             /\ News(j)'.version = 0 /\ News(k)'.version = 0 => News(j)'.msg < News(k)'.msg
  <2>1. j \in Told
    BY <1>4, <1>5, <1>8
  <2>2. CASE k \in Told
    BY <1>5, <1>8, <2>1, <2>2 DEF NewsOK
  <2>3. CASE k = p
    BY <1>5, <1>6, <2>1, <2>3
  <2> QED
    BY <1>4, <2>2, <2>3
<1>9. ASSUME NEW j \in Told'
      PROVE  \E k \in Told' :
                j <= k /\ News(k)' = [msg |-> News(j)'.msg, version |-> docs'[News(j)'.msg].version]
  <2>1. CASE j \in Told
    <3>1. PICK k \in Told : j <= k /\ News(k) = [msg |-> News(j).msg, version |-> docs[News(j).msg].version]
      BY <2>1 DEF NewsOK
    <3> QED
      BY <1>4, <1>5, <2>1, <3>1
  <2>2. CASE j = p
    BY <1>4, <1>6, <2>2
  <2> QED
    BY <1>4, <2>1, <2>2
<1> QED
  BY <1>7, <1>8, <1>9 DEF NewsOK

LEMMA StoreChangeNews ==
    ASSUME TypeInv, NewsOK, NEW m \in DOMAIN docs, StoreChange(m)
    PROVE  NewsOK'
<1> DEFINE v == docs[m].version
           item == [msg |-> m, version |-> v + 1]
           note == [type |-> "update", chat |-> docs[m].chat, item |-> item]
<1>1. /\ DOMAIN docs' = DOMAIN docs
      /\ \A k \in DOMAIN docs : k # m => docs'[k] = docs[k]
      /\ docs'[m].version = v + 1 /\ v \in Nat
      /\ Record("update", docs[m].chat, item) /\ item \in Item
      /\ docs[m].chat \in Chats
  BY StoreChangeDocs
<1>2. inbox' = Append(inbox, note) /\ wire' = wire /\ note \in Note
  <2> HIDE DEF v
  <2> QED
    BY <1>1 DEF Record, Note
<1>3. PICK p : p = Last + 1
  OBVIOUS
<1>4. /\ Told' = Told \cup {p} /\ p \notin Told /\ p \in Nat
      /\ \A k \in Told : k < p /\ News(k)' = News(k)
      /\ News(p)' = item
  <2> HIDE DEF item
  <2> QED
    BY <1>2, <1>3, QueuedNews
<1>5. ASSUME NEW k \in Told
      PROVE  /\ News(k)' = News(k) /\ News(k).msg \in DOMAIN docs
             /\ k \in Nat /\ k < p /\ News(k).version \in Nat
             /\ News(k).version <= docs[News(k).msg].version
             /\ News(k).msg # m => docs'[News(k).msg] = docs[News(k).msg]
             /\ News(k).msg = m => News(k).version <= v
  BY <1>1, <1>4, NewsTypes DEF NewsOK
<1>6. /\ News(p)'.msg = m /\ News(p)'.version = v + 1
      /\ News(p)' = [msg |-> m, version |-> docs'[m].version]
  BY <1>1, <1>4
<1> HIDE DEF v, item, note
<1>7. ASSUME NEW k \in Told'
      PROVE  News(k)'.version <= docs'[News(k)'.msg].version
  <2>1. CASE k \in Told
    BY <1>1, <1>5, <2>1
  <2>2. CASE k = p
    BY <1>1, <1>6, <2>2
  <2> QED
    BY <1>4, <2>1, <2>2
<1>8. ASSUME NEW j \in Told', NEW k \in Told', j < k
      PROVE  /\ News(j)'.msg = News(k)'.msg => News(j)'.version < News(k)'.version
             /\ News(j)'.version = 0 /\ News(k)'.version = 0 => News(j)'.msg < News(k)'.msg
  <2>1. j \in Told
    BY <1>4, <1>5, <1>8
  <2>2. CASE k \in Told
    BY <1>5, <1>8, <2>1, <2>2 DEF NewsOK
  <2>3. CASE k = p
    BY <1>1, <1>5, <1>6, <2>1, <2>3
  <2> QED
    BY <1>4, <2>2, <2>3
<1>9. ASSUME NEW j \in Told'
      PROVE  \E k \in Told' :
                j <= k /\ News(k)' = [msg |-> News(j)'.msg, version |-> docs'[News(j)'.msg].version]
  <2>1. CASE j \in Told /\ News(j).msg # m
    <3>1. PICK k \in Told : j <= k /\ News(k) = [msg |-> News(j).msg, version |-> docs[News(j).msg].version]
      BY <2>1 DEF NewsOK
    <3> QED
      BY <1>4, <1>5, <2>1, <3>1
  <2>2. CASE j \in Told /\ News(j).msg = m
    <3>1. j <= p /\ News(j)'.msg = m
      BY <1>4, <1>5, <2>2
    <3> QED
      BY <1>4, <1>6, <3>1
  <2>3. CASE j = p
    <3>1. News(j)'.msg = m /\ j <= p
      BY <1>4, <1>6, <2>3
    <3> QED
      BY <1>4, <1>6, <3>1
  <2> QED
    BY <1>4, <2>1, <2>2, <2>3
<1> QED
  BY <1>7, <1>8, <1>9 DEF NewsOK

\* What HandleEvent and Send write.
LEMMA FragmentIs ==
    ASSUME TypeInv, HandleEvent, NEW n, n = Head(inbox)
    PROVE  /\ inbox # <<>> /\ inbox' = Tail(inbox) /\ wire' = Append(wire, Fragment(n))
           /\ n = inbox[1] /\ 1 \in DOMAIN inbox /\ n \in Note
           /\ Fragment(n) \in Frame /\ Fragment(n).list[1] = n.item
           /\ Fragment(n).type # "window" /\ Fragment(n).chat = n.chat
           /\ Fragment(n).type = "mark" <=> n.chat # current
           /\ Fragment(n).type = "append" => n.type = "new"
           /\ Fragment(n).type = "swap" => n.type # "new"
<1>1. inbox # <<>> /\ inbox' = Tail(inbox) /\ wire' = Append(wire, Fragment(n))
  BY DEF HandleEvent
<1>2. n = inbox[1] /\ 1 \in DOMAIN inbox /\ n \in Note
  BY <1>1, Places, TailOf
<1>3. n.item \in Item /\ n.chat \in Chats
  BY <1>2 DEF Note
<1>4. <<n.item>> \in Seq(Item) /\ <<n.item>>[1] = n.item
  BY <1>3
<1> QED
  BY <1>1, <1>2, <1>3, <1>4 DEF Fragment, Frame

LEMMA WindowIs ==
    ASSUME TypeInv, Send, NEW f, f = [type |-> "window", chat |-> current, prev |-> prev, list |-> msgs]
    PROVE  f \in Frame /\ wire' = Append(wire, f) /\ current # NoChat
<1>1. current \in Chats /\ current # NoChat
  BY DEF TypeInv, TypeOK, CrossedOK, Send
<1> QED
  BY <1>1 DEF Frame, TypeInv, TypeOK, Send

LEMMA HandleNews ==
    ASSUME TypeInv, HandleEvent
    PROVE  Told' = Told /\ \A k \in Told : News(k)' = News(k)
<1> DEFINE n == Head(inbox)
<1>1. /\ inbox # <<>> /\ inbox' = Tail(inbox) /\ wire' = Append(wire, Fragment(n))
      /\ Fragment(n) \in Frame /\ Fragment(n).list[1] = n.item /\ Fragment(n).type # "window"
  BY FragmentIs
<1> QED
  BY <1>1, WrittenNews

LEMMA StepNews == TypeInv /\ NewsOK /\ [Next]_vars => NewsOK'
<1> SUFFICES ASSUME TypeInv, NewsOK, [Next]_vars
             PROVE  NewsOK'
  OBVIOUS
<1>1. ASSUME UNCHANGED <<docs, inbox, wire>>
      PROVE  NewsOK'
  <2>1. Told' = Told
    BY <1>1 DEF Told, Last
  <2>2. \A k \in Told : News(k)' = News(k)
    BY <1>1 DEF News
  <2> QED
    BY <1>1, <2>1, <2>2 DEF NewsOK
<1>2. ASSUME NEW c \in Chats, ConnectClient(c)
      PROVE  NewsOK'
  BY <1>1, <1>2 DEF ConnectClient
<1>3. CASE Broadcast \/ GetMessages \/ GetMessagesFails
  BY <1>1, <1>3 DEF Broadcast, GetMessages, Read, GetMessagesFails
<1>4. CASE HandleEvent
  <2> DEFINE h == [k \in Told |-> k]
  <2>1. Told' = Told /\ \A k \in Told : News(k)' = News(k) /\ h[k] = k /\ k <= k
    BY <1>4, HandleNews, NewsTypes
  <2>2. docs' = docs
    BY <1>4 DEF HandleEvent
  <2> HIDE DEF h
  <2>3. \A k \in Told' : h[k] \in Told /\ News(k)' = News(h[k])
    BY <2>1
  <2>4. \A j, k \in Told' : j < k => h[j] < h[k]
    BY <2>1
  <2>5. \A j \in Told' : \A k \in Told : h[j] <= k => \E i \in Told' : j <= i /\ h[i] = k
    BY <2>1
  <2> QED
    BY <2>2, <2>3, <2>4, <2>5, MovedNews
<1>5. CASE Send
  <2> DEFINE f == [type |-> "window", chat |-> current, prev |-> prev, list |-> msgs]
             p == Len(wire) + 1
             h == [k \in Nat |-> IF k < p THEN k ELSE k - 1]
  <2>1. f \in Frame /\ wire' = Append(wire, f) /\ f.type = "window"
    BY <1>5, WindowIs
  <2>2. docs' = docs /\ inbox' = inbox
    BY <1>5 DEF Send
  <2>3. p \in Nat
    BY Places
  <2>4. PICK q : q = p
    OBVIOUS
  <2> HIDE DEF f
  <2>5. /\ \A k : k \in Told' <=> (k \in Told /\ k < q) \/ (k \in Nat /\ k > q /\ k - 1 \in Told)
        /\ \A k \in Told' : News(k)' = IF k < q THEN News(k) ELSE News(k - 1)
    BY <2>1, <2>2, <2>4, SentNews
  <2>6. \A k \in Told : k \in Nat
    BY NewsTypes
  <2>7. \A k \in Told' : k \in Nat /\ h[k] = IF k < q THEN k ELSE k - 1
    BY <2>4, <2>5, <2>6
  <2> HIDE DEF h, p
  <2>8. \A k \in Told' : h[k] \in Told /\ News(k)' = News(h[k])
    BY <2>3, <2>4, <2>5, <2>7
  <2>9. \A j, k \in Told' : j < k => h[j] < h[k]
    <3>1. \A k \in Told' : k \in Nat /\ k # q
      BY <2>3, <2>4, <2>5, <2>7
    <3> QED
      BY <2>3, <2>4, <2>7, <3>1
  <2>10. \A j \in Told' : \A k \in Told : h[j] <= k => \E i \in Told' : j <= i /\ h[i] = k
    <3> SUFFICES ASSUME NEW j \in Told', NEW k \in Told, h[j] <= k
                 PROVE  \E i \in Told' : j <= i /\ h[i] = k
      OBVIOUS
    <3>0. k \in Nat /\ j \in Nat /\ j # q
      BY <2>3, <2>4, <2>5, <2>6
    <3>1. CASE k < q
      <4>1. k \in Told' /\ h[k] = k
        BY <2>5, <2>7, <3>1
      <4>2. j <= k
        BY <2>3, <2>4, <2>7, <3>0, <3>1
      <4> QED
        BY <4>1, <4>2
    <3>2. CASE ~ (k < q)
      <4>1. k + 1 \in Nat /\ k + 1 > q /\ (k + 1) - 1 = k
        BY <2>3, <2>4, <3>0, <3>2
      <4>2. k + 1 \in Told'
        BY <2>5, <4>1
      <4>3. h[k + 1] = k
        BY <2>3, <2>4, <2>7, <4>1, <4>2
      <4>4. j <= k + 1
        BY <2>3, <2>4, <2>7, <3>0, <3>2
      <4> QED
        BY <4>2, <4>3, <4>4
    <3> QED
      BY <3>1, <3>2
  <2> QED
    BY <2>2, <2>8, <2>9, <2>10, MovedNews
<1>6. CASE SwapWindow \/ AppendMessage \/ SwapMessage \/ MarkChat
  <2> DEFINE h == [k \in Nat |-> k + 1]
  <2>1. wire # <<>> /\ wire' = Tail(wire) /\ inbox' = inbox /\ docs' = docs
    BY <1>6 DEF SwapWindow, AppendMessage, SwapMessage, MarkChat, NextFrame
  <2>2. /\ \A k : k \in Told' <=> (k \in Nat /\ k >= 1 /\ k + 1 \in Told)
        /\ \A k \in Told' : News(k)' = News(k + 1)
    BY <2>1, SwappedNews
  <2>3. \A k \in Told' : k \in Nat /\ h[k] = k + 1
    BY <2>2
  <2>4. \A k \in Told : k \in Nat
    BY NewsTypes
  <2> HIDE DEF h
  <2>5. \A k \in Told' : h[k] \in Told /\ News(k)' = News(h[k])
    BY <2>2, <2>3
  <2>6. \A j, k \in Told' : j < k => h[j] < h[k]
    BY <2>3
  <2>7. \A j \in Told' : \A k \in Told : h[j] <= k => \E i \in Told' : j <= i /\ h[i] = k
    <3> SUFFICES ASSUME NEW j \in Told', NEW k \in Told, h[j] <= k
                 PROVE  \E i \in Told' : j <= i /\ h[i] = k
      OBVIOUS
    <3>1. j \in Nat /\ j >= 1 /\ j + 1 <= k /\ k \in Nat
      BY <2>2, <2>3, <2>4
    <3>2. k - 1 \in Nat /\ k - 1 >= 1 /\ (k - 1) + 1 = k /\ j <= k - 1
      BY <3>1
    <3>3. k - 1 \in Told'
      BY <2>2, <3>2
    <3> QED
      BY <2>3, <3>2, <3>3
  <2> QED
    BY <2>1, <2>5, <2>6, <2>7, MovedNews
<1>7. CASE UNCHANGED vars
  BY <1>1, <1>7 DEF vars
<1> QED
  BY <1>2, <1>3, <1>4, <1>5, <1>6, <1>7, StoreMessageNews, StoreChangeNews DEF Next
-----------------------------------------------------------------------------
(* Marks in the chat list.                                                  *)

\* A frame is written that takes away no mark of a chat of unread.
LEMMA WriteKeepsMarks ==
    ASSUME TypeInv, UnreadInv, NEW f \in Frame, wire' = Append(wire, f), marks' = marks,
           NEW c \in unread, f.type = "window" => c \notin {f.chat, f.prev},
           c # current', pc' # "reading" => c # prev'
    PROVE  /\ c # current' /\ (pc' # "reading" => c # prev')
           /\ \E j \in 0..Len(wire') :
                 /\ IF j = 0 THEN marks'[c] = "newMessage"
                             ELSE wire'[j].type = "mark" /\ wire'[j].chat = c
                 /\ \A l \in DOMAIN wire' :
                       l > j /\ wire'[l].type = "window" => c \notin {wire'[l].chat, wire'[l].prev}
<1>1. /\ Len(wire') = Len(wire) + 1 /\ wire'[Len(wire) + 1] = f /\ DOMAIN wire' = 1..(Len(wire) + 1)
      /\ \A k \in 1..Len(wire) : wire'[k] = wire[k]
  BY Places, AppendTo
<1>2. PICK k \in 0..Len(wire) :
         /\ IF k = 0 THEN marks[c] = "newMessage" ELSE wire[k].type = "mark" /\ wire[k].chat = c
         /\ \A l \in DOMAIN wire :
               l > k /\ wire[l].type = "window" => c \notin {wire[l].chat, wire[l].prev}
  BY DEF UnreadInv
<1>3. k \in 0..Len(wire')
  BY <1>1, <1>2, Places
<1>4. IF k = 0 THEN marks'[c] = "newMessage" ELSE wire'[k].type = "mark" /\ wire'[k].chat = c
  BY <1>1, <1>2, Places
<1>5. ASSUME NEW l \in DOMAIN wire', l > k, wire'[l].type = "window"
      PROVE  c \notin {wire'[l].chat, wire'[l].prev}
  <2>1. CASE l = Len(wire) + 1
    BY <1>1, <1>5, <2>1
  <2>2. CASE l \in DOMAIN wire
    BY <1>1, <1>2, <1>5, <2>2, Places
  <2> QED
    BY <1>1, <2>1, <2>2, Places
<1> QED
  BY <1>3, <1>4, <1>5

LEMMA InitUnread == Init => UnreadInv
BY DEF Init, UnreadInv

LEMMA HandleUnread ==
    ASSUME TypeInv, UnreadInv, HandleEvent
    PROVE  UnreadInv'
<1> DEFINE n == Head(inbox)
           f == Fragment(n)
<1>1. /\ wire' = Append(wire, f) /\ f \in Frame /\ f.type # "window" /\ f.chat = n.chat
      /\ f.type = "mark" <=> n.chat # current
  BY FragmentIs
<1>2. /\ UNCHANGED <<pc, current, prev, marks>>
      /\ \/ unread' = unread
         \/ /\ unread' = unread \cup {n.chat}
            /\ n.chat # current /\ (pc # "reading" => n.chat # prev)
  BY DEF HandleEvent, handlerVars, pageVars
<1> HIDE DEF n, f
<1> SUFFICES ASSUME NEW c \in unread'
             PROVE  /\ c # current' /\ (pc' # "reading" => c # prev')
                    /\ \E j \in 0..Len(wire') :
                          /\ IF j = 0 THEN marks'[c] = "newMessage"
                                      ELSE wire'[j].type = "mark" /\ wire'[j].chat = c
                          /\ \A l \in DOMAIN wire' : l > j /\ wire'[l].type = "window"
                                => c \notin {wire'[l].chat, wire'[l].prev}
  BY DEF UnreadInv
<1>3. CASE c \in unread
  BY <1>1, <1>2, <1>3, WriteKeepsMarks DEF UnreadInv
<1>4. CASE c \notin unread
  <2>1. c = n.chat /\ c # current' /\ (pc' # "reading" => c # prev')
    BY <1>2, <1>4
  <2>2. PICK j : j = Len(wire')
    OBVIOUS
  <2>3. /\ j \in Nat /\ j # 0 /\ wire'[j] = f /\ DOMAIN wire' = 1..j
    BY <1>1, <2>2, Places, AppendTo
  <2>4. wire'[j].type = "mark" /\ wire'[j].chat = c /\ j \in 0..Len(wire')
    BY <1>1, <1>2, <1>4, <2>1, <2>2, <2>3
  <2>5. \A l \in DOMAIN wire' : ~ (l > j)
    BY <2>3
  <2> QED
    BY <2>1, <2>3, <2>4, <2>5
<1> QED
  BY <1>3, <1>4

LEMMA SendUnread ==
    ASSUME TypeInv, UnreadInv, Send
    PROVE  UnreadInv'
<1> DEFINE f == [type |-> "window", chat |-> current, prev |-> prev, list |-> msgs]
<1>1. f \in Frame /\ wire' = Append(wire, f)
  BY WindowIs
<1>2. pc = "send" /\ pc' = "reading" /\ UNCHANGED <<current, prev, marks, unread>>
  BY DEF Send, pageVars
<1>3. f.chat = current /\ f.prev = prev
  OBVIOUS
<1> HIDE DEF f
<1>4. ASSUME NEW c \in unread
      PROVE  c # current' /\ c # prev /\ c \notin {f.chat, f.prev}
  BY <1>2, <1>3 DEF UnreadInv
<1>5. ASSUME NEW c \in unread
      PROVE  \E j \in 0..Len(wire') :
                /\ IF j = 0 THEN marks'[c] = "newMessage"
                            ELSE wire'[j].type = "mark" /\ wire'[j].chat = c
                /\ \A l \in DOMAIN wire' :
                      l > j /\ wire'[l].type = "window" => c \notin {wire'[l].chat, wire'[l].prev}
  BY <1>1, <1>2, <1>4, WriteKeepsMarks
<1> QED
  BY <1>2, <1>4, <1>5 DEF UnreadInv

LEMMA SwapUnread ==
    ASSUME TypeInv, UnreadInv, SwapWindow \/ AppendMessage \/ SwapMessage \/ MarkChat
    PROVE  UnreadInv'
<1> DEFINE f == Head(wire)
<1>1. /\ wire # <<>> /\ wire' = Tail(wire)
      /\ UNCHANGED <<pc, current, prev, unread>>
  BY DEF SwapWindow, AppendMessage, SwapMessage, MarkChat, NextFrame, handlerVars, history
<1>2. /\ f = wire[1] /\ 1 \in DOMAIN wire /\ Len(wire) >= 1
      /\ Len(wire') = Len(wire) - 1 /\ DOMAIN wire' = 1..(Len(wire) - 1)
      /\ \A k \in 1..(Len(wire) - 1) : wire'[k] = wire[k + 1]
      /\ f.chat \in Chats
  <2>1. wire[1] \in Frame /\ f = wire[1]
    BY <1>1, FirstFrame
  <2>2. wire[1].chat \in Chats
    BY <2>1 DEF Frame
  <2> QED
    BY <1>1, <2>1, <2>2, Places, TailOf
<1>3. marks \in [Chats -> {"", "active", "newMessage"}] /\ unread \subseteq Chats
  BY DEF TypeInv, TypeOK
<1>4. ASSUME NEW c \in Chats
      PROVE  /\ f.type = "mark" /\ c = f.chat => marks'[c] = "newMessage"
             /\ marks[c] = "newMessage" /\ (f.type = "window" => c \notin {f.chat, f.prev})
                  => marks'[c] = "newMessage"
  <2>1. CASE SwapWindow
    <3>1. f.type = "window" /\ marks'[c] = IF c = f.prev THEN "" ELSE
                                           IF c = f.chat THEN "active" ELSE marks[c]
      BY <2>1 DEF SwapWindow, NextFrame
    <3> QED
      BY <3>1
  <2>2. CASE MarkChat
    <3>1. marks' = [marks EXCEPT ![f.chat] = "newMessage"]
      BY <2>2 DEF MarkChat
    <3> HIDE DEF f
    <3> QED
      BY <1>2, <1>3, <3>1
  <2>3. CASE AppendMessage
    <3>1. f.type = "append" /\ marks' = marks
      BY <2>3 DEF AppendMessage, NextFrame
    <3> QED
      BY <3>1
  <2>4. CASE SwapMessage
    <3>1. f.type = "swap" /\ marks' = marks
      BY <2>4 DEF SwapMessage, NextFrame
    <3> QED
      BY <3>1
  <2> QED
    BY <2>1, <2>2, <2>3, <2>4
<1> HIDE DEF f
<1>5. ASSUME NEW c \in unread
      PROVE  \E j \in 0..Len(wire') :
                /\ IF j = 0 THEN marks'[c] = "newMessage"
                            ELSE wire'[j].type = "mark" /\ wire'[j].chat = c
                /\ \A l \in DOMAIN wire' :
                      l > j /\ wire'[l].type = "window" => c \notin {wire'[l].chat, wire'[l].prev}
  <2>0. c \in Chats
    BY <1>3
  <2>1. PICK k \in 0..Len(wire) :
           /\ IF k = 0 THEN marks[c] = "newMessage" ELSE wire[k].type = "mark" /\ wire[k].chat = c
           /\ \A l \in DOMAIN wire :
                 l > k /\ wire[l].type = "window" => c \notin {wire[l].chat, wire[l].prev}
    BY DEF UnreadInv
  <2>2. \A l \in DOMAIN wire' : l \in Nat /\ l >= 1 /\ l + 1 \in DOMAIN wire /\ wire'[l] = wire[l + 1]
    BY <1>2, Places
  <2>3. CASE k = 0
    <3>1. f.type = "window" => c \notin {f.chat, f.prev}
      BY <1>2, <2>1, <2>3
    <3>2. marks'[c] = "newMessage"
      BY <1>4, <2>0, <2>1, <2>3, <3>1
    <3>3. \A l \in DOMAIN wire' : wire'[l].type = "window" => c \notin {wire'[l].chat, wire'[l].prev}
      BY <2>1, <2>2, <2>3
    <3>4. 0 \in 0..Len(wire')
      BY <1>2, Places
    <3> QED
      BY <3>2, <3>3, <3>4
  <2>4. CASE k = 1
    <3>1. marks'[c] = "newMessage"
      BY <1>2, <1>4, <2>0, <2>1, <2>4
    <3>2. \A l \in DOMAIN wire' : wire'[l].type = "window" => c \notin {wire'[l].chat, wire'[l].prev}
      BY <2>1, <2>2, <2>4
    <3>3. 0 \in 0..Len(wire')
      BY <1>2, Places
    <3> QED
      BY <3>1, <3>2, <3>3
  <2>5. CASE k # 0 /\ k # 1
    <3>1. PICK j : j = k - 1
      OBVIOUS
    <3>2. /\ j \in 0..Len(wire') /\ j # 0 /\ j + 1 = k /\ wire'[j] = wire[k]
      BY <1>2, <2>5, <3>1, Places
    <3>3. wire'[j].type = "mark" /\ wire'[j].chat = c
      BY <2>1, <2>5, <3>2
    <3>4. \A l \in DOMAIN wire' : l > j /\ wire'[l].type = "window"
                                     => c \notin {wire'[l].chat, wire'[l].prev}
      BY <2>1, <2>2, <3>2
    <3> QED
      BY <3>2, <3>3, <3>4
  <2> QED
    BY <2>3, <2>4, <2>5
<1> QED
  BY <1>1, <1>5 DEF UnreadInv

LEMMA StepUnread == TypeInv /\ UnreadInv /\ [Next]_vars => UnreadInv'
<1> SUFFICES ASSUME TypeInv, UnreadInv, [Next]_vars
             PROVE  UnreadInv'
  OBVIOUS
<1>1. ASSUME UNCHANGED <<wire, marks, current, prev, unread>>, pc' = pc \/ pc' = "reading" \/ pc # "reading"
      PROVE  UnreadInv'
  BY <1>1 DEF UnreadInv
<1>2. ASSUME NEW c \in Chats, ConnectClient(c)
      PROVE  UnreadInv'
  <2>1. /\ current' = c /\ prev' = current /\ unread' = unread \ {c}
        /\ UNCHANGED <<wire, marks>>
    BY <1>2 DEF ConnectClient, pageVars
  <2>2. \A b \in unread' : b \in unread /\ b # current' /\ b # prev'
    BY <2>1 DEF UnreadInv
  <2> QED
    BY <2>1, <2>2 DEF UnreadInv
<1>3. ASSUME NEW type, NEW c, NEW item, Record(type, c, item)
      PROVE  UnreadInv'
  BY <1>1, <1>3 DEF Record, handlerVars, pageVars
<1>4. CASE Broadcast \/ GetMessages \/ GetMessagesFails
  BY <1>1, <1>4 DEF Broadcast, GetMessages, Read, GetMessagesFails, pageVars, handlerVars, history
<1>5. CASE UNCHANGED vars
  BY <1>1, <1>5 DEF vars, handlerVars, pageVars, history
<1> QED
  BY <1>2, <1>3, <1>4, <1>5, HandleUnread, SendUnread, SwapUnread
  DEF Next, StoreMessage, StoreChange
-----------------------------------------------------------------------------
(* The window on its way from GetMessages to Send.                          *)

\* What Record says of a change, whichever it is.
AnnouncedInto(type, c, item) ==
    /\ Record(type, c, item)
    /\ [type |-> type, chat |-> c, item |-> item] \in Note
    /\ DOMAIN docs' = DOMAIN docs \cup {item.msg}
    /\ \A m \in DOMAIN docs : docs'[m].chat = docs[m].chat
    /\ \A m \in DOMAIN docs : m # item.msg => docs'[m] = docs[m]
    /\ docs'[item.msg].chat = c /\ docs'[item.msg].version = item.version

LEMMA StoredNew ==
    ASSUME TypeInv, NEW c \in Chats, StoreMessage(c)
    PROVE  \E item \in Item : /\ AnnouncedInto("new", c, item)
                              /\ item.version = 0 /\ item = [msg |-> item.msg, version |-> 0]
                              /\ item.msg \notin DOMAIN docs
                              /\ item.msg \in Nat /\ \A m \in DOMAIN docs : m < item.msg
<1> DEFINE item == [msg |-> Len(docs) + 1, version |-> 0]
<1>1. /\ Len(docs) \in Nat /\ DOMAIN docs = 1..Len(docs) /\ DOMAIN docs' = 1..(Len(docs) + 1)
      /\ \A m \in DOMAIN docs : docs'[m] = docs[m]
      /\ docs'[Len(docs) + 1] = [chat |-> c, version |-> 0]
      /\ Record("new", c, item) /\ item \in Item
  BY StoreMessageDocs
<1>2. [type |-> "new", chat |-> c, item |-> item] \in Note
  <2> HIDE DEF item
  <2> QED
    BY <1>1 DEF Note
<1>3. DOMAIN docs' = DOMAIN docs \cup {item.msg}
  BY <1>1
<1>4. AnnouncedInto("new", c, item)
  BY <1>1, <1>2, <1>3 DEF AnnouncedInto
<1>5. item.msg \notin DOMAIN docs /\ item.msg \in Nat /\ \A m \in DOMAIN docs : m < item.msg
  BY <1>1
<1> QED
  BY <1>1, <1>4, <1>5

LEMMA StoredChange ==
    ASSUME TypeInv, NEW m \in DOMAIN docs, StoreChange(m)
    PROVE  \E item \in Item : /\ AnnouncedInto("update", docs[m].chat, item)
                              /\ item.version # 0 /\ item.msg = m
                              /\ item = [msg |-> m, version |-> item.version]
<1> DEFINE item == [msg |-> m, version |-> docs[m].version + 1]
<1>1. /\ DOMAIN docs' = DOMAIN docs
      /\ \A k \in DOMAIN docs : docs'[k].chat = docs[k].chat
      /\ \A k \in DOMAIN docs : k # m => docs'[k] = docs[k]
      /\ docs'[m].version = docs[m].version + 1 /\ docs[m].version \in Nat
      /\ Record("update", docs[m].chat, item) /\ item \in Item
      /\ docs[m].chat \in Chats
  BY StoreChangeDocs
<1>2. [type |-> "update", chat |-> docs[m].chat, item |-> item] \in Note
  <2> HIDE DEF item
  <2> QED
    BY <1>1 DEF Note
<1>3. AnnouncedInto("update", docs[m].chat, item)
  BY <1>1, <1>2 DEF AnnouncedInto
<1>4. item.version # 0 /\ item.msg = m /\ item = [msg |-> m, version |-> item.version]
  BY <1>1
<1> QED
  BY <1>1, <1>3, <1>4

LEMMA AnnounceSend ==
    ASSUME TypeInv, SendInv, NEW type, NEW c, NEW item \in Item, AnnouncedInto(type, c, item)
    PROVE  SendInv'
<1> SUFFICES ASSUME pc' = "send"
             PROVE  SendInv'
  BY DEF SendInv
<1> DEFINE note == [type |-> type, chat |-> c, item |-> item]
<1>1. /\ inbox' = Append(inbox, note) /\ note \in Note
      /\ crossed' = IF pc = "send" /\ c = current THEN crossed \cup {item.msg} ELSE crossed
      /\ UNCHANGED <<pc, current, msgs>>
  BY DEF AnnouncedInto, Record, handlerVars
<1>2. \A k \in DOMAIN inbox' : inbox'[k].item = item \/ (k \in DOMAIN inbox /\ inbox'[k] = inbox[k])
  <2>0. note.item = item
    OBVIOUS
  <2> HIDE DEF note
  <2>1. /\ DOMAIN inbox' = 1..(Len(inbox) + 1) /\ inbox'[Len(inbox) + 1] = note
        /\ \A k \in 1..Len(inbox) : inbox'[k] = inbox[k]
    BY <1>1, Places, AppendTo
  <2> QED
    BY <2>0, <2>1, Places
<1>3. OfCurrent(msgs)'
  <2>1. \A m \in DOMAIN docs : m \in DOMAIN docs' /\ docs'[m].chat = docs[m].chat
    BY DEF AnnouncedInto
  <2> QED
    BY <1>1, <2>1 DEF SendInv, OfCurrent
<1>4. ASSUME NEW m \in Uncrossed'
      PROVE  m \in Uncrossed /\ m # item.msg /\ Shown(m)' = Shown(m)
  <2>1. m \in DOMAIN docs' /\ m \notin crossed' /\ docs'[m].chat = current
    BY <1>1 DEF Uncrossed
  <2>2. m # item.msg
    BY <1>1, <2>1 DEF AnnouncedInto
  <2>3. m \in DOMAIN docs /\ docs'[m] = docs[m]
    BY <2>1, <2>2 DEF AnnouncedInto
  <2> QED
    BY <1>1, <2>1, <2>2, <2>3 DEF Uncrossed, Shown
<1>5. ASSUME NEW m \in Uncrossed'
      PROVE  /\ \E i \in DOMAIN msgs' : OneAt(msgs', i, m) /\ msgs'[i] = Shown(m)'
             /\ \A k \in DOMAIN inbox' : inbox'[k].item.msg # m
  BY <1>1, <1>2, <1>4 DEF SendInv
<1>6. \A i, j \in DOMAIN msgs' : i < j /\ {msgs'[i].msg, msgs'[j].msg} \cap crossed' = {}
         => msgs'[i].msg < msgs'[j].msg
  <2>1. crossed \subseteq crossed' /\ pc = "send"
    BY <1>1
  <2> QED
    BY <1>1, <2>1 DEF SendInv
<1> QED
  BY <1>3, <1>5, <1>6 DEF SendInv

\* A change under way does not tell of a message that is not crossed.
LEMMA ReadSend ==
    ASSUME TypeInv, NEW list, NEW unsure, Read(list, unsure),
           NEW m \in Uncrossed', NEW k \in DOMAIN inbox
    PROVE  inbox[k].item.msg # m
<1>1. UnderWay \subseteq crossed' /\ UNCHANGED <<docs, inbox, current>>
  BY DEF Read
<1>2. docs[m].chat = current /\ m \notin crossed'
  BY <1>1 DEF Uncrossed
<1>3. inbox[k].chat = docs[inbox[k].item.msg].chat
  BY DEF TypeInv, NotesOK
<1> QED
  BY <1>1, <1>2, <1>3 DEF UnderWay

\* MongoDB has the messages of the chat once, as stored and in order.
LEMMA MissSend ==
    ASSUME TypeInv, Read(Stored(current), {})
    PROVE  SendInv'
<1> DEFINE ids == {m \in DOMAIN docs : docs[m].chat = current}
           s == Stored(current)
<1>1. /\ \A i \in DOMAIN s : s[i].msg \in ids /\ s[i] = Shown(s[i].msg)
      /\ \A m \in ids : \E i \in DOMAIN s : s[i].msg = m
      /\ \A i, j \in DOMAIN s : i < j => s[i].msg < s[j].msg
      /\ \A i \in DOMAIN s : i \in Nat
  <2>1. DOMAIN s = 1..Cardinality(ids) /\ Cardinality(ids) \in Nat
    BY Places, StoredLists
  <2>2. /\ \A i \in DOMAIN s : s[i].msg \in ids /\ s[i] = Shown(s[i].msg)
        /\ \A m \in ids : \E i \in DOMAIN s : s[i].msg = m
        /\ \A i, j \in DOMAIN s : i < j => s[i].msg < s[j].msg
    BY Places, StoredLists
  <2> HIDE DEF s, ids
  <2> QED
    BY <2>1, <2>2
<1>2. msgs' = s /\ UNCHANGED <<docs, inbox, current>>
  BY DEF Read
<1>3. ids \subseteq Nat
  BY Places
<1>4. Uncrossed' \subseteq ids
  BY <1>2 DEF Uncrossed
<1>5. ASSUME NEW m \in Uncrossed', NEW k \in DOMAIN inbox
      PROVE  inbox[k].item.msg # m
  BY ReadSend
<1> HIDE DEF s
<1>6. ASSUME NEW m \in ids
      PROVE  \E i \in DOMAIN s : OneAt(s, i, m) /\ s[i] = Shown(m)
  <2>1. PICK i \in DOMAIN s : s[i].msg = m
    BY <1>1
  <2>2. \A j \in DOMAIN s : s[j].msg = m => j = i
    <3> SUFFICES ASSUME NEW j \in DOMAIN s, s[j].msg = m, j # i
                 PROVE  FALSE
      OBVIOUS
    <3>1. j < i \/ i < j
      BY <1>1
    <3>2. m < m /\ m \in Nat
      BY <1>1, <1>3, <2>1, <3>1
    <3> QED
      BY <3>2
  <2> QED
    BY <1>1, <2>1, <2>2 DEF OneAt
<1>7. OfCurrent(msgs)'
  BY <1>1, <1>2 DEF OfCurrent
<1>8. ASSUME NEW m \in Uncrossed'
      PROVE  \E i \in DOMAIN msgs' : OneAt(msgs', i, m) /\ msgs'[i] = Shown(m)'
  BY <1>2, <1>4, <1>6 DEF Shown
<1> QED
  BY <1>1, <1>2, <1>5, <1>7, <1>8 DEF SendInv

\* Of the lists that the cache can have, what is not given as stored is crossed.
LEMMA HitSend ==
    ASSUME TypeInv, NEW list \in Cached(current),
           Read(list, {m \in DOMAIN docs : docs[m].chat = current /\ ~ Given(list, m)})
    PROVE  SendInv'
<1>1. /\ msgs' = list /\ UNCHANGED <<docs, inbox, current>>
      /\ \A m \in DOMAIN docs : docs[m].chat = current /\ ~ Given(list, m) => m \in crossed'
  BY DEF Read
<1>2. PICK n \in 1..CacheSize :
         list \in [1..n -> {x \in Item : /\ x.msg \in {m \in DOMAIN docs : docs[m].chat = current}
                                       /\ x.version <= docs[x.msg].version}]
  BY DEF Cached
<1>3. /\ DOMAIN list = 1..n /\ n \in Nat
      /\ \A i \in DOMAIN list : list[i].msg \in DOMAIN docs /\ docs[list[i].msg].chat = current
  BY <1>2
<1>4. DOMAIN docs \subseteq Nat /\ DOMAIN list \subseteq Nat
  BY <1>3, Places
<1>5. ASSUME NEW m \in Uncrossed'
      PROVE  Given(list, m) /\ m \in Nat
  BY <1>1, <1>4 DEF Uncrossed
<1>6. ASSUME NEW m \in Uncrossed'
      PROVE  \E i \in DOMAIN msgs' : OneAt(msgs', i, m) /\ msgs'[i] = Shown(m)'
  <2>1. PICK i \in DOMAIN list :
           /\ list[i] = Shown(m)
           /\ \A j \in DOMAIN list : /\ j < i => list[j].msg < m
                                     /\ i < j => m < list[j].msg
    BY <1>5 DEF Given
  <2>2. list[i].msg = m
    BY <2>1 DEF Shown
  <2>3. \A j \in DOMAIN list : list[j].msg = m => j = i
    <3> SUFFICES ASSUME NEW j \in DOMAIN list, list[j].msg = m, j # i
                 PROVE  FALSE
      OBVIOUS
    <3>1. j < i \/ i < j
      BY <1>4
    <3>2. m < m /\ m \in Nat
      BY <1>5, <2>1, <3>1
    <3> QED
      BY <3>2
  <2> QED
    BY <1>1, <2>1, <2>2, <2>3 DEF OneAt, Shown
<1>7. ASSUME NEW i \in DOMAIN list, NEW j \in DOMAIN list, i < j, list[i].msg \notin crossed'
      PROVE  list[i].msg < list[j].msg
  <2>1. PICK m : m = list[i].msg
    OBVIOUS
  <2>2. m \in Uncrossed'
    BY <1>1, <1>3, <1>7, <2>1 DEF Uncrossed
  <2>3. PICK k \in DOMAIN list :
           /\ list[k] = Shown(m)
           /\ \A h \in DOMAIN list : /\ h < k => list[h].msg < m
                                     /\ k < h => m < list[h].msg
    BY <1>5, <2>2 DEF Given
  <2>4. ~ (i < k) /\ ~ (k < i)
    <3>1. m \in Nat /\ ~ (m < m)
      BY <1>5, <2>2
    <3> QED
      BY <2>1, <2>3, <3>1
  <2>5. i = k
    BY <1>4, <2>4
  <2> QED
    BY <1>7, <2>1, <2>3, <2>5
<1>8. OfCurrent(msgs)'
  BY <1>1, <1>3 DEF OfCurrent
<1>9. \A m \in Uncrossed' : \A k \in DOMAIN inbox' : inbox'[k].item.msg # m
  BY <1>1, ReadSend
<1>10. \A i, j \in DOMAIN msgs' : i < j /\ {msgs'[i].msg, msgs'[j].msg} \cap crossed' = {}
          => msgs'[i].msg < msgs'[j].msg
  BY <1>1, <1>7
<1> QED
  BY <1>6, <1>8, <1>9, <1>10 DEF SendInv

LEMMA GetSend == ASSUME TypeInv, GetMessages PROVE SendInv'
BY MissSend, HitSend DEF GetMessages

LEMMA InitSend == Init => SendInv
BY DEF Init, SendInv

LEMMA StepSend == TypeInv /\ SendInv /\ [Next]_vars => SendInv'
<1> SUFFICES ASSUME TypeInv, SendInv, [Next]_vars
             PROVE  SendInv'
  OBVIOUS
<1>1. ASSUME UNCHANGED <<docs, current, pc, msgs, crossed>>,
             \A k \in DOMAIN inbox' : \E j \in DOMAIN inbox : inbox'[k] = inbox[j]
      PROVE  SendInv'
  <2> SUFFICES ASSUME pc = "send"
               PROVE  SendInv'
    BY <1>1 DEF SendInv
  <2>1. OfCurrent(msgs)'
    BY <1>1 DEF SendInv, OfCurrent
  <2>2. Uncrossed' = Uncrossed
    BY <1>1 DEF Uncrossed
  <2>3. \A m : Shown(m)' = Shown(m)
    BY <1>1 DEF Shown
  <2>4. ASSUME NEW m \in Uncrossed
        PROVE  /\ \E i \in DOMAIN msgs' : OneAt(msgs', i, m) /\ msgs'[i] = Shown(m)'
               /\ \A k \in DOMAIN inbox' : inbox'[k].item.msg # m
    BY <1>1, <2>3 DEF SendInv
  <2> QED
    BY <1>1, <2>1, <2>2, <2>4 DEF SendInv
<1>2. ASSUME NEW c \in Chats, StoreMessage(c)
      PROVE  SendInv'
  BY <1>2, StoredNew, AnnounceSend
<1>3. ASSUME NEW m \in DOMAIN docs, StoreChange(m)
      PROVE  SendInv'
  BY <1>3, StoredChange, AnnounceSend
<1>4. ASSUME NEW c \in Chats, ConnectClient(c)
      PROVE  SendInv'
  BY <1>4 DEF ConnectClient, SendInv
<1>5. CASE GetMessagesFails \/ Send
  BY <1>5 DEF GetMessagesFails, Send, SendInv
<1>6. CASE HandleEvent
  <2>1. \A k \in DOMAIN inbox' : \E j \in DOMAIN inbox : inbox'[k] = inbox[j]
    <3>1. inbox # <<>> /\ inbox' = Tail(inbox)
      BY <1>6 DEF HandleEvent
    <3>2. \A k \in DOMAIN inbox' : k + 1 \in DOMAIN inbox /\ inbox'[k] = inbox[k + 1]
      BY <3>1, Places, TailOf
    <3> QED
      BY <3>2
  <2> QED
    BY <1>1, <1>6, <2>1 DEF HandleEvent, handlerVars
<1>7. CASE SwapWindow \/ AppendMessage \/ SwapMessage \/ MarkChat
  BY <1>1, <1>7 DEF SwapWindow, AppendMessage, SwapMessage, MarkChat, NextFrame, handlerVars, history
<1>8. CASE Broadcast \/ UNCHANGED vars
  BY <1>1, <1>8 DEF Broadcast, vars, handlerVars, history
<1> QED
  BY <1>2, <1>3, <1>4, <1>5, <1>6, <1>7, <1>8, GetSend DEF Next
-----------------------------------------------------------------------------
(* The list of a window while news of its messages arrive.                  *)

\* A stored change joins what is coming.
LEMMA ListAnnounced ==
    ASSUME TypeInv, NEW type, NEW c, NEW x \in Item, AnnouncedInto(type, c, x),
           crossed' = crossed, NEW list, NEW coming, ListOK(list, coming),
           \A y \in coming : y.msg \in DOMAIN docs,
           \/ /\ x = [msg |-> x.msg, version |-> 0] /\ x.msg \notin DOMAIN docs
              /\ \A m \in DOMAIN docs : m < x.msg
           \/ x.version # 0 /\ x.msg \in DOMAIN docs
    PROVE  ListOK(list, coming \cup {x})'
<1>1. /\ current' = current /\ crossed' = crossed
      /\ DOMAIN docs' = DOMAIN docs \cup {x.msg}
      /\ \A m \in DOMAIN docs : docs'[m].chat = docs[m].chat
      /\ \A m \in DOMAIN docs : m # x.msg => docs'[m] = docs[m]
  BY DEF AnnouncedInto, Record, handlerVars
<1>2. OfCurrent(list)'
  BY <1>1 DEF ListOK, OfCurrent
<1>3. \A m \in Uncrossed' : m \in Uncrossed \/ (m = x.msg /\ m \notin DOMAIN docs)
  BY <1>1 DEF Uncrossed
<1>4. \A m \in DOMAIN docs : m # x.msg => Shown(m)' = Shown(m)
  BY <1>1 DEF Shown
<1>5. ASSUME NEW m \in Uncrossed'
      PROVE  ToBeShown(list, coming \cup {x}, m)'
  <2>1. CASE m # x.msg
    <3>1. ToBeShown(list, coming, m) /\ Shown(m)' = Shown(m)
      BY <1>3, <1>4, <2>1 DEF ListOK, Uncrossed
    <3>2. CASE /\ \A i \in DOMAIN list : list[i].msg # m
               /\ [msg |-> m, version |-> 0] \in coming
      BY <3>2 DEF ToBeShown
    <3>3. CASE \E i \in DOMAIN list :
                  /\ OneAt(list, i, m)
                  /\ \A y \in coming : y.msg = m => y.version # 0
                  /\ list[i] = Shown(m) \/ \E y \in coming : y.msg = m
      <4>1. PICK i \in DOMAIN list :
                  /\ OneAt(list, i, m)
                  /\ \A y \in coming : y.msg = m => y.version # 0
                  /\ list[i] = Shown(m) \/ \E y \in coming : y.msg = m
        BY <3>3
      <4>2. \A y \in coming \cup {x} : y.msg = m => y.version # 0
        BY <2>1, <4>1
      <4>3. list[i] = Shown(m)' \/ \E y \in coming \cup {x} : y.msg = m
        BY <3>1, <4>1
      <4> QED
        BY <4>1, <4>2, <4>3 DEF ToBeShown
    <3> QED
      BY <3>1, <3>2, <3>3 DEF ToBeShown
  <2>2. CASE m = x.msg /\ m \notin DOMAIN docs
    <3>1. x = [msg |-> m, version |-> 0]
      BY <2>2
    <3>2. \A i \in DOMAIN list : list[i].msg # m
      BY <2>2 DEF ListOK, OfCurrent
    <3> QED
      BY <3>1, <3>2 DEF ToBeShown
  <2>3. CASE m = x.msg /\ m \in DOMAIN docs
    <3>1. x.version # 0 /\ m \in Uncrossed
      BY <1>3, <2>3
    <3>2. ToBeShown(list, coming, m)
      BY <3>1 DEF ListOK
    <3>3. CASE /\ \A i \in DOMAIN list : list[i].msg # m
               /\ [msg |-> m, version |-> 0] \in coming
      BY <3>3 DEF ToBeShown
    <3>4. CASE \E i \in DOMAIN list :
                  OneAt(list, i, m) /\ \A y \in coming : y.msg = m => y.version # 0
      <4>1. PICK i \in DOMAIN list :
                  OneAt(list, i, m) /\ \A y \in coming : y.msg = m => y.version # 0
        BY <3>4
      <4>2. \A y \in coming \cup {x} : y.msg = m => y.version # 0
        BY <3>1, <4>1
      <4>3. \E y \in coming \cup {x} : y.msg = m
        BY <2>3
      <4> QED
        BY <4>1, <4>2, <4>3 DEF ToBeShown
    <3> QED
      BY <3>2, <3>3, <3>4 DEF ToBeShown
  <2> QED
    BY <2>1, <2>2, <2>3
<1>6. ASSUME NEW i \in DOMAIN list, NEW y \in coming \cup {x},
             y.version = 0, y.msg \in Uncrossed', list[i].msg \notin crossed
      PROVE  list[i].msg < y.msg
  <2>0. list[i].msg \in DOMAIN docs
    BY DEF ListOK, OfCurrent
  <2>1. CASE y \in coming
    <3>1. y.msg \in Uncrossed
      BY <1>3, <1>6, <2>1
    <3> QED
      BY <1>6, <2>1, <3>1 DEF ListOK, InOrder
  <2>2. CASE y = x
    BY <1>6, <2>0, <2>2
  <2> QED
    BY <2>1, <2>2
<1>7. InOrder(list, coming \cup {x})'
  BY <1>1, <1>6 DEF ListOK, InOrder
<1> QED
  BY <1>2, <1>5, <1>7 DEF ListOK

\* News of another chat do not matter.
LEMMA ListMarked ==
    ASSUME NEW list, NEW coming, NEW x, ListOK(list, coming \cup {x}), docs[x.msg].chat # current
    PROVE  ListOK(list, coming)
<1>1. ASSUME NEW m \in Uncrossed
      PROVE  ToBeShown(list, coming, m)
  <2>1. x.msg # m
    BY DEF Uncrossed
  <2>2. ToBeShown(list, coming \cup {x}, m)
    BY DEF ListOK
  <2>3. x # [msg |-> m, version |-> 0]
    BY <2>1
  <2> QED
    BY <2>1, <2>2, <2>3 DEF ToBeShown
<1> QED
  BY <1>1 DEF ListOK, InOrder

\* The news x come before the others, and the others end with the stored version.
ComesFirst(x, coming) ==
    /\ x = [msg |-> x.msg, version |-> x.version] /\ x.version \in Nat /\ x.msg \in Nat
    /\ x.msg \in DOMAIN docs /\ docs[x.msg].chat = current
    /\ \A y \in coming : /\ y.version \in Nat /\ y.msg \in Nat
                         /\ y.msg = x.msg => x.version < y.version
                         /\ x.version = 0 /\ y.version = 0 => x.msg < y.msg
    /\ x = Shown(x.msg) \/ \E y \in coming : y.msg = x.msg

\* A new message is appended.
LEMMA ListAppended ==
    ASSUME NEW list, DOMAIN list \subseteq Nat, NEW n \in Nat, DOMAIN list = 1..n,
           NEW coming, NEW x, ListOK(list, coming \cup {x}), ComesFirst(x, coming), x.version = 0,
           NEW longer, DOMAIN longer = 1..(n + 1), longer[n + 1] = x,
           \A i \in 1..n : longer[i] = list[i]
    PROVE  ListOK(longer, coming)
<1>1. OfCurrent(longer)
  <2> SUFFICES ASSUME NEW i \in DOMAIN longer
               PROVE  longer[i].msg \in DOMAIN docs /\ docs[longer[i].msg].chat = current
    BY DEF OfCurrent
  <2>1. CASE i \in 1..n
    BY <2>1 DEF ListOK, OfCurrent
  <2>2. CASE i = n + 1
    BY <2>2 DEF ComesFirst
  <2> QED
    BY <2>1, <2>2
<1>2. ASSUME NEW m \in Uncrossed
      PROVE  ToBeShown(longer, coming, m)
  <2>0. ToBeShown(list, coming \cup {x}, m)
    BY DEF ListOK
  <2>1. CASE m = x.msg
    <3>1. ~ \E i \in DOMAIN list :
               /\ OneAt(list, i, m)
               /\ \A y \in coming \cup {x} : y.msg = m => y.version # 0
      BY <2>1
    <3>2. \A i \in DOMAIN list : list[i].msg # m
      BY <2>0, <3>1 DEF ToBeShown
    <3>3. n + 1 \in DOMAIN longer /\ OneAt(longer, n + 1, m)
      BY <2>1, <3>2 DEF OneAt
    <3>4. \A y \in coming : y.msg = m => y.version # 0
      BY <2>1 DEF ComesFirst
    <3>5. longer[n + 1] = Shown(m) \/ \E y \in coming : y.msg = m
      BY <2>1 DEF ComesFirst
    <3> QED
      BY <3>3, <3>4, <3>5 DEF ToBeShown
  <2>2. CASE m # x.msg
    <3>1. CASE /\ \A i \in DOMAIN list : list[i].msg # m
               /\ [msg |-> m, version |-> 0] \in coming \cup {x}
      <4>1. [msg |-> m, version |-> 0] \in coming
        BY <2>2, <3>1
      <4>2. \A i \in DOMAIN longer : longer[i].msg # m
        BY <2>2, <3>1
      <4> QED
        BY <4>1, <4>2 DEF ToBeShown
    <3>2. CASE \E i \in DOMAIN list :
                  /\ OneAt(list, i, m)
                  /\ \A y \in coming \cup {x} : y.msg = m => y.version # 0
                  /\ list[i] = Shown(m) \/ \E y \in coming \cup {x} : y.msg = m
      <4>1. PICK i \in DOMAIN list :
                  /\ OneAt(list, i, m)
                  /\ \A y \in coming \cup {x} : y.msg = m => y.version # 0
                  /\ list[i] = Shown(m) \/ \E y \in coming \cup {x} : y.msg = m
        BY <3>2
      <4>2. i \in DOMAIN longer /\ longer[i] = list[i] /\ OneAt(longer, i, m)
        BY <2>2, <4>1 DEF OneAt
      <4>3. longer[i] = Shown(m) \/ \E y \in coming : y.msg = m
        BY <2>2, <4>1, <4>2
      <4> QED
        BY <4>1, <4>2, <4>3 DEF ToBeShown
    <3> QED
      BY <2>0, <3>1, <3>2 DEF ToBeShown
  <2> QED
    BY <2>1, <2>2
<1>3. ASSUME NEW i \in DOMAIN longer, NEW j \in DOMAIN longer, i < j,
             {longer[i].msg, longer[j].msg} \cap crossed = {}
      PROVE  longer[i].msg < longer[j].msg
  <2>1. i \in 1..n /\ longer[i] = list[i]
    BY <1>3
  <2>2. CASE j \in 1..n
    BY <1>3, <2>1, <2>2 DEF ListOK, InOrder
  <2>3. CASE j = n + 1
    <3>1. x.msg \in Uncrossed /\ list[i].msg \notin crossed
      BY <1>3, <2>1, <2>3 DEF ComesFirst, Uncrossed
    <3> QED
      BY <2>1, <2>3, <3>1 DEF ListOK, InOrder
  <2> QED
    BY <2>2, <2>3
<1>4. ASSUME NEW i \in DOMAIN longer, NEW y \in coming,
             y.version = 0, y.msg \in Uncrossed, longer[i].msg \notin crossed
      PROVE  longer[i].msg < y.msg
  <2>1. CASE i \in 1..n
    BY <1>4, <2>1 DEF ListOK, InOrder
  <2>2. CASE i = n + 1
    BY <1>4, <2>2 DEF ComesFirst
  <2> QED
    BY <2>1, <2>2
<1> QED
  BY <1>1, <1>2, <1>3, <1>4 DEF ListOK, InOrder

\* A changed message is swapped in where it is.
LEMMA ListSwapped ==
    ASSUME NEW list, NEW coming, NEW x, ListOK(list, coming \cup {x}), ComesFirst(x, coming),
           x.version # 0, NEW swapped, DOMAIN swapped = DOMAIN list,
           \A i \in DOMAIN list : swapped[i] = IF list[i].msg = x.msg THEN x ELSE list[i]
    PROVE  ListOK(swapped, coming)
<1>1. \A i \in DOMAIN list : swapped[i].msg = list[i].msg
  OBVIOUS
<1>2. OfCurrent(swapped)
  BY <1>1 DEF ListOK, OfCurrent
<1>3. InOrder(swapped, coming)
  BY <1>1 DEF ListOK, InOrder
<1>4. ASSUME NEW m \in Uncrossed
      PROVE  ToBeShown(swapped, coming, m)
  <2>0. ToBeShown(list, coming \cup {x}, m)
    BY DEF ListOK
  <2>1. CASE /\ \A i \in DOMAIN list : list[i].msg # m
             /\ [msg |-> m, version |-> 0] \in coming \cup {x}
    <3>1. [msg |-> m, version |-> 0] \in coming
      BY <2>1
    <3> QED
      BY <1>1, <2>1, <3>1 DEF ToBeShown
  <2>2. CASE \E i \in DOMAIN list :
                /\ OneAt(list, i, m)
                /\ \A y \in coming \cup {x} : y.msg = m => y.version # 0
                /\ list[i] = Shown(m) \/ \E y \in coming \cup {x} : y.msg = m
    <3>1. PICK i \in DOMAIN list :
                /\ OneAt(list, i, m)
                /\ \A y \in coming \cup {x} : y.msg = m => y.version # 0
                /\ list[i] = Shown(m) \/ \E y \in coming \cup {x} : y.msg = m
      BY <2>2
    <3>2. OneAt(swapped, i, m)
      BY <1>1, <3>1 DEF OneAt
    <3>3. swapped[i] = Shown(m) \/ \E y \in coming : y.msg = m
      <4>1. CASE m = x.msg
        <5>1. swapped[i] = x
          BY <3>1, <4>1 DEF OneAt
        <5> QED
          BY <4>1, <5>1 DEF ComesFirst
      <4>2. CASE m # x.msg
        BY <3>1, <4>2 DEF OneAt
      <4> QED
        BY <4>1, <4>2
    <3> QED
      BY <3>1, <3>2, <3>3 DEF ToBeShown
  <2> QED
    BY <2>0, <2>1, <2>2 DEF ToBeShown
<1> QED
  BY <1>2, <1>3, <1>4 DEF ListOK
-----------------------------------------------------------------------------
(* The window that the page has, or will have.                              *)

LEMMA InitPage == Init => PageInv
<1> SUFFICES ASSUME Init PROVE PageInv
  OBVIOUS
<1>1. Len(wire) = 0 /\ DOMAIN wire = {} /\ DOMAIN docs = {} /\ DOMAIN page.list = {}
  BY NoItems DEF Init
<1>2. page.chat = current
  BY DEF Init
<1>3. ListOK(page.list, Coming(0))
  BY <1>1 DEF ListOK, OfCurrent, Uncrossed, InOrder
<1>4. WindowOK(0)
  BY <1>1, <1>2, <1>3 DEF WindowOK, BaseChat, BaseList, FragmentsFit
<1>5. 0..Len(wire) = {0}
  BY <1>1
<1> QED
  BY <1>4, <1>5 DEF PageInv

LEMMA AnnouncePage ==
    ASSUME TypeInv, PageInv, NEW type, NEW c, NEW x \in Item, AnnouncedInto(type, c, x),
           \/ /\ x = [msg |-> x.msg, version |-> 0] /\ x.msg \notin DOMAIN docs
              /\ \A m \in DOMAIN docs : m < x.msg
           \/ x.version # 0 /\ x.msg \in DOMAIN docs
    PROVE  PageInv'
<1> DEFINE note == [type |-> type, chat |-> c, item |-> x]
<1> SUFFICES ASSUME pc' = "reading", ~ failed', NEW l \in 0..Len(wire'), Latest(l)'
             PROVE  WindowOK(l)'
  BY DEF PageInv
<1>1. /\ inbox' = Append(inbox, note) /\ note \in Note /\ note.item = x
      /\ crossed' = crossed
      /\ UNCHANGED <<pc, current, wire, page, failed>>
  BY DEF AnnouncedInto, Record, handlerVars, pageVars
<1> HIDE DEF note
<1>2. WindowOK(l) /\ l \in 0..Len(wire)
  BY <1>1 DEF PageInv, Latest
<1>3. BaseChat(l)' = BaseChat(l) /\ BaseList(l)' = BaseList(l) /\ FragmentsFit(l)'
  BY <1>1, <1>2 DEF BaseChat, BaseList, WindowOK, FragmentsFit
<1>4. PICK p : p = Last + 1
  OBVIOUS
<1>5. /\ Told' = Told \cup {p} /\ p \notin Told /\ p \in Nat
      /\ \A k \in Told : k < p /\ News(k)' = News(k)
      /\ News(p)' = x
  BY <1>1, <1>4, QueuedNews
<1>6. p > l
  BY <1>2, <1>4, Places
<1>7. Coming(l)' = Coming(l) \cup {x}
  <2>1. Coming(l)' = {News(k)' : k \in {j \in Told' : j > l}}
    BY DEF Coming
  <2>2. {j \in Told' : j > l} = {j \in Told : j > l} \cup {p}
    BY <1>5, <1>6
  <2> QED
    BY <1>5, <2>1, <2>2 DEF Coming
<1>8. \A y \in Coming(l) : y.msg \in DOMAIN docs
  BY NewsTypes DEF Coming
<1>9. PICK list : list = BaseList(l)
  OBVIOUS
<1>10. PICK coming : coming = Coming(l)
  OBVIOUS
<1>11. ListOK(list, coming \cup {x})'
  BY <1>1, <1>2, <1>8, <1>9, <1>10, ListAnnounced DEF WindowOK
<1>12. ListOK(BaseList(l), Coming(l))'
  BY <1>3, <1>7, <1>9, <1>10, <1>11 DEF ListOK, OfCurrent, Uncrossed, ToBeShown, InOrder, OneAt, Shown
<1> QED
  BY <1>1, <1>2, <1>3, <1>12 DEF WindowOK

LEMMA HandlePage ==
    ASSUME TypeInv, PageInv, HandleEvent
    PROVE  PageInv'
<1> DEFINE n == Head(inbox)
           f == Fragment(n)
<1> SUFFICES ASSUME pc' = "reading", ~ failed', NEW l \in 0..Len(wire'), Latest(l)'
             PROVE  WindowOK(l)'
  BY DEF PageInv
<1>1. /\ wire' = Append(wire, f) /\ f \in Frame /\ f.list[1] = n.item
      /\ n = inbox[1] /\ 1 \in DOMAIN inbox
      /\ f.type # "window" /\ f.chat = n.chat
      /\ f.type = "mark" <=> n.chat # current
      /\ f.type = "append" => n.type = "new"
      /\ f.type = "swap" => n.type # "new"
  BY FragmentIs
<1>2. n.type = "new" <=> n.item.version = 0
  BY <1>1 DEF TypeInv, NotesOK
<1>3. UNCHANGED <<docs, pc, current, page, crossed, failed>>
  BY DEF HandleEvent, handlerVars, pageVars
<1> HIDE DEF n, f
<1>4. /\ Len(wire') = Len(wire) + 1 /\ DOMAIN wire' = 1..(Len(wire) + 1)
      /\ wire'[Len(wire) + 1] = f /\ \A k \in 1..Len(wire) : wire'[k] = wire[k]
  BY <1>1, Places, AppendTo
<1>5. l \in 0..Len(wire) /\ (l # 0 => l \in DOMAIN wire /\ wire'[l] = wire[l])
  <2>1. l # Len(wire) + 1
    BY <1>1, <1>4, Places DEF Latest
  <2>2. l \in 0..Len(wire)
    BY <1>4, <2>1, Places
  <2> QED
    BY <1>4, <2>2, Places
<1>6. Latest(l)
  <2>1. \A k \in DOMAIN wire : k \in DOMAIN wire' /\ wire'[k] = wire[k]
    BY <1>4, Places
  <2> QED
    BY <1>5, <2>1 DEF Latest
<1>7. WindowOK(l)
  BY <1>3, <1>5, <1>6 DEF PageInv
<1>8. FragmentsFit(l)'
  <2> SUFFICES ASSUME NEW k \in DOMAIN wire', k > l
               PROVE  /\ wire'[k].type = "mark" <=> wire'[k].chat # current
                      /\ wire'[k].type = "append" => wire'[k].list[1].version = 0
                      /\ wire'[k].type = "swap" => wire'[k].list[1].version # 0
    BY <1>3 DEF FragmentsFit
  <2>1. CASE k \in DOMAIN wire
    <3>1. wire'[k] = wire[k]
      BY <1>4, <2>1, Places
    <3> QED
      BY <1>7, <2>1, <3>1 DEF WindowOK, FragmentsFit
  <2>2. CASE k = Len(wire) + 1
    BY <1>1, <1>2, <1>4, <2>2
  <2> QED
    BY <1>4, <2>1, <2>2, Places
<1>9. Coming(l)' = Coming(l)
  BY HandleNews DEF Coming
<1>10. BaseChat(l)' = BaseChat(l) /\ BaseList(l)' = BaseList(l)
  BY <1>3, <1>5 DEF BaseChat, BaseList
<1>11. ListOK(BaseList(l), Coming(l))'
  BY <1>3, <1>7, <1>9, <1>10
  DEF WindowOK, ListOK, OfCurrent, Uncrossed, ToBeShown, InOrder, OneAt, Shown
<1> QED
  BY <1>3, <1>7, <1>8, <1>10, <1>11 DEF WindowOK

LEMMA SendPage ==
    ASSUME TypeInv, SendInv, Send
    PROVE  PageInv'
<1> DEFINE f == [type |-> "window", chat |-> current, prev |-> prev, list |-> msgs]
<1> SUFFICES ASSUME NEW l \in 0..Len(wire'), Latest(l)'
             PROVE  WindowOK(l)'
  BY DEF PageInv
<1>1. f \in Frame /\ wire' = Append(wire, f)
  BY WindowIs
<1>2. f.type = "window" /\ f.chat = current /\ f.list = msgs
  OBVIOUS
<1>3. pc = "send" /\ UNCHANGED <<docs, inbox, current, page, crossed>>
  BY DEF Send, pageVars
<1> HIDE DEF f
<1>4. /\ Len(wire') = Len(wire) + 1 /\ DOMAIN wire' = 1..(Len(wire) + 1)
      /\ wire'[Len(wire) + 1] = f /\ \A k \in 1..Len(wire) : wire'[k] = wire[k]
  BY <1>1, Places, AppendTo
<1>5. l = Len(wire) + 1
  <2>1. l \in Nat /\ Len(wire) + 1 \in DOMAIN wire' /\ l <= Len(wire) + 1
    BY <1>4, Places
  <2>2. ~ (Len(wire) + 1 > l)
    BY <1>2, <1>4, <2>1 DEF Latest
  <2> QED
    BY <2>1, <2>2, Places
<1>6. l # 0 /\ l \in Nat /\ wire'[l] = f
  BY <1>4, <1>5, Places
<1>7. BaseChat(l)' = current /\ BaseList(l)' = msgs
  BY <1>2, <1>6 DEF BaseChat, BaseList
<1>8. FragmentsFit(l)'
  <2>1. \A k \in DOMAIN wire' : ~ (k > l)
    BY <1>4, <1>5, Places
  <2> QED
    BY <2>1 DEF FragmentsFit
<1>9. ASSUME NEW y \in Coming(l)'
      PROVE  \E k \in DOMAIN inbox : y = inbox[k].item
  <2>1. PICK k \in Told' : k > l /\ y = News(k)'
    BY DEF Coming
  <2>2. k \in Nat /\ k - 1 \in Told /\ y = News(k - 1)
    <3>1. /\ k \in Told' <=> (k \in Told /\ k < l) \/ (k \in Nat /\ k > l /\ k - 1 \in Told)
          /\ News(k)' = IF k < l THEN News(k) ELSE News(k - 1)
      BY <1>1, <1>2, <1>3, <1>5, <2>1, SentNews
    <3>2. k \in Nat /\ ~ (k < l)
      BY <1>6, <2>1, <3>1, NewsTypes
    <3> QED
      BY <2>1, <3>1, <3>2
  <2>3. (k - 1) - Len(wire) \in DOMAIN inbox /\ ~ (k - 1 <= Len(wire))
    <3>1. k - 1 <= Last
      BY <2>2, NewsTypes
    <3> QED
      BY <1>5, <2>1, <2>2, <3>1, Places
  <2> QED
    BY <2>2, <2>3 DEF News
<1>10. \A y \in Coming(l)' : y.msg \notin Uncrossed
  BY <1>3, <1>9 DEF SendInv
<1>11. PICK coming : coming = Coming(l)'
  OBVIOUS
<1>12. ASSUME NEW m \in Uncrossed
       PROVE  ToBeShown(msgs, coming, m)
  <2>1. PICK i \in DOMAIN msgs : OneAt(msgs, i, m) /\ msgs[i] = Shown(m)
    BY <1>3 DEF SendInv
  <2>2. \A y \in coming : y.msg # m
    BY <1>10, <1>11
  <2> QED
    BY <2>1, <2>2 DEF ToBeShown
<1>13. OfCurrent(msgs) /\ InOrder(msgs, coming)
  BY <1>3, <1>10, <1>11 DEF SendInv, InOrder
<1>14. ListOK(BaseList(l), Coming(l))'
  BY <1>3, <1>7, <1>11, <1>12, <1>13
  DEF ListOK, OfCurrent, Uncrossed, ToBeShown, InOrder, OneAt, Shown
<1> QED
  BY <1>3, <1>7, <1>8, <1>14 DEF WindowOK

LEMMA SwapPage ==
    ASSUME TypeInv, NewsOK, PageInv, SwapWindow \/ AppendMessage \/ SwapMessage \/ MarkChat
    PROVE  PageInv'
<1> DEFINE f == Head(wire)
<1> SUFFICES ASSUME pc' = "reading", ~ failed', NEW l \in 0..Len(wire'), Latest(l)'
             PROVE  WindowOK(l)'
  BY DEF PageInv
<1>1. /\ wire # <<>> /\ wire' = Tail(wire)
      /\ UNCHANGED <<docs, inbox, pc, current, crossed, failed>>
  BY DEF SwapWindow, AppendMessage, SwapMessage, MarkChat, NextFrame, handlerVars, history
<1>2. /\ f = wire[1] /\ 1 \in DOMAIN wire /\ Len(wire) >= 1 /\ f \in Frame
      /\ Len(wire') = Len(wire) - 1 /\ DOMAIN wire' = 1..(Len(wire) - 1)
      /\ \A k \in 1..(Len(wire) - 1) : wire'[k] = wire[k + 1]
  <2>1. wire[1] \in Frame /\ f = wire[1]
    BY <1>1, FirstFrame
  <2> QED
    BY <1>1, <2>1, Places, TailOf
<1>3. /\ \A k : k \in Told' <=> (k \in Nat /\ k >= 1 /\ k + 1 \in Told)
      /\ \A k \in Told' : News(k)' = News(k + 1)
  BY <1>1, SwappedNews
<1>4. \A k \in Told : k \in Nat /\ 1 <= k
  BY NewsTypes
<1>5. l \in Nat /\ l + 1 \in Nat /\ l + 1 \in 0..Len(wire)
  BY <1>2, Places
<1>6. \A k \in DOMAIN wire : k > 1 => /\ k - 1 \in DOMAIN wire' /\ wire'[k - 1] = wire[k]
                                      /\ (k > l + 1 => k - 1 > l)
  BY <1>2, <1>5, Places
<1>7. \A k \in DOMAIN wire' : /\ k + 1 \in DOMAIN wire /\ wire'[k] = wire[k + 1]
                              /\ (k > l => k + 1 > l + 1)
  BY <1>2, <1>5, Places
<1>8. Coming(l)' = {News(k) : k \in {j \in Told : j > l + 1}}
  <2>1. Coming(l)' = {News(k)' : k \in {j \in Told' : j > l}}
    BY DEF Coming
  <2>2. ASSUME NEW k \in Told', k > l
        PROVE  \E j \in Told : j > l + 1 /\ News(k)' = News(j)
    <3>1. k + 1 \in Told /\ k + 1 > l + 1 /\ News(k)' = News(k + 1)
      BY <1>3, <1>5, <2>2
    <3> QED
      BY <3>1
  <2>3. ASSUME NEW j \in Told, j > l + 1
        PROVE  \E k \in Told' : k > l /\ News(k)' = News(j)
    <3>1. /\ j - 1 \in Nat /\ j - 1 >= 1 /\ (j - 1) + 1 = j /\ j - 1 > l
      BY <1>4, <1>5, <2>3
    <3>2. j - 1 \in Told' /\ News(j - 1) = News(j - 1)
      BY <1>3, <3>1
    <3>3. PICK k : k = j - 1
      OBVIOUS
    <3>4. k \in Told' /\ k > l /\ News(k)' = News(k + 1) /\ k + 1 = j
      BY <1>3, <3>1, <3>2, <3>3
    <3> QED
      BY <3>4
  <2> QED
    BY <2>1, <2>2, <2>3
<1>9. CASE l # 0 \/ f.type = "window"
  <2>1. Latest(l + 1)
    <3>1. l + 1 \in DOMAIN wire /\ wire[l + 1].type = "window"
      <4>1. CASE l = 0
        BY <1>2, <1>9, <4>1
      <4>2. CASE l # 0
        BY <1>7, <4>2 DEF Latest
      <4> QED
        BY <4>1, <4>2
    <3>2. ASSUME NEW k \in DOMAIN wire, k > l + 1
          PROVE  wire[k].type # "window"
      <4>1. k > 1
        BY <1>5, <3>2, Places
      <4> QED
        BY <1>6, <3>2, <4>1 DEF Latest
    <3> QED
      BY <3>1, <3>2 DEF Latest
  <2>2. WindowOK(l + 1)
    BY <1>1, <1>5, <2>1 DEF PageInv
  <2>3. BaseChat(l)' = BaseChat(l + 1) /\ BaseList(l)' = BaseList(l + 1)
    <3>1. CASE l # 0
      <4>1. l \in DOMAIN wire' /\ l + 1 # 0
        BY <1>5, <3>1 DEF Latest
      <4> QED
        BY <1>7, <3>1, <4>1 DEF BaseChat, BaseList
    <3>2. CASE l = 0
      <4>1. SwapWindow
        <5>1. f.type = "window"
          BY <1>9, <3>2
        <5> QED
          BY <5>1 DEF AppendMessage, SwapMessage, MarkChat, NextFrame
      <4>2. page' = [chat |-> f.chat, list |-> f.list]
        BY <4>1 DEF SwapWindow
      <4>3. page'.chat = wire[1].chat /\ page'.list = wire[1].list
        BY <1>2, <4>2
      <4>4. l + 1 = 1 /\ l + 1 # 0
        BY <3>2
      <4> QED
        BY <3>2, <4>3, <4>4 DEF BaseChat, BaseList
    <3> QED
      BY <3>1, <3>2
  <2>4. FragmentsFit(l)'
    BY <1>1, <1>7, <2>2 DEF WindowOK, FragmentsFit
  <2>5. Coming(l)' = Coming(l + 1)
    BY <1>8 DEF Coming
  <2>6. ListOK(BaseList(l), Coming(l))'
    BY <1>1, <2>2, <2>3, <2>5
    DEF WindowOK, ListOK, OfCurrent, Uncrossed, ToBeShown, InOrder, OneAt, Shown
  <2> QED
    BY <1>1, <2>2, <2>3, <2>4, <2>6 DEF WindowOK
<1>10. CASE l = 0 /\ f.type # "window"
  <2>1. Latest(0)
    <3>1. ASSUME NEW k \in DOMAIN wire
          PROVE  wire[k].type # "window"
      <4>1. CASE k = 1
        BY <1>2, <1>10, <4>1
      <4>2. CASE k > 1
        <5>1. k - 1 > 0
          BY <4>2, Places
        <5> QED
          BY <1>6, <1>10, <4>2, <5>1 DEF Latest
      <4> QED
        BY <4>1, <4>2, Places
    <3> QED
      BY <3>1 DEF Latest
  <2>2. WindowOK(0)
    <3>1. 0 \in 0..Len(wire)
      BY Places
    <3> QED
      BY <1>1, <2>1, <3>1 DEF PageInv
  <2> DEFINE x == News(1)
             coming == {News(k) : k \in {j \in Told : j > 1}}
  <2>3. 1 \in Told /\ x = f.list[1]
    BY <1>2, <1>10, Places DEF Told, News, Last
  <2>4. Coming(0) = coming \cup {x}
    <3>1. {j \in Told : j > 0} = {j \in Told : j > 1} \cup {1}
      BY <1>4, <2>3
    <3> QED
      BY <3>1 DEF Coming
  <2>5. /\ page.chat = current /\ ListOK(page.list, coming \cup {x})
        /\ f.type = "mark" <=> f.chat # current
        /\ f.type = "append" => x.version = 0
        /\ f.type = "swap" => x.version # 0
        /\ f.chat = docs[x.msg].chat
    <3>1. 1 > 0
      OBVIOUS
    <3>2. f.chat = docs[x.msg].chat
      BY <1>2, <1>10, <2>3 DEF TypeInv, FramesOK
    <3> HIDE DEF coming, x
    <3> QED
      BY <1>2, <2>2, <2>3, <2>4, <3>1, <3>2 DEF WindowOK, BaseChat, BaseList, FragmentsFit
  <2>6. docs[x.msg].chat = current => ComesFirst(x, coming)
    <3>1. /\ x = [msg |-> x.msg, version |-> x.version] /\ x.version \in Nat /\ x.msg \in Nat
          /\ x.msg \in DOMAIN docs
      BY <2>3, NewsTypes
    <3>2. ASSUME NEW y \in coming
          PROVE  /\ y.version \in Nat /\ y.msg \in Nat
                 /\ y.msg = x.msg => x.version < y.version
                 /\ x.version = 0 /\ y.version = 0 => x.msg < y.msg
      <4>1. PICK k \in Told : k > 1 /\ y = News(k)
        OBVIOUS
      <4>2. y.version \in Nat /\ y.msg \in Nat
        BY <4>1, NewsTypes
      <4>3. 1 < k
        BY <1>4, <4>1
      <4> QED
        BY <2>3, <4>1, <4>2, <4>3 DEF NewsOK
    <3>3. x = Shown(x.msg) \/ \E y \in coming : y.msg = x.msg
      <4>1. PICK k \in Told :
               1 <= k /\ News(k) = [msg |-> x.msg, version |-> docs[x.msg].version]
        BY <2>3 DEF NewsOK
      <4>2. CASE k = 1
        BY <4>1, <4>2 DEF Shown
      <4>3. CASE k > 1
        <5>1. News(k) \in coming /\ News(k).msg = x.msg
          BY <4>1, <4>3
        <5> QED
          BY <5>1
      <4> QED
        BY <1>4, <4>1, <4>2, <4>3
    <3> HIDE DEF x, coming
    <3> QED
      BY <3>1, <3>2, <3>3 DEF ComesFirst
  <2>7. Coming(l)' = coming
    <3>1. l + 1 = 1
      BY <1>10
    <3> QED
      BY <1>8, <3>1
  <2>8. BaseChat(l)' = page'.chat /\ BaseList(l)' = page'.list
    BY <1>10 DEF BaseChat, BaseList
  <2>9. FragmentsFit(l)'
    <3>1. \A k \in DOMAIN wire' : k + 1 > 0
      BY <1>2, Places
    <3> QED
      BY <1>1, <1>7, <2>2, <3>1 DEF WindowOK, FragmentsFit
  <2>10. page \in [chat : Chats \cup {NoChat}, list : Seq(Item)]
    BY DEF TypeInv, TypeOK
  <2>11. page.list \in Seq(Item)
    BY <2>10
  <2>12. PICK n \in Nat : n = Len(page.list) /\ DOMAIN page.list = 1..n
    BY <2>11, ItemsOf
  <2>13. x \in Item
    BY <2>3, NewsTypes
  <2> HIDE DEF x, coming, f
  <2>14. page'.chat = current /\ ListOK(page'.list, coming)
    <3>1. CASE MarkChat
      <4>1. f.type = "mark" /\ page' = page
        BY <3>1 DEF MarkChat, NextFrame, f
      <4> QED
        BY <2>5, <4>1, ListMarked
    <3>2. CASE AppendMessage
      <4>1. /\ f.type = "append"
            /\ page' = IF page.chat = NoChat THEN page
                       ELSE [page EXCEPT !.list = page.list \o f.list]
        BY <3>2 DEF AppendMessage, NextFrame, f
      <4>2. f.chat = current /\ f.chat \in Chats /\ page.chat # NoChat
        <5>1. f.chat \in Chats
          BY <1>2 DEF Frame
        <5> QED
          BY <2>5, <4>1, <5>1, ViewAssumption
      <4>3. PICK longer : longer = page.list \o f.list
        OBVIOUS
      <4>4. page' = [chat |-> page.chat, list |-> longer]
        BY <2>10, <4>1, <4>2, <4>3
      <4>5. f.list \in Seq(Item) /\ Len(f.list) = 1
        <5>1. wire[1] \in Frame /\ f = wire[1] /\ Len(wire[1].list) = 1
          BY <1>1, <1>10, FirstFrame DEF f
        <5> QED
          BY <5>1 DEF Frame
      <4>6. /\ DOMAIN longer = 1..(n + 1) /\ longer[n + 1] = x
            /\ \A i \in 1..n : longer[i] = page.list[i]
        <5>1. PICK s \in Seq(Item) : s = page.list
          BY <2>11
        <5>2. PICK t \in Seq(Item) : t = f.list
          BY <4>5
        <5>3. longer = s \o t /\ Len(s) = n /\ Len(t) = 1 /\ t[1] = x
          BY <2>3, <2>12, <4>3, <4>5, <5>1, <5>2
        <5>4. /\ DOMAIN (s \o t) = 1..(n + 1) /\ (s \o t)[n + 1] = t[1]
              /\ \A i \in 1..n : (s \o t)[i] = s[i]
          <6>1. /\ DOMAIN (s \o t) = 1..(Len(s) + Len(t))
                /\ \A k \in 1..Len(s) : (s \o t)[k] = s[k]
                /\ \A k \in 1..Len(t) : (s \o t)[Len(s) + k] = t[k]
            BY ConcatOf
          <6> QED
            BY <5>3, <6>1
        <5> QED
          BY <5>1, <5>3, <5>4
      <4>7. ListOK(longer, coming)
        BY <2>5, <2>6, <2>12, <4>1, <4>2, <4>6, ListAppended
      <4> QED
        BY <2>5, <4>4, <4>7
    <3>3. CASE SwapMessage
      <4> DEFINE swapped == [i \in DOMAIN page.list |->
                               IF page.list[i].msg = x.msg THEN x ELSE page.list[i]]
      <4>1. f.type = "swap" /\ page' = [page EXCEPT !.list = swapped]
        BY <2>3, <3>3 DEF SwapMessage, NextFrame, f
      <4>2. /\ DOMAIN swapped = DOMAIN page.list
            /\ \A i \in DOMAIN page.list :
                  swapped[i] = IF page.list[i].msg = x.msg THEN x ELSE page.list[i]
        OBVIOUS
      <4> HIDE DEF swapped
      <4>3. page' = [chat |-> page.chat, list |-> swapped]
        BY <2>10, <4>1
      <4>4. f.chat = current
        BY <2>5, <4>1
      <4>5. ListOK(swapped, coming)
        BY <2>5, <2>6, <4>1, <4>2, <4>4, ListSwapped
      <4> QED
        BY <2>5, <4>3, <4>5
    <3>4. ~ SwapWindow
      BY <1>10 DEF SwapWindow, NextFrame, f
    <3> QED
      BY <3>1, <3>2, <3>3, <3>4
  <2>15. ListOK(BaseList(l), Coming(l))'
    BY <1>1, <2>7, <2>8, <2>14
    DEF ListOK, OfCurrent, Uncrossed, ToBeShown, InOrder, OneAt, Shown
  <2> QED
    BY <1>1, <2>8, <2>9, <2>14, <2>15 DEF WindowOK
<1> QED
  BY <1>9, <1>10

LEMMA StepPage == TypeInv /\ NewsOK /\ SendInv /\ PageInv /\ [Next]_vars => PageInv'
<1> SUFFICES ASSUME TypeInv, NewsOK, SendInv, PageInv, [Next]_vars
             PROVE  PageInv'
  OBVIOUS
<1>1. ASSUME NEW c \in Chats, StoreMessage(c)
      PROVE  PageInv'
  BY <1>1, StoredNew, AnnouncePage
<1>2. ASSUME NEW m \in DOMAIN docs, StoreChange(m)
      PROVE  PageInv'
  BY <1>2, StoredChange, AnnouncePage
<1>3. ASSUME NEW c \in Chats, ConnectClient(c)
      PROVE  PageInv'
  BY <1>3 DEF ConnectClient, PageInv
<1>4. CASE GetMessages \/ GetMessagesFails
  BY <1>4 DEF GetMessages, Read, GetMessagesFails, PageInv
<1>5. CASE Broadcast \/ UNCHANGED vars
  <2>1. UNCHANGED <<docs, inbox, pc, current, wire, page, crossed, failed>>
    BY <1>5 DEF Broadcast, vars, handlerVars, pageVars, history
  <2> QED
    BY <2>1 DEF PageInv, Latest, WindowOK, BaseChat, BaseList, FragmentsFit, Coming, Told, News,
                Last, ListOK, OfCurrent, Uncrossed, ToBeShown, InOrder, OneAt, Shown
<1> QED
  BY <1>1, <1>2, <1>3, <1>4, <1>5, HandlePage, SendPage, SwapPage DEF Next
-----------------------------------------------------------------------------
(* Theorems.                                                                *)

ViewInv == TypeInv /\ NewsOK /\ PageInv /\ SendInv /\ UnreadInv

LEMMA ViewInvariant == Spec => []ViewInv
<1>1. Init => ViewInv
  BY InitTypes, InitNews, InitPage, InitSend, InitUnread DEF ViewInv
<1>2. ViewInv /\ [Next]_vars => ViewInv'
  BY StepTypes, StepNews, StepPage, StepSend, StepUnread DEF ViewInv
<1> QED
  BY <1>1, <1>2, PTL DEF Spec

\* The notifications, frames, marks and lists of a page keep their types.
THEOREM TypeCorrect == Spec => []TypeOK
<1>1. ViewInv => TypeOK
  BY DEF ViewInv, TypeInv
<1> QED
  BY <1>1, ViewInvariant, PTL

\* The page that has swapped in every frame has the window of the current chat.
LEMMA SettledPage ==
    ASSUME ViewInv, Settled
    PROVE  page.chat = current /\ ListOK(page.list, Coming(0))
<1>1. pc = "reading" /\ ~ failed /\ Len(wire) = 0 /\ DOMAIN wire = {}
  BY NoItems DEF Settled
<1>2. Latest(0) /\ 0 \in 0..Len(wire)
  BY <1>1 DEF Latest
<1> QED
  BY <1>1, <1>2 DEF ViewInv, PageInv, WindowOK, BaseChat, BaseList

\* When all was announced and delivered a page shows each message of its chat once,
\* as it is stored, but for those whose change crossed the window between
\* GetMessages and Send of the changeChat handler, and those that a window from the
\* cache did not have as stored.
THEOREM PageShowsTheChat == Spec => []ShowsTheChat
<1>1. ViewInv => ShowsTheChat
  <2> SUFFICES ASSUME ViewInv, Settled, inbox = <<>>,
                      NEW m \in DOMAIN docs \ crossed, docs[m].chat = page.chat
               PROVE  \E i \in DOMAIN page.list :
                         /\ page.list[i] = Shown(m)
                         /\ \A j \in DOMAIN page.list : page.list[j].msg = m => j = i
    BY DEF ShowsTheChat
  <2>1. page.chat = current /\ ListOK(page.list, Coming(0))
    BY SettledPage
  <2>2. Coming(0) = {}
    <3>1. Last = 0
      BY NoItems DEF Last, Settled
    <3> QED
      BY <3>1 DEF Coming, Told
  <2>3. m \in Uncrossed
    BY <2>1 DEF Uncrossed
  <2>4. ToBeShown(page.list, {}, m)
    BY <2>1, <2>2, <2>3 DEF ListOK
  <2> QED
    BY <2>4 DEF ToBeShown, OneAt
<1> QED
  BY <1>1, ViewInvariant, PTL

\* The messages of a page, with the same exceptions, are in the order in which they
\* were inserted, whether the window or a later fragment brought them.
THEOREM PageShowsInOrder == Spec => []ShowsInOrder
<1>1. ViewInv => ShowsInOrder
  BY SettledPage DEF ShowsInOrder, ListOK, InOrder
<1> QED
  BY <1>1, ViewInvariant, PTL

\* No fragment brings a message of another chat into the page's list.
THEOREM PageShowsOnlyTheChat == Spec => []ShowsOnlyTheChat
<1>1. ViewInv => ShowsOnlyTheChat
  BY SettledPage DEF ShowsOnlyTheChat, ListOK, OfCurrent
<1> QED
  BY <1>1, ViewInvariant, PTL

\* A chat with news since the client left it is marked once the page has swapped
\* in what it was sent.
THEOREM UnreadChatIsMarked == Spec => []UnreadIsMarked
<1>1. ViewInv => UnreadIsMarked
  <2> SUFFICES ASSUME ViewInv, wire = <<>>, NEW c \in unread
               PROVE  marks[c] = "newMessage"
    BY DEF UnreadIsMarked
  <2>1. 0..Len(wire) = {0}
    BY NoItems
  <2> QED
    BY <2>1 DEF ViewInv, UnreadInv
<1> QED
  BY <1>1, ViewInvariant, PTL
=============================================================================
