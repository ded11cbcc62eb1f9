---------------------------- MODULE EventDelivery ----------------------------
(***************************************************************************)
(* What the queue "chat_messages" and its consumers promise together: an   *)
(* event once accepted is answered for until it has taken effect or has    *)
(* been given up on, and it takes effect a second time only when the       *)
(* broker gave it out a second time.  This is at-least-once delivery with  *)
(* the ack after the work.  Events are numbered in the order they were     *)
(* accepted.                                                               *)
(*                                                                         *)
(* Connections, workers, buffers and notifications do not appear here;     *)
(* ChatServer is shown to implement this module.                           *)
(***************************************************************************)
EXTENDS Naturals, Sequences

VARIABLES
    published,  \* number of events accepted so far
    open,       \* events the broker still answers for
    repeated,   \* events given out a second time
    applied,    \* events that have had their effect on the store
    failed,     \* events given up on, without effect
    inserted    \* the events that inserted a message, one entry per message

vars == <<published, open, repeated, applied, failed, inserted>>

Init ==
    /\ published = 0
    /\ open = {} /\ repeated = {} /\ applied = {} /\ failed = {}
    /\ inserted = <<>>

Publish ==
    /\ published' = published + 1
    /\ open' = open \cup {published + 1}
    /\ UNCHANGED <<repeated, applied, failed, inserted>>

\* The broker stops waiting for the acks of S and gives S out again.
Redeliver(S) ==
    /\ repeated' = repeated \cup S
    /\ UNCHANGED <<published, open, applied, failed, inserted>>

\* Someone works on e: the broker answers for it, or it was given out again
\* and whoever had it first has not noticed.
InWork(e) == e \in open \cup repeated

Inserts(e) ==
    /\ e \in repeated \/ \A m \in DOMAIN inserted : inserted[m] # e
    /\ inserted' = Append(inserted, e)

Apply(e) ==
    /\ InWork(e)
    /\ applied' = applied \cup {e}
    /\ Inserts(e) \/ UNCHANGED inserted
    /\ UNCHANGED <<published, open, repeated, failed>>

GiveUp(e) ==
    /\ InWork(e)
    /\ failed' = failed \cup {e}
    /\ UNCHANGED <<published, open, repeated, applied, inserted>>

\* The ack.
Settle(e) ==
    /\ e \in applied \cup failed
    /\ open' = open \ {e}
    /\ UNCHANGED <<published, repeated, applied, failed, inserted>>

Next ==
    \/ Publish
    \/ \E S \in SUBSET open : Redeliver(S)
    \/ \E e \in 1..published : Apply(e) \/ GiveUp(e) \/ Settle(e)

Spec == Init /\ [][Next]_vars

-----------------------------------------------------------------------------
(* What the promise amounts to.                                            *)

AllAccepted ==
    /\ published \in Nat
    /\ open \cup repeated \cup applied \cup failed \subseteq 1..published

\* No event is forgotten.
NothingForgotten == 1..published \subseteq open \cup applied \cup failed

\* Two messages from one event mean that the event was given out twice.
InsertedOnceUnlessRepeated ==
    \A m, n \in DOMAIN inserted :
        m # n /\ inserted[m] = inserted[n] => inserted[m] \in repeated
=============================================================================
