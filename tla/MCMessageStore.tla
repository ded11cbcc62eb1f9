-------------------------- MODULE MCMessageStore --------------------------
(* Instances of MessageStore for TLC. *)
EXTENDS MessageStore, TLC

CONSTANTS r1, r2, w1, w2

TwoReaders == {r1, r2}
TwoWriters == {w1, w2}

Symmetry == Permutations(Readers) \cup Permutations(Writers)
=============================================================================
