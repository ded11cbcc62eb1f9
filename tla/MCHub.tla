------------------------------- MODULE MCHub -------------------------------
(* Instances of Hub for TLC. *)
EXTENDS Hub, TLC

CONSTANTS k1, k2, k3, s1, s2, a, b

TwoConns == {k1, k2}
ThreeConns == {k1, k2, k3}
OneSession == {s1}
TwoSessions == {s1, s2}
OneChat == {a}
TwoChats == {a, b}

Symmetry ==
    Permutations(Conns) \cup Permutations(Sessions) \cup Permutations(Chats)
=============================================================================
