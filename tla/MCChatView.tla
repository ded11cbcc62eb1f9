----------------------------- MODULE MCChatView -----------------------------
(* Instances of ChatView for TLC. *)
EXTENDS ChatView, TLC

CONSTANTS c1, c2, c3

TwoChats == {c1, c2}
ThreeChats == {c1, c2, c3}

Symmetry == Permutations(Chats)
=============================================================================
