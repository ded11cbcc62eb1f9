--------------------------- MODULE MCChatServer ---------------------------
(* Instances of ChatServer for TLC. *)
EXTENDS ChatServer, TLC

CONSTANTS w1, w2, h1, h2, u1

OneHub == {h1}
TwoHubs == {h1, h2}
OneWorker == {w1}
TwoWorkers == {w1, w2}
OneUser == {u1}
NoUsers == {}

WorkerFaults == {"crash", "disconnect", "store"}
OrderlyFaults == {"crash", "store", "hub"}
LiveFaults == {"crash", "disconnect", "store", "hub"}

Symmetry == Permutations(Workers) \cup Permutations(Hubs)
=============================================================================
