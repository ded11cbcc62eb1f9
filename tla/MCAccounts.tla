----------------------------- MODULE MCAccounts -----------------------------
(* Instances of Accounts for TLC. *)
EXTENDS Accounts, TLC

CONSTANTS q1, q2, q3, q4, w1, w2, b1, b2, ann, p1, p2

FourRequests == {q1, q2, q3, q4}
TwoWebapps == {w1, w2}
TwoBrowsers == {b1, b2}
OneName == {ann}
TwoPasswords == {p1, p2}

Symmetry == Permutations(Requests) \cup Permutations(Webapps)
            \cup Permutations(Browsers) \cup Permutations(Passwords)
=============================================================================
