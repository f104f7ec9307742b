------------------------------ MODULE MCWalletQr ------------------------------
(* Instances of WalletQr for TLC. *)
EXTENDS WalletQr, TLC

CONSTANTS u1, u2, k1

TwoRules == {[p2p |-> TRUE, limit |-> 2], [p2p |-> FALSE, limit |-> 1]}

Symmetry == Permutations(Users \ Staff) \cup Permutations(Staff) \cup Permutations(Keys)
=============================================================================
