---------------------------- MODULE MCNodeTable ----------------------------
(* Two peers and three IP addresses for TLC: one is always free.            *)
EXTENDS NodeTable, TLC
CONSTANTS p1, p2, a1, a2, a3
Peers == {p1, p2}
Addresses == {a1, a2, a3}
TwoAddresses == {a1, a2}
Renaming == Permutations(Peers) \cup Permutations(Addresses)
=============================================================================
