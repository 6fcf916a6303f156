----------------------------- MODULE MCAutoJoin -----------------------------
(* Two access points, one of which may be out of reach, for TLC. *)
EXTENDS AutoJoin, TLC
CONSTANTS a, b
Both == {a, b}
OnlyA == {a}
=============================================================================
