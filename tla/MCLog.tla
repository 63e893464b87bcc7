------------------------------- MODULE MCLog -------------------------------
(* Instance of Log for TLC. *)
EXTENDS Log, TLC

CONSTANTS p1, p2, b1, b2

MCProcs2 == {p1, p2}
MCBlocks2 == {b1, b2}
Symmetry2 == Permutations(MCProcs2) \cup Permutations(MCBlocks2)
=============================================================================
