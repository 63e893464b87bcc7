------------------------------ MODULE MCBcache ------------------------------
(* Instance of Bcache for TLC. *)
EXTENDS Bcache, TLC

CONSTANTS p1, p2, b1, b2, b3

MCProcs == {p1, p2}
MCBlocks == {b1, b2, b3}
=============================================================================
