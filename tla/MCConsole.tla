----------------------------- MODULE MCConsole -----------------------------
(* Instance of Console for TLC. *)
EXTENDS Console, TLC

CONSTANTS p1, q1, l1
=============================================================================
