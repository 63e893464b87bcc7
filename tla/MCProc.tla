------------------------------- MODULE MCProc -------------------------------
(* Instance of Proc for TLC. *)
EXTENDS Proc, TLC

CONSTANTS c1, c2

MCCpus == {c1, c2}
MCPrios == {-1, 1}
CpuSymmetry == Permutations(MCCpus)
=============================================================================
