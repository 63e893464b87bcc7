------------------------------ MODULE MCInode -------------------------------
(* An instance of Inode for TLC: a file that two processes have open, and one
   more to reuse its blocks. *)
EXTENDS Inode

MCIp == [f \in {1, 2} |-> f]
=============================================================================
