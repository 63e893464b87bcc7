------------------------------- MODULE MCPipe -------------------------------
(* Instance of Pipe for TLC. *)
EXTENDS Pipe, TLC

CONSTANTS r1, w1, w2

MCReaders == {r1}
MCWriters == {w1, w2}
=============================================================================
