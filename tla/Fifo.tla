-------------------------------- MODULE Fifo --------------------------------
(***************************************************************************)
(* What a pipe promises: a bounded first-in first-out queue of bytes that  *)
(* can be closed at either end.                                            *)
(***************************************************************************)
EXTENDS Naturals, Sequences

CONSTANTS Bytes, Capacity

VARIABLES
    q,              \* the bytes written and not read yet
    out,            \* the bytes the last read delivered
    ropen, wopen    \* the ends that are open

vars == <<q, out, ropen, wopen>>

Init == q = <<>> /\ out = <<>> /\ ropen = TRUE /\ wopen = TRUE

Put ==
    /\ wopen
    /\ \E m \in 1..Capacity - Len(q) : \E s \in [1..m -> Bytes] : q' = q \o s
    /\ UNCHANGED <<out, ropen, wopen>>

Get ==
    /\ ropen
    /\ q # <<>> \/ ~wopen
    /\ \E m \in 0..Len(q) :
        /\ out' = SubSeq(q, 1, m)
        /\ q' = SubSeq(q, m + 1, Len(q))
    /\ UNCHANGED <<ropen, wopen>>

CloseRead == ropen /\ ropen' = FALSE /\ UNCHANGED <<q, out, wopen>>

CloseWrite == wopen /\ wopen' = FALSE /\ UNCHANGED <<q, out, ropen>>

Next == Put \/ Get \/ CloseRead \/ CloseWrite

Spec == Init /\ [][Next]_vars
=============================================================================
