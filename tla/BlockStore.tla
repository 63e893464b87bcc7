----------------------------- MODULE BlockStore -----------------------------
(***************************************************************************)
(* What the buffer cache promises the file system: every block has one     *)
(* current value, and whoever has locked the block, and nobody else, may   *)
(* change it.                                                              *)
(***************************************************************************)
EXTENDS Naturals

CONSTANTS Procs, Blocks, Data, NoProc

VARIABLES
    value,      \* the current contents of each block
    holder      \* who has it locked

vars == <<value, holder>>

Init == value \in [Blocks -> Data] /\ holder = [b \in Blocks |-> NoProc]

Lock(p, b) ==
    /\ holder[b] = NoProc
    /\ holder' = [holder EXCEPT ![b] = p]
    /\ UNCHANGED value

Write(p, b, v) ==
    /\ holder[b] = p
    /\ value' = [value EXCEPT ![b] = v]
    /\ UNCHANGED holder

Unlock(p, b) ==
    /\ holder[b] = p
    /\ holder' = [holder EXCEPT ![b] = NoProc]
    /\ UNCHANGED value

Next == \E p \in Procs, b \in Blocks :
            Lock(p, b) \/ Unlock(p, b) \/ \E v \in Data : Write(p, b, v)

Spec == Init /\ [][Next]_vars
=============================================================================
