---------------------------- MODULE Transactions ----------------------------
(***************************************************************************)
(* What the log promises to the file system: system calls update blocks in *)
(* memory, the disk changes only from one state in which no system call is *)
(* active to another such state, all at once, and a crash falls back to    *)
(* the last state that reached the disk.                                   *)
(***************************************************************************)
CONSTANTS Procs, Blocks, Data

VARIABLES
    disk,       \* the blocks as they would be found after a crash
    mem,        \* the blocks as system calls see them
    active      \* the system calls between begin_op() and end_op()

vars == <<disk, mem, active>>

Init == disk \in [Blocks -> Data] /\ mem = disk /\ active = {}

Begin(p) ==
    /\ p \notin active
    /\ active' = active \cup {p}
    /\ UNCHANGED <<disk, mem>>

Write(p, b, v) ==
    /\ p \in active
    /\ mem' = [mem EXCEPT ![b] = v]
    /\ UNCHANGED <<disk, active>>

End(p) ==
    /\ p \in active
    /\ active' = active \ {p}
    /\ UNCHANGED <<disk, mem>>

Commit ==
    /\ active = {}
    /\ disk' = mem
    /\ UNCHANGED <<mem, active>>

Crash ==
    /\ mem' = disk
    /\ active' = {}
    /\ UNCHANGED disk

Next ==
    \/ \E p \in Procs : Begin(p) \/ End(p)
    \/ \E p \in Procs, b \in Blocks, v \in Data : Write(p, b, v)
    \/ Commit
    \/ Crash

Spec == Init /\ [][Next]_vars
=============================================================================
