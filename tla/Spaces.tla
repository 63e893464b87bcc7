------------------------------- MODULE Spaces -------------------------------
(***************************************************************************)
(* What the kernel promises about the memory of processes: everybody has   *)
(* a memory of their own, which only their own calls and writes change.    *)
(* A call does all of its work and succeeds, or does nothing and fails,    *)
(* but for one: see GiveBack.                                              *)
(***************************************************************************)
EXTENDS Naturals

CONSTANTS
    Procs, Vpages,
    Images      \* the memory that each program starts with

VARIABLES
    space,      \* of each process: what each page holds, or NoSpace
    ret         \* of each process: the result of its last call

NoSpace == [v \in {} |-> "none"]
Absent == {"none", "guard"}

Init ==
    /\ \E p \in Procs :
        space = [q \in Procs |-> IF q = p THEN [v \in Vpages |-> IF v = 0 THEN "prog" ELSE "none"] ELSE NoSpace]
    /\ ret = [p \in Procs |-> "none"]

Live(p) == space[p] # NoSpace
Becomes(p, s) == space' = [space EXCEPT ![p] = s]
Returns(p, result) == ret' = [ret EXCEPT ![p] = result]

Write(p, v) ==
    /\ space[p][v] \notin Absent
    /\ Becomes(p, [space[p] EXCEPT ![v] = "user"])
    /\ UNCHANGED ret

\* The pages that sbrk() adds are there together, and are zero.
Grow(p) ==
    /\ \E n \in Vpages :
        Becomes(p, [v \in Vpages |-> IF v <= n /\ space[p][v] = "none" THEN "zero" ELSE space[p][v]])
    /\ Returns(p, "ok")

\* The first page stays.
Shrink(p) ==
    /\ \E n \in Vpages : Becomes(p, [v \in Vpages |-> IF v <= n THEN space[p][v] ELSE "none"])
    /\ Returns(p, "ok")

\* sbrk() of everything takes the memory away and says that it failed.
GiveBack(p) == Becomes(p, [v \in Vpages |-> "none"]) /\ Returns(p, "fail")

Exec(p) == (\E s \in Images : Becomes(p, s)) /\ Returns(p, "ok")
Fork(p, q) ==
    /\ ~Live(q)
    /\ Becomes(q, space[p])
    /\ ret' = [ret EXCEPT ![p] = "ok", ![q] = "ok"]

Fail(p) == Returns(p, "fail") /\ UNCHANGED space

Exit(p) == Becomes(p, NoSpace) /\ Returns(p, "none")

Next ==
    \E p \in Procs :
        /\ Live(p)
        /\ \/ \E v \in Vpages : Write(p, v)
           \/ Grow(p) \/ Shrink(p) \/ GiveBack(p) \/ Exec(p) \/ Fail(p) \/ Exit(p)
           \/ \E q \in Procs : Fork(p, q)

Spec == Init /\ [][Next]_<<space, ret>>
=============================================================================
