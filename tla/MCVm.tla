-------------------------------- MODULE MCVm --------------------------------
(* An instance of Vm for TLC. *)
EXTENDS Vm

CONSTANTS p1, p2, p3
MCProcs == {p1, p2, p3}

Seg(vaddr, memsz, filesz) == [vaddr |-> vaddr, memsz |-> memsz, filesz |-> filesz, short |-> FALSE]
Prog(segs, args) == [elf |-> TRUE, segs |-> segs, args |-> args]

\* A program, arguments that do not fit, a program that does not fit, a file that
\* ends too early, and one that is no program.
Small == Prog(<<Seg(0, 2, 1)>>, 2)
MCPrograms == [p \in MCProcs |->
    IF p = initproc THEN {Small}
    ELSE {Small, Prog(<<Seg(0, 2, 2)>>, 3), Prog(<<Seg(0, 2, 2), Seg(2, 1, 0)>>, 1),
          Prog(<<[Seg(0, 3, 3) EXCEPT !.short = TRUE]>>, 1), [Small EXCEPT !.elf = FALSE]}]
MCAmounts == [p \in MCProcs |-> IF p = initproc THEN {} ELSE {3, -2}]
MCWritable == {0}
MCSymmetry == Permutations({p2, p3})
=============================================================================
