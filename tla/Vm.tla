--------------------------------- MODULE Vm ---------------------------------
(***************************************************************************)
(* The memory of processes: the page allocator of kalloc.c, the page       *)
(* tables of vm.c, and the calls that build, copy, resize, replace and     *)
(* free them: exec(), fork(), sbrk(), exit() and wait().                   *)
(*                                                                         *)
(* Two processes share nothing but the free list, which kmem.lock          *)
(* protects, so a step runs from one page allocation to the next: a call   *)
(* can run out of memory at each of them, having built half of a page      *)
(* table.  A page of the free list is as good as another: kalloc() takes   *)
(* the lowest.  Addresses are counted in PGSIZE units to a page, and       *)
(* memory holds one value per page.                                        *)
(***************************************************************************)
EXTENDS Integers, Sequences, SequencesExt, FiniteSetsExt

CONSTANTS
    Procs, initproc,
    NPAGES,         \* pages of physical memory, 0 is no page
    PGSIZE,         \* units in a page
    NPTENTRIES,     \* pages that one page table maps
    KERNBASE,       \* first address of the kernel
    KTABS,          \* page tables for the kernel's mappings
    Programs,       \* what each process calls exec() with: [elf, segs, args]
    Amounts,        \* what it calls sbrk() with
    Writable,       \* the pages that processes write to
    MaxCalls        \* bound on the calls that ask for memory

ASSUME VmAssumption ==
    /\ {NPAGES, PGSIZE, NPTENTRIES, KERNBASE, KTABS} \subseteq Nat \ {0}
    /\ initproc \in Procs
    /\ KERNBASE % (PGSIZE * NPTENTRIES) = 0

VARIABLES
    mem,            \* the free list and what the pages hold
    proc,           \* [state, kstack, pg, sz] of each process
    l,              \* where each process is in its call
    calls           \* that have asked for memory

vars == <<mem, proc, l, calls>>

Pages == 1..NPAGES
Vpages == 0..(KERNBASE \div PGSIZE) - 1
UTABS == KERNBASE \div (PGSIZE * NPTENTRIES)
Tabs == 0..UTABS + KTABS - 1

PDX(v) == v \div NPTENTRIES
PGROUNDUP(a) == ((a + PGSIZE - 1) \div PGSIZE) * PGSIZE
PagesIn(from, to) == {v \in Vpages : from <= v * PGSIZE /\ v * PGSIZE < to}

\* 32-bit arithmetic: the kernel has the upper half of the addresses.
uint(a) == a % (2 * KERNBASE)

\* A page table: its directory, the page tables and the user's pages in it.
NoPte == [pa |-> 0, u |-> FALSE]
NoPgdir == [dir |-> 0, tab |-> [t \in Tabs |-> 0], pte |-> [v \in Vpages |-> NoPte]]

-----------------------------------------------------------------------------
(* kalloc.c *)

\* free[a] is how often page a is on the free list.
FreePages(k) == {a \in Pages : k.free[a] > 0}
CanAlloc(k) == FreePages(k) # {}
NextPage(k) == CHOOSE a \in FreePages(k) : \A b \in FreePages(k) : a <= b

\* Take the next page, and fill it.
kalloc(k, data) == [k EXCEPT !.free[NextPage(k)] = @ - 1, !.data[NextPage(k)] = data]

\* Give back page a, n times: it is filled with junk.
kfree(k, n) ==
    [k EXCEPT !.free = [a \in Pages |-> @[a] + n[a]],
              !.data = [a \in Pages |-> IF n[a] > 0 THEN "junk" ELSE @[a]]]
Once(a) == [b \in Pages |-> IF b = a THEN 1 ELSE 0]

\* kinit1() and kinit2() free every page.
kinit == [free |-> [a \in Pages |-> 1], data |-> [a \in Pages |-> "junk"], panicked |-> FALSE]

-----------------------------------------------------------------------------
(* vm.c: the operators return the memory k, the page table pg and ok *)

Result(k, pg, ok) == [k |-> k, pg |-> pg, ok |-> ok]

\* walkpgdir() with alloc: page table t is there, or is added.
walkpgdir(k, pg, t) ==
    IF pg.tab[t] # 0 THEN Result(k, pg, TRUE)
    ELSE IF ~CanAlloc(k) THEN Result(k, pg, FALSE)
    ELSE Result(kalloc(k, "zero"), [pg EXCEPT !.tab[t] = NextPage(k)], TRUE)

\* mappages() of one page.
mappages(k, pg, v, pa, u) ==
    LET w == walkpgdir(k, pg, PDX(v))
    IN  IF ~w.ok THEN w
        ELSE IF w.pg.pte[v] # NoPte THEN [w EXCEPT !.k.panicked = TRUE]
        ELSE [w EXCEPT !.pg.pte[v] = [pa |-> pa, u |-> u]]

\* Allocate, fill and map a page, the body of the loops of allocuvm() and
\* copyuvm(): a page that cannot be mapped is given back.
unmapped_leak(k, pa) == k
unmapped(k, pa) == kfree(k, Once(pa))
newpage(k, pg, v, data, u) ==
    LET r == mappages(kalloc(k, data), pg, v, NextPage(k), u)
    IN  IF ~CanAlloc(k) THEN Result(k, pg, FALSE)
        ELSE IF ~r.ok THEN [r EXCEPT !.k = unmapped(@, NextPage(k))]
        ELSE r

\* deallocuvm(): the pages that are mapped between newsz and oldsz.  It returns
\* the smaller of the two, and 0 is taken for a failure.
dealloc_from_down(newsz) == (newsz \div PGSIZE) * PGSIZE
dealloc_from(newsz) == PGROUNDUP(newsz)
deallocuvm(k, pg, oldsz, newsz) ==
    LET V == PagesIn(dealloc_from(newsz), oldsz)
    IN  Result(kfree(k, [a \in Pages |-> Cardinality({v \in V : pg.pte[v].pa = a})]),
               [pg EXCEPT !.pte = [v \in Vpages |-> IF v \in V THEN NoPte ELSE @[v]]],
               Min({newsz, oldsz}) # 0)

\* freevm(): the pages, the page tables and the directory.
freevm(k, pg) ==
    LET d == deallocuvm(k, pg, KERNBASE, 0)
    IN  kfree(d.k, [a \in Pages |-> Cardinality({t \in Tabs : pg.tab[t] = a}) + Once(pg.dir)[a]])

\* setupkvm(): a directory and the page tables of the kernel's mappings.
setupkvm(k) ==
    LET M[n \in 0..KTABS] ==
            IF n = 0 THEN Result(kalloc(k, "zero"), [NoPgdir EXCEPT !.dir = NextPage(k)], TRUE)
            ELSE IF M[n - 1].ok THEN walkpgdir(M[n - 1].k, M[n - 1].pg, UTABS + n - 1)
            ELSE M[n - 1]
    IN  IF ~CanAlloc(k) THEN Result(k, NoPgdir, FALSE)
        ELSE IF ~M[KTABS].ok THEN Result(freevm(M[KTABS].k, M[KTABS].pg), NoPgdir, FALSE)
        ELSE M[KTABS]

\* loaduvm() and copyout() fill pages that are there.
fill(k, pg, V, data) ==
    [k EXCEPT !.data = [a \in Pages |-> IF \E v \in V : pg.pte[v].pa = a THEN data ELSE @[a]]]
clearpteu(pg, v) == [pg EXCEPT !.pte[v].u = FALSE]
copyout_ok(pg, V) == \A v \in V : pg.pte[v].u

-----------------------------------------------------------------------------
(* The calls *)

NoProc == [state |-> "UNUSED", kstack |-> 0, pg |-> NoPgdir, sz |-> 0]
User == [op |-> "user", pg |-> NoPgdir, child |-> 0, a |-> 0, old |-> 0, new |-> 0,
         segs |-> <<>>, args |-> 0, ret |-> "none"]

\* Back in user space: ret is the result of the last sbrk(), exec() or fork().
Succeeds == [User EXCEPT !.ret = "ok"]
Fails == [User EXCEPT !.ret = "fail"]

\* userinit(): one process with one page.
userinit ==
    LET s == setupkvm(kalloc(kinit, "junk"))
        r == newpage(s.k, s.pg, 0, "prog", TRUE)
    IN  [k |-> r.k, p |-> [state |-> "LIVE", kstack |-> NextPage(kinit), pg |-> r.pg, sz |-> PGSIZE]]

Init ==
    /\ mem = userinit.k
    /\ proc = [p \in Procs |-> IF p = initproc THEN userinit.p ELSE NoProc]
    /\ l = [p \in Procs |-> User]
    /\ calls = 0

At(p, op) == proc[p].state = "LIVE" /\ l[p].op = op /\ ~mem.panicked
Step(k, p, x, me) == mem' = k /\ proc' = [proc EXCEPT ![p] = x] /\ l' = [l EXCEPT ![p] = me]

\* A process without its first page faults when it runs, and is killed.
Runs(p) == At(p, "user") /\ proc[p].pg.pte[0].u

write(p, v) ==
    /\ Runs(p) /\ proc[p].pg.pte[v].u
    /\ Step(fill(mem, proc[p].pg, {v}, "user"), p, proc[p], l[p])

\* allocuvm() up to its loop; it returns oldsz when newsz is less.
alloc(me, oldsz, newsz) ==
    [me EXCEPT !.a = PGROUNDUP(oldsz), !.old = oldsz,
               !.new = IF newsz < oldsz THEN oldsz ELSE newsz]

\* growproc(n).  A result of 0 is a failure, also where it is the new size.
growproc(p, n) ==
    /\ Runs(p)
    /\ LET me == proc[p]
           sz == uint(me.sz + n)
           d  == deallocuvm(mem, me.pg, me.sz, sz)
       IN  IF n > 0
           THEN IF sz >= KERNBASE THEN Step(mem, p, me, Fails)
                ELSE Step(mem, p, me, alloc([l[p] EXCEPT !.op = "grow"], me.sz, sz))
           ELSE Step(d.k, p, [me EXCEPT !.pg = d.pg, !.sz = IF d.ok THEN Min({sz, @}) ELSE @],
                     IF d.ok THEN Succeeds ELSE Fails)

\* One page of allocuvm(), for growproc() and for exec().
allocuvm(p) ==
    /\ \E op \in {"grow", "segment", "stack"} : At(p, op)
    /\ l[p].a < l[p].new
    /\ LET me == l[p]
           r  == newpage(mem, IF me.op = "grow" THEN proc[p].pg ELSE me.pg, me.a \div PGSIZE, "zero", TRUE)
           d  == deallocuvm(r.k, r.pg, me.new, me.old)
           to == [me EXCEPT !.a = @ + PGSIZE]
       IN  IF me.op = "grow"
           THEN IF r.ok THEN Step(r.k, p, [proc[p] EXCEPT !.pg = r.pg], to)
                ELSE Step(d.k, p, [proc[p] EXCEPT !.pg = d.pg], Fails)
           ELSE IF r.ok THEN Step(r.k, p, proc[p], [to EXCEPT !.pg = r.pg])
                ELSE Step(freevm(d.k, d.pg), p, proc[p], Fails)
Allocated(p, op) == At(p, op) /\ l[p].a >= l[p].new

growproc_done(p) ==
    /\ Allocated(p, "grow")
    /\ Step(mem, p, [proc[p] EXCEPT !.sz = l[p].new], Succeeds)

\* exec() goes on with the next segment, or with the stack and the page below
\* it.
exec_bad(k, p, me) == Step(freevm(k, me.pg), p, proc[p], Fails)
exec_alloc(k, p, me, sz) ==
    LET ph == Head(me.segs)
    IN  IF me.segs = <<>>
        THEN IF PGROUNDUP(sz) + 2 * PGSIZE >= KERNBASE THEN exec_bad(k, p, me)
             ELSE Step(k, p, proc[p], alloc([me EXCEPT !.op = "stack"], PGROUNDUP(sz), PGROUNDUP(sz) + 2 * PGSIZE))
        ELSE IF \/ ph.memsz < ph.filesz
                \/ ph.vaddr + ph.memsz >= KERNBASE
                \/ Max({sz, ph.vaddr + ph.memsz}) = 0 THEN exec_bad(k, p, me)
             ELSE Step(k, p, proc[p], alloc(me, sz, ph.vaddr + ph.memsz))
exec(p, prog) ==
    /\ Runs(p)
    /\ LET s == setupkvm(mem)
       IN  IF ~prog.elf THEN Step(mem, p, proc[p], Fails)
           ELSE IF ~s.ok THEN Step(s.k, p, proc[p], Fails)
           ELSE exec_alloc(s.k, p, [l[p] EXCEPT !.op = "segment", !.pg = s.pg, !.segs = prog.segs,
                                                !.args = prog.args], 0)
exec_load(p) ==
    /\ Allocated(p, "segment")
    /\ LET me == l[p]
           ph == Head(me.segs)
           V  == PagesIn(ph.vaddr, ph.vaddr + ph.filesz)
       IN  IF ph.vaddr % PGSIZE # 0 \/ ph.short THEN exec_bad(mem, p, me)
           ELSE exec_alloc(fill(mem, me.pg, V, "prog"), p, [me EXCEPT !.segs = Tail(@)], me.new)

\* The stack is there.  The arguments must not reach the page below it.
exec_commit(p) ==
    /\ Allocated(p, "stack")
    /\ LET me == l[p]
           sz == me.new
           pg == clearpteu(me.pg, (sz \div PGSIZE) - 2)
           V  == {v \in Vpages : v * PGSIZE < sz /\ (v + 1) * PGSIZE > sz - me.args}
       IN  IF ~copyout_ok(pg, V) THEN exec_bad(mem, p, me)
           ELSE Step(freevm(fill(mem, pg, V, "args"), proc[p].pg), p,
                     [proc[p] EXCEPT !.pg = pg, !.sz = sz], Succeeds)

\* fork(): allocproc() and setupkvm() for a child ...
fork(p) ==
    /\ Runs(p)
    /\ LET unused == {q \in Procs : proc[q].state = "UNUSED"}
           s == setupkvm(kalloc(mem, "junk"))
       IN  IF unused = {} \/ ~CanAlloc(mem) THEN Step(mem, p, proc[p], Fails)
           ELSE IF ~s.ok THEN Step(kfree(s.k, Once(NextPage(mem))), p, proc[p], Fails)
           ELSE \E q \in unused :
                    /\ mem' = s.k
                    /\ proc' = [proc EXCEPT ![q].state = "EMBRYO", ![q].kstack = NextPage(mem)]
                    /\ l' = [l EXCEPT ![p] = [@ EXCEPT !.op = "copy", !.pg = s.pg, !.child = q]]

\* ... copyuvm(), a page at a time with its flags; without memory for all of
\* them the child is given up ...
copyflags_user(pte) == TRUE
copyflags(pte) == pte.u
copyuvm(p) ==
    /\ At(p, "copy") /\ l[p].a < proc[p].sz
    /\ LET me  == l[p]
           pte == proc[p].pg.pte[me.a \div PGSIZE]
           r   == newpage(mem, me.pg, me.a \div PGSIZE, mem.data[pte.pa], copyflags(pte))
       IN  IF pte = NoPte THEN Step([mem EXCEPT !.panicked = TRUE], p, proc[p], me)
           ELSE IF r.ok THEN Step(r.k, p, proc[p], [me EXCEPT !.pg = r.pg, !.a = @ + PGSIZE])
           ELSE /\ mem' = kfree(freevm(r.k, r.pg), Once(proc[me.child].kstack))
                /\ proc' = [proc EXCEPT ![me.child] = NoProc]
                /\ l' = [l EXCEPT ![p] = Fails]

\* ... and the child runs.
fork_done(p) ==
    /\ At(p, "copy") /\ l[p].a >= proc[p].sz
    /\ proc' = [proc EXCEPT ![l[p].child] = [@ EXCEPT !.state = "LIVE", !.pg = l[p].pg, !.sz = proc[p].sz]]
    /\ l' = [l EXCEPT ![p] = Succeeds, ![l[p].child] = Succeeds]
    /\ UNCHANGED mem

\* exit() keeps the memory; wait() frees it.
exit(p) ==
    /\ At(p, "user") /\ p # initproc
    /\ Step(mem, p, [proc[p] EXCEPT !.state = "ZOMBIE"], User)
wait(p, q) ==
    /\ Runs(p) /\ proc[q].state = "ZOMBIE"
    /\ mem' = kfree(freevm(mem, proc[q].pg), Once(proc[q].kstack))
    /\ proc' = [proc EXCEPT ![q] = NoProc]
    /\ UNCHANGED l

Called == calls < MaxCalls /\ calls' = calls + 1

Next ==
    \E p \in Procs :
        \/ Called /\ \E n \in Amounts[p] : growproc(p, n)
        \/ Called /\ \E prog \in Programs[p] : exec(p, prog)
        \/ Called /\ fork(p)
        \/ UNCHANGED calls /\ \E v \in Writable : write(p, v)
        \/ UNCHANGED calls /\ allocuvm(p)
        \/ UNCHANGED calls /\ growproc_done(p)
        \/ UNCHANGED calls /\ exec_load(p)
        \/ UNCHANGED calls /\ exec_commit(p)
        \/ UNCHANGED calls /\ copyuvm(p)
        \/ UNCHANGED calls /\ fork_done(p)
        \/ UNCHANGED calls /\ exit(p)
        \/ UNCHANGED calls /\ \E q \in Procs : wait(p, q)

Spec == Init /\ [][Next]_vars

-----------------------------------------------------------------------------

\* How often a page is in a page table: as the directory, as one of the page
\* tables, or mapped.
In(pg, a) ==
    Cardinality({t \in Tabs : pg.tab[t] = a}) + Cardinality({v \in Vpages : pg.pte[v].pa = a})
    + Once(pg.dir)[a]

\* Every page is on the free list once or is used once: nothing is leaked,
\* freed twice or shared, whoever runs out of memory wherever in fork(), sbrk()
\* or exec(), while the others go on.
PagesOwned ==
    \A a \in Pages :
        mem.free[a] + MapThenSumSet(LAMBDA p : In(proc[p].pg, a) + In(l[p].pg, a) + Once(proc[p].kstack)[a], Procs) = 1

\* What a process has below sz is mapped, and it has nothing above: fork(),
\* which panics on a hole, and the next sbrk(), which panics on a page that is
\* there, rely on it after any sequence of calls.
Mapped ==
    /\ ~mem.panicked
    /\ \A p \in Procs : Runs(p) =>
        \A v \in Vpages : (proc[p].pg.pte[v] # NoPte) <=> (v * PGSIZE < proc[p].sz)

\* The memory that a process sees.
Space(p) ==
    [v \in Vpages |->
        LET pte == proc[p].pg.pte[v]
        IN  IF pte = NoPte \/ v * PGSIZE >= proc[p].sz THEN "none"
            ELSE IF ~pte.u THEN "guard" ELSE mem.data[pte.pa]]

\* What a program that loads and whose arguments fit starts with.
ImageOf(prog) ==
    LET top == PGROUNDUP(Max({ph.vaddr + ph.memsz : ph \in ToSet(prog.segs)})) \div PGSIZE
    IN  [v \in Vpages |->
            CASE v < top -> IF \E ph \in ToSet(prog.segs) : v \in PagesIn(ph.vaddr, ph.vaddr + ph.filesz)
                            THEN "prog" ELSE "zero"
              [] v = top -> "guard"
              [] v = top + 1 -> "args"
              [] OTHER -> "none"]

\* Every process has a memory of its own, which nobody else's steps change: a
\* child starts with a copy of its parent's, guard page included, and new memory
\* is zero.  A call that fails, at whichever page, has changed nothing, and one
\* that succeeds has done all of its work; the exception is the sbrk() that gives
\* everything back, which growproc() reports as a failure.
A == INSTANCE Spaces WITH
    Images <- {ImageOf(prog) : prog \in {x \in UNION Range(Programs) : x.elf}},
    space <- [p \in Procs |-> IF proc[p].state = "LIVE" THEN Space(p) ELSE [v \in {} |-> "none"]],
    ret <- [p \in Procs |-> l[p].ret]
PrivateMemory == A!Spec
=============================================================================
