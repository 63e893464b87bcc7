-------------------------------- MODULE Proc --------------------------------
(***************************************************************************)
(* The process table of proc.c: process creation, exit, wait, kill, sleep  *)
(* and wakeup, and the priority scheduler that every CPU runs.             *)
(*                                                                         *)
(* A critical section under ptable.lock is one step.  The lock itself is   *)
(* modelled because it is handed over: sched() switches to the CPU's       *)
(* scheduler with ptable.lock held, and scheduler() switches to a process  *)
(* that must release it.  Whatever the code does without the lock (the     *)
(* failure paths of allocproc and fork, the test of killed in trap and in  *)
(* sys_sleep, the priority reset of exec) is a step of its own.            *)
(***************************************************************************)
EXTENDS Integers

CONSTANTS
    NPROC,      \* size of the process table
    Cpus,       \* the CPUs
    NoCpu,      \* ptable.lock is not held
    Calls,      \* what programs do: system calls they make, "fault"
    Prios,      \* the priorities that nice() is called with
    MaxPid      \* bound on nextpid

ASSUME ProcAssumption ==
    /\ NPROC \in Nat \ {0}
    /\ NoCpu \notin Cpus
    /\ Prios \subseteq Int
    /\ MaxPid \in Nat \ {0}

Procs == 1..NPROC
NULL == 0
initproc == 1
ticksChan == NPROC + 1          \* the address of ticks; a proc is its own channel
Chans == Procs \cup {NULL, ticksChan}

VARIABLES
    \* struct proc, one function per field
    state, pid, parent, chan, killed, priority, kstack,
    nextpid,
    lock,       \* the CPU that holds ptable.lock
    cproc,      \* c->proc; NULL while the CPU runs scheduler()
    scan,       \* the locals of scheduler(), with p = 0 outside its loop
    pc,         \* where the process's kernel thread is
    back,       \* the call to sched() it returns from when it is switched to
    np          \* the local np of fork()

vars == <<state, pid, parent, chan, killed, priority, kstack, nextpid, lock,
          cproc, scan, pc, back, np>>

States == {"UNUSED", "EMBRYO", "SLEEPING", "RUNNABLE", "RUNNING", "ZOMBIE"}

\* Entry points of the system calls, and the places in between.  "sleep_go" is
\* between the test of killed in sys_sleep and its call of sleep(): tickslock
\* is held there.  "panic" is the loop at the end of panic().
Syscalls == {"fork", "exit", "wait", "sleep", "kill", "nice", "exec"}
PCs == Syscalls \cup {"user", "kstack", "copyuvm", "setrun", "sleep_go", "ret", "panic"}

\* The locals of scheduler(): where the loop over the table goes on, the best
\* process that the inner loop has found, and the slot it looks at next.
Outside == [p |-> 0, highP |-> NULL, p1 |-> 0]

userinit ==
    /\ state = [p \in Procs |-> IF p = initproc THEN "RUNNABLE" ELSE "UNUSED"]
    /\ pid = [p \in Procs |-> IF p = initproc THEN 1 ELSE 0]
    /\ parent = [p \in Procs |-> NULL]
    /\ chan = [p \in Procs |-> NULL]
    /\ killed = [p \in Procs |-> FALSE]
    /\ priority = [p \in Procs |-> 0]
    /\ kstack = [p \in Procs |-> p = initproc]
    /\ nextpid = 2
    /\ lock = NoCpu
    /\ cproc = [c \in Cpus |-> NULL]
    /\ scan = [c \in Cpus |-> Outside]
    /\ pc = [p \in Procs |-> "user"]
    /\ back = [p \in Procs |-> "forkret"]
    /\ np = [p \in Procs |-> NULL]

Runnable_untested == {p \in Procs : state[p] \in {"RUNNABLE", "RUNNING"}}
Runnable == {p \in Procs : state[p] = "RUNNABLE"}

(***************************************************************************)
(* scheduler()                                                             *)
(***************************************************************************)
\* p = highP, and p++ when the process comes back.
NextSlot_restart(q) == 1
NextSlot(q) == q + 1

OuterLoop(slot) == [Outside EXCEPT !.p = slot]

sched_acquire(c) ==
    /\ cproc[c] = NULL
    /\ scan[c].p = 0
    /\ lock = NoCpu
    /\ lock' = c
    /\ scan' = [scan EXCEPT ![c] = OuterLoop(1)]
    /\ UNCHANGED <<state, pid, parent, chan, killed, priority, kstack, nextpid,
                   cproc, pc, back, np>>

\* The outer loop reaches the next RUNNABLE process: highP = p.
sched_found(c) ==
    /\ cproc[c] = NULL
    /\ lock = c
    /\ scan[c].highP = NULL
    /\ \E q \in Runnable :
        /\ q >= scan[c].p
        /\ \A r \in Runnable : r >= scan[c].p => q <= r
        /\ scan' = [scan EXCEPT ![c] = [p |-> q, highP |-> q, p1 |-> 1]]
    /\ UNCHANGED <<state, pid, parent, chan, killed, priority, kstack, nextpid,
                   lock, cproc, pc, back, np>>

\* One round of the inner loop: if(highP->priority > p1->priority) highP = p1.
sched_compare(c) ==
    /\ scan[c].highP # NULL
    /\ scan[c].p1 <= NPROC
    /\ LET high == scan[c].highP
           p1   == scan[c].p1
           best == IF p1 \in Runnable /\ priority[high] > priority[p1] THEN p1 ELSE high
       IN  scan' = [scan EXCEPT ![c] = [p |-> scan[c].p, highP |-> best, p1 |-> p1 + 1]]
    /\ UNCHANGED <<state, pid, parent, chan, killed, priority, kstack, nextpid,
                   lock, cproc, pc, back, np>>

\* p = highP, and the switch to it.
sched_swtch(c) ==
    /\ scan[c].highP # NULL
    /\ scan[c].p1 > NPROC
    /\ cproc' = [cproc EXCEPT ![c] = scan[c].highP]
    /\ state' = [state EXCEPT ![scan[c].highP] = "RUNNING"]
    /\ scan' = [scan EXCEPT ![c] = OuterLoop(NextSlot(scan[c].highP))]
    /\ UNCHANGED <<pid, parent, chan, killed, priority, kstack, nextpid, lock,
                   pc, back, np>>

sched_release(c) ==
    /\ cproc[c] = NULL
    /\ lock = c
    /\ scan[c].highP = NULL
    /\ \A q \in Runnable : q < scan[c].p
    /\ lock' = NoCpu
    /\ scan' = [scan EXCEPT ![c] = Outside]
    /\ UNCHANGED <<state, pid, parent, chan, killed, priority, kstack, nextpid,
                   cproc, pc, back, np>>

(***************************************************************************)
(* What a process does on the CPU that runs it                             *)
(***************************************************************************)
\* CPU c executes process p, which is not about to return from sched().
Runs(c, p) == cproc[c] = p /\ back[p] = "none"

\* sched(): back to the scheduler of c, with ptable.lock held.
sched(c, p, why) ==
    /\ cproc' = [cproc EXCEPT ![c] = NULL]
    /\ back' = [back EXCEPT ![p] = why]
    /\ lock' = c

\* wakeup1(): what it makes of the states when it is called for channels chs.
wakeup1(st, chs) ==
    [p \in Procs |-> IF st[p] = "SLEEPING" /\ chan[p] \in chs THEN "RUNNABLE" ELSE st[p]]

goto(p, l) == pc' = [pc EXCEPT ![p] = l]

\* trap() for a system call: the first test of killed, then the call.
trap_entry(c, p) ==
    /\ Runs(c, p)
    /\ pc[p] = "user"
    /\ IF killed[p] THEN goto(p, "exit") ELSE \E call \in Calls \cap Syscalls : goto(p, call)
    /\ UNCHANGED <<state, pid, parent, chan, killed, priority, kstack, nextpid,
                   lock, cproc, scan, back, np>>

\* trap() for a system call: the test of killed after it.
trap_return(c, p) ==
    /\ Runs(c, p)
    /\ pc[p] = "ret"
    /\ goto(p, IF killed[p] THEN "exit" ELSE "user")
    /\ UNCHANGED <<state, pid, parent, chan, killed, priority, kstack, nextpid,
                   lock, cproc, scan, back, np>>

\* trap() for a fault in user space.
trap_fault(c, p) ==
    /\ "fault" \in Calls
    /\ Runs(c, p)
    /\ pc[p] = "user"
    /\ killed' = [killed EXCEPT ![p] = TRUE]
    /\ goto(p, "exit")
    /\ UNCHANGED <<state, pid, parent, chan, priority, kstack, nextpid, lock,
                   cproc, scan, back, np>>

\* tickslock is held by whoever is between its test and its call of sleep().
TicksLockFree == \A q \in Procs : pc[q] # "sleep_go"

\* trap() for the timer on CPU 0, in user or in kernel code.
timer_tick ==
    /\ TicksLockFree
    /\ lock = NoCpu
    /\ state' = wakeup1(state, {ticksChan})
    /\ UNCHANGED <<pid, parent, chan, killed, priority, kstack, nextpid, lock,
                   cproc, scan, pc, back, np>>

\* trap() for the timer: yield().  A process that was killed and is in user
\* space exits instead.
yield(c, p) ==
    /\ Runs(c, p)
    /\ pc[p] \notin {"sleep_go", "panic"}
    /\ ~(pc[p] = "user" /\ killed[p])
    /\ lock = NoCpu
    /\ state' = [state EXCEPT ![p] = "RUNNABLE"]
    /\ sched(c, p, "yield")
    /\ UNCHANGED <<pid, parent, chan, killed, priority, kstack, nextpid, scan,
                   pc, np>>

\* What follows sched() in yield() and sleep(), and forkret(): release
\* ptable.lock.  In user space trap() then tests killed once more.
resume(c, p) ==
    /\ cproc[c] = p
    /\ lock = c
    /\ back[p] # "none"
    /\ pc[p] # "wait" \/ back[p] # "sleep"
    /\ back' = [back EXCEPT ![p] = "none"]
    /\ chan' = [chan EXCEPT ![p] = IF back[p] = "sleep" THEN NULL ELSE @]
    /\ lock' = NoCpu
    /\ goto(p, IF back[p] = "yield" /\ pc[p] = "user" /\ killed[p] THEN "exit" ELSE pc[p])
    /\ UNCHANGED <<state, pid, parent, killed, priority, kstack, nextpid, cproc,
                   scan, np>>

(***************************************************************************)
(* fork() and allocproc().  Past MaxPid fork() fails as it does when the   *)
(* table is full.                                                          *)
(***************************************************************************)
\* p->pid = nextpid++
newpid_narrow == ((nextpid - 1) % 2) + 1
newpid == nextpid

allocproc(c, p) ==
    /\ Runs(c, p)
    /\ pc[p] = "fork"
    /\ lock = NoCpu
    /\ \/ /\ (\A q \in Procs : state[q] # "UNUSED") \/ nextpid > MaxPid
          /\ goto(p, "ret")
          /\ UNCHANGED <<state, pid, priority, nextpid, np>>
       \/ \E q \in Procs :
            /\ state[q] = "UNUSED"
            /\ \A r \in Procs : r < q => state[r] # "UNUSED"
            /\ nextpid <= MaxPid
            /\ state' = [state EXCEPT ![q] = "EMBRYO"]
            /\ pid' = [pid EXCEPT ![q] = newpid]
            /\ nextpid' = nextpid + 1
            /\ priority' = [priority EXCEPT ![q] = 0]
            /\ np' = [np EXCEPT ![p] = q]
            /\ goto(p, "kstack")
    /\ UNCHANGED <<parent, chan, killed, kstack, lock, cproc, scan, back>>

\* kalloc() of the kernel stack, and its failure, without ptable.lock.
alloc_kstack(c, p) ==
    /\ Runs(c, p)
    /\ pc[p] = "kstack"
    /\ \/ /\ kstack' = [kstack EXCEPT ![np[p]] = TRUE]
          /\ back' = [back EXCEPT ![np[p]] = "forkret"]
          /\ goto(p, "copyuvm")
          /\ UNCHANGED <<state, np>>
       \/ /\ state' = [state EXCEPT ![np[p]] = "UNUSED"]
          /\ goto(p, "ret")
          /\ np' = [np EXCEPT ![p] = NULL]
          /\ UNCHANGED <<kstack, back>>
    /\ UNCHANGED <<pid, parent, chan, killed, priority, nextpid, lock, cproc, scan>>

\* copyuvm(), its failure, and the copying that follows, without ptable.lock.
fork_copy(c, p) ==
    /\ Runs(c, p)
    /\ pc[p] = "copyuvm"
    /\ \/ /\ parent' = [parent EXCEPT ![np[p]] = p]
          /\ pc' = [pc EXCEPT ![p] = "setrun", ![np[p]] = "user"]
          /\ UNCHANGED <<state, kstack, np>>
       \/ /\ kstack' = [kstack EXCEPT ![np[p]] = FALSE]
          /\ state' = [state EXCEPT ![np[p]] = "UNUSED"]
          /\ goto(p, "ret")
          /\ np' = [np EXCEPT ![p] = NULL]
          /\ UNCHANGED parent
    /\ UNCHANGED <<pid, chan, killed, priority, nextpid, lock, cproc, scan, back>>

fork_run(c, p) ==
    /\ Runs(c, p)
    /\ pc[p] = "setrun"
    /\ lock = NoCpu
    /\ state' = [state EXCEPT ![np[p]] = "RUNNABLE"]
    /\ priority' = [priority EXCEPT ![np[p]] = 0]
    /\ goto(p, "ret")
    /\ np' = [np EXCEPT ![p] = NULL]
    /\ UNCHANGED <<pid, parent, chan, killed, kstack, nextpid, lock, cproc, scan, back>>

(***************************************************************************)
(* exit() and wait()                                                       *)
(***************************************************************************)
Children(p) == {q \in Procs : parent[q] = p}

ZombieChildren_any(p) == Children(p)
ZombieChildren(p) == {q \in Children(p) : state[q] = "ZOMBIE"}

\* The channels exit() calls wakeup1() for: its parent, and init if it is given
\* a child that has exited.
exit_wakes_noparent(p) == IF ZombieChildren(p) # {} THEN {initproc} ELSE {}
exit_wakes(p) == {parent[p]} \cup IF ZombieChildren(p) # {} THEN {initproc} ELSE {}

\* Pass abandoned children to init.
reparent_zombies(p) == [q \in Procs |-> IF q \in ZombieChildren(p) THEN initproc ELSE parent[q]]
reparent(p) == [q \in Procs |-> IF q \in Children(p) THEN initproc ELSE parent[q]]

exit(c, p) ==
    /\ Runs(c, p)
    /\ pc[p] = "exit"
    /\ p # initproc
    /\ lock = NoCpu
    /\ state' = [wakeup1(state, exit_wakes(p)) EXCEPT ![p] = "ZOMBIE"]
    /\ parent' = reparent(p)
    /\ sched(c, p, "exit")
    /\ UNCHANGED <<pid, chan, killed, priority, kstack, nextpid, scan, pc, np>>

\* exit() of initproc: panic("init exiting").
exit_init(c) ==
    /\ Runs(c, initproc)
    /\ pc[initproc] = "exit"
    /\ goto(initproc, "panic")
    /\ UNCHANGED <<state, pid, parent, chan, killed, priority, kstack, nextpid,
                   lock, cproc, scan, back, np>>

\* The loop at the end of panic().
panic_loop ==
    /\ pc[initproc] = "panic"
    /\ UNCHANGED vars

\* One round of the loop of wait(), from the acquire() or from the return of
\* sleep(), either of which leaves ptable.lock held.
WaitScans(c, p) ==
    /\ pc[p] = "wait"
    /\ \/ Runs(c, p) /\ lock = NoCpu
       \/ cproc[c] = p /\ back[p] = "sleep" /\ lock = c

wait_reap(c, p) ==
    /\ WaitScans(c, p)
    /\ \E q \in ZombieChildren(p) :
        /\ \A r \in ZombieChildren(p) : q <= r
        /\ kstack' = [kstack EXCEPT ![q] = FALSE]
        /\ pid' = [pid EXCEPT ![q] = 0]
        /\ parent' = [parent EXCEPT ![q] = NULL]
        /\ killed' = [killed EXCEPT ![q] = FALSE]
        /\ state' = [state EXCEPT ![q] = "UNUSED"]
    /\ chan' = [chan EXCEPT ![p] = NULL]
    /\ back' = [back EXCEPT ![p] = "none"]
    /\ lock' = NoCpu
    /\ goto(p, "ret")
    /\ UNCHANGED <<priority, nextpid, cproc, scan, np>>

wait_fail(c, p) ==
    /\ WaitScans(c, p)
    /\ ZombieChildren(p) = {}
    /\ Children(p) = {} \/ killed[p]
    /\ chan' = [chan EXCEPT ![p] = NULL]
    /\ back' = [back EXCEPT ![p] = "none"]
    /\ lock' = NoCpu
    /\ goto(p, "ret")
    /\ UNCHANGED <<state, pid, parent, killed, priority, kstack, nextpid, cproc, scan, np>>

\* sleep(curproc, &ptable.lock)
wait_sleep(c, p) ==
    /\ WaitScans(c, p)
    /\ ZombieChildren(p) = {}
    /\ Children(p) # {} /\ ~killed[p]
    /\ chan' = [chan EXCEPT ![p] = p]
    /\ state' = [state EXCEPT ![p] = "SLEEPING"]
    /\ sched(c, p, "sleep")
    /\ UNCHANGED <<pid, parent, killed, priority, kstack, nextpid, scan, pc, np>>

(***************************************************************************)
(* sys_sleep(): the number of ticks is left open                           *)
(***************************************************************************)
\* The test of the loop and of killed, under tickslock but not ptable.lock.
sys_sleep(c, p) ==
    /\ Runs(c, p)
    /\ pc[p] = "sleep"
    /\ TicksLockFree
    /\ \/ goto(p, "ret")
       \/ ~killed[p] /\ goto(p, "sleep_go")
    /\ UNCHANGED <<state, pid, parent, chan, killed, priority, kstack, nextpid,
                   lock, cproc, scan, back, np>>

\* sleep(&ticks, &tickslock)
sleep_ticks(c, p) ==
    /\ Runs(c, p)
    /\ pc[p] = "sleep_go"
    /\ lock = NoCpu
    /\ chan' = [chan EXCEPT ![p] = ticksChan]
    /\ state' = [state EXCEPT ![p] = "SLEEPING"]
    /\ sched(c, p, "sleep")
    /\ goto(p, "sleep")
    /\ UNCHANGED <<pid, parent, killed, priority, kstack, nextpid, scan, np>>

(***************************************************************************)
(* kill(), nice() and the priority reset of exec()                         *)
(***************************************************************************)
\* The slot a loop that stops at the first p->pid == n stops at, if any.
FindPid(n) == {q \in Procs : pid[q] = n /\ \A r \in Procs : r < q => pid[r] # n}

\* Wake process from sleep if necessary.
kill_wakes_none(q) == FALSE
kill_wakes(q) == state[q] = "SLEEPING"

kill(c, p) ==
    /\ Runs(c, p)
    /\ pc[p] = "kill"
    /\ lock = NoCpu
    /\ \E n \in 0..MaxPid :
        /\ killed' = [q \in Procs |-> killed[q] \/ q \in FindPid(n)]
        /\ state' = [q \in Procs |-> IF q \in FindPid(n) /\ kill_wakes(q)
                                     THEN "RUNNABLE" ELSE state[q]]
    /\ goto(p, "ret")
    /\ UNCHANGED <<pid, parent, chan, priority, kstack, nextpid, lock, cproc, scan, back, np>>

nice_unlocked(c, p) ==
    /\ Runs(c, p)
    /\ pc[p] = "nice"
    /\ \E n \in 0..MaxPid, prio \in Prios :
        priority' = [q \in Procs |-> IF q \in FindPid(n) THEN prio ELSE priority[q]]
    /\ goto(p, "ret")
    /\ UNCHANGED <<state, pid, parent, chan, killed, kstack, nextpid, lock, cproc, scan, back, np>>

nice(c, p) ==
    /\ Runs(c, p)
    /\ pc[p] = "nice"
    /\ lock = NoCpu
    /\ \E n \in 0..MaxPid, prio \in Prios :
        priority' = [q \in Procs |-> IF q \in FindPid(n) THEN prio ELSE priority[q]]
    /\ goto(p, "ret")
    /\ UNCHANGED <<state, pid, parent, chan, killed, kstack, nextpid, lock, cproc, scan, back, np>>

\* exec() resets the priority when it succeeds; its memory image is not modelled.
exec(c, p) ==
    /\ Runs(c, p)
    /\ pc[p] = "exec"
    /\ \/ priority' = [priority EXCEPT ![p] = 0]
       \/ UNCHANGED priority
    /\ goto(p, "ret")
    /\ UNCHANGED <<state, pid, parent, chan, killed, kstack, nextpid, lock, cproc, scan, back, np>>

(***************************************************************************)
(* The specification                                                       *)
(***************************************************************************)
Init == userinit

scheduler(c) ==
    \/ sched_acquire(c) \/ sched_found(c) \/ sched_compare(c) \/ sched_swtch(c) \/ sched_release(c)

trap(c, p) ==
    \/ trap_entry(c, p) \/ trap_return(c, p) \/ trap_fault(c, p) \/ yield(c, p)

fork(c, p) == allocproc(c, p) \/ alloc_kstack(c, p) \/ fork_copy(c, p) \/ fork_run(c, p)

wait(c, p) == wait_reap(c, p) \/ wait_fail(c, p) \/ wait_sleep(c, p)

syscall(c, p) ==
    \/ fork(c, p) \/ exit(c, p) \/ wait(c, p)
    \/ sys_sleep(c, p) \/ sleep_ticks(c, p) \/ kill(c, p) \/ nice(c, p) \/ exec(c, p)

Next ==
    \/ timer_tick
    \/ panic_loop
    \/ \E c \in Cpus : scheduler(c) \/ exit_init(c)
    \/ \E c \in Cpus, p \in Procs : trap(c, p) \/ resume(c, p) \/ syscall(c, p)

Spec == Init /\ [][Next]_vars

\* A CPU never stops: it runs scheduler(), lets the process it switched to go
\* on, and takes the timer interrupt that ends the process's turn (or ends the
\* process, if it was killed in user space).
turn(c) ==
    \/ scheduler(c)
    \/ \E p \in Procs :
        \/ resume(c, p) \/ (back[p] = "sleep" /\ wait(c, p)) \/ sleep_ticks(c, p)
        \/ yield(c, p) \/ (killed[p] /\ trap_entry(c, p))

TurnFairness == \A c \in Cpus : WF_vars(turn(c))

\* A process in the kernel that gets turn after turn makes progress, because a
\* tick is longer than a step; nothing obliges one in user space to make a
\* system call.  A pending timer interrupt is taken as soon as interrupts are
\* on.  sys_sleep() waits for a finite number of ticks, and init keeps calling
\* wait(), as init.c does.
progress(p) == \E c \in Cpus : trap_return(c, p) \/ syscall(c, p) \/ (p = initproc /\ exit_init(c))

Fairness ==
    /\ TurnFairness
    /\ SF_vars(timer_tick)
    /\ \A p \in Procs : SF_vars(progress(p))
    /\ \A p \in Procs : SF_vars(\E c \in Cpus : sys_sleep(c, p) /\ pc'[p] = "ret")
    /\ SF_vars(\E c \in Cpus : trap_entry(c, initproc) /\ pc'[initproc] = "wait")

LiveSpec == Spec /\ Fairness

(***************************************************************************)
(* Properties                                                              *)
(***************************************************************************)
\* The fields of struct proc and the scheduler's state have their types.
TypeOK ==
    /\ state \in [Procs -> States]
    /\ pid \in [Procs -> 0..MaxPid]
    /\ parent \in [Procs -> Procs \cup {NULL}]
    /\ chan \in [Procs -> Chans]
    /\ killed \in [Procs -> BOOLEAN]
    /\ priority \in [Procs -> Prios \cup {0}]
    /\ kstack \in [Procs -> BOOLEAN]
    /\ nextpid \in 2..MaxPid + 1
    /\ lock \in Cpus \cup {NoCpu}
    /\ cproc \in [Cpus -> Procs \cup {NULL}]
    /\ scan \in [Cpus -> [p : 0..NPROC + 1, highP : Procs \cup {NULL}, p1 : 0..NPROC + 1]]
    /\ pc \in [Procs -> PCs]
    /\ back \in [Procs -> {"none", "yield", "sleep", "forkret", "exit"}]
    /\ np \in [Procs -> Procs \cup {NULL}]

\* scheduler() and sched() never put one process on two CPUs, and a process is
\* RUNNING exactly while some CPU executes it on its kernel stack.
OneCpuEach ==
    /\ \A c, d \in Cpus : c # d /\ cproc[c] # NULL => cproc[c] # cproc[d]
    /\ \A p \in Procs : state[p] = "RUNNING" <=> \E c \in Cpus : cproc[c] = p

\* The kernel stack that a CPU executes on, or that a process is to be resumed
\* on, has not been given back to kfree() by wait() or by a fork() that failed;
\* and a slot that allocproc() may hand out owns none, so none leaks.
StackOwned ==
    /\ \A c \in Cpus : cproc[c] # NULL => kstack[cproc[c]]
    /\ \A p \in Procs : state[p] \in {"SLEEPING", "RUNNABLE", "RUNNING", "ZOMBIE"} => kstack[p]
    /\ \A p \in Procs : state[p] = "UNUSED" => ~kstack[p]

\* No wakeup of wait() is lost: a process asleep in wait() has a child left to
\* wait for, none that exited already, and was not killed.
NoLostWait ==
    \A p \in Procs : state[p] = "SLEEPING" /\ chan[p] = p =>
        /\ Children(p) # {}
        /\ ZombieChildren(p) = {}
        /\ ~killed[p]

\* exit() hands its children to init: whoever has started has a parent that can
\* still call wait() for it.
NoOrphan ==
    \A p \in Procs \ {initproc} : state[p] \in {"SLEEPING", "RUNNABLE", "RUNNING", "ZOMBIE"} =>
        /\ parent[p] # NULL
        /\ state[parent[p]] \in {"SLEEPING", "RUNNABLE", "RUNNING"}

\* Two slots in use never have the same pid, so kill() and nice() find the
\* process they are meant for if it exists.
PidsUnique ==
    \A p, q \in Procs : p # q /\ state[p] # "UNUSED" /\ pid[p] = pid[q] => pid[p] = 0

\* The states in which a process can still call wait().
Started == {"SLEEPING", "RUNNABLE", "RUNNING"}

\* A CPU holds ptable.lock from the acquire() of scheduler() to its release(),
\* except while a process that has returned from sched() runs on it.
LockHandover ==
    \A c \in Cpus :
        /\ cproc[c] # NULL => scan[c].p # 0
        /\ lock = c <=> IF cproc[c] = NULL THEN scan[c].p # 0 ELSE back[cproc[c]] # "none"

\* What is not on a CPU will return from a call of sched().
OffCpu ==
    \A p \in Procs :
        /\ state[p] = "RUNNABLE" => back[p] \in {"yield", "sleep", "forkret"}
        /\ state[p] = "SLEEPING" => back[p] = "sleep"

\* fork() owns the slot it is filling until it makes it RUNNABLE.
Owns(p) ==
    /\ np[p] # NULL <=> pc[p] \in {"kstack", "copyuvm", "setrun"}
    /\ np[p] # NULL =>
        /\ state[p] \in {"RUNNING", "RUNNABLE"}
        /\ state[np[p]] = "EMBRYO"
        /\ kstack[np[p]] <=> pc[p] # "kstack"
        /\ pc[p] # "kstack" => back[np[p]] = "forkret"
        /\ parent[np[p]] = IF pc[p] = "setrun" THEN p ELSE NULL
        /\ \A q \in Procs : q # p => np[q] # np[p]

ForkOwns == \A p \in Procs : Owns(p)

\* A parent is another process that can still call wait(), only slots in use
\* have one, and init has none.
ParentAlive ==
    /\ state[initproc] \in Started /\ parent[initproc] = NULL
    /\ \A p \in Procs : parent[p] # NULL =>
        parent[p] # p /\ state[parent[p]] \in Started /\ state[p] # "UNUSED"

\* allocproc() gives out each pid once.
PidsFresh ==
    /\ \A p \in Procs : pid[p] < nextpid
    /\ \A p, q \in Procs : p # q /\ pid[p] = pid[q] => pid[p] = 0

\* Between acquire() and swtch() the table of scheduler() does not change under
\* it: highP is still RUNNABLE, and none of the slots that the inner loop has
\* passed has become better.  exec() resets a priority and fork() gives up a
\* slot without ptable.lock, but never of a RUNNABLE process.
Scanned ==
    \A c \in Cpus : scan[c].highP # NULL =>
        /\ cproc[c] = NULL
        /\ lock = c
        /\ scan[c].highP \in Runnable
        /\ \A r \in Runnable : r < scan[c].p1 => priority[scan[c].highP] <= priority[r]

\* The part of the inductive invariant that the table needs: the properties
\* above, with the hand-over of ptable.lock through swtch() and fork()'s claim
\* on the slot it fills.
TableInv ==
    /\ TypeOK /\ OneCpuEach /\ LockHandover /\ OffCpu /\ ForkOwns /\ StackOwned
    /\ ParentAlive /\ NoOrphan /\ NoLostWait /\ PidsFresh

\* The inductive invariant: the table's, and what scheduler() has found so far.
IInv == TableInv /\ Scanned

\* The process scheduler() switches to has the smallest priority number of all
\* that are RUNNABLE then, wherever its loop over the table had got to, although
\* the inner loop compared the slots one by one while the other CPUs went on.
PriorityOrder ==
    [][\A c \in Cpus : cproc[c] = NULL /\ cproc'[c] # NULL =>
        \A r \in Runnable : priority[cproc'[c]] <= priority[r]]_vars

\* exit() by initproc has stopped the machine.
Panicked == pc[initproc] = "panic"

\* Round robin with equal priorities: if from some time on those that are
\* RUNNABLE all have one priority, each of them gets its turn, because p = highP
\* leaves the loop of scheduler() where it is and yield() gives up the CPU for
\* one scheduling round.  (With two priorities p = highP can starve a process
\* for ever.)
EqualPriorities == \A p, q \in Runnable : priority[p] = priority[q]
RoundRobin ==
    <>[]EqualPriorities =>
        \A p \in Procs : state[p] = "RUNNABLE" ~> state[p] # "RUNNABLE" \/ Panicked

\* A process that kill() marked exits, wherever it was: in user space, asleep
\* in wait() or sleep(), half way through fork().
KilledExits ==
    \A p \in Procs :
        killed[p] /\ state[p] \in {"SLEEPING", "RUNNABLE", "RUNNING"} ~>
            state[p] = "ZOMBIE" \/ Panicked

\* Whatever exits is reaped in the end once init is its parent, for instance
\* because its own parent exited without calling wait().
OrphansReaped ==
    \A p \in Procs : state[p] = "ZOMBIE" /\ parent[p] = initproc ~>
        state[p] = "UNUSED" \/ Panicked
=============================================================================
