----------------------------- MODULE ProcSteps ------------------------------
(***************************************************************************)
(* Steps of scheduler(), of traps and of most calls keep TableInv, the     *)
(* part of the inductive invariant of Proc that is about the process       *)
(* table: one lemma per action, and under it one step per conjunct (or     *)
(* group of conjuncts) that the action could disturb.                      *)
(***************************************************************************)
EXTENDS Proc, TLAPS

(***************************************************************************)
(* Facts that several steps need                                           *)
(***************************************************************************)
\* The places at which fork() has a slot that is not yet RUNNABLE.
ForkPCs == {"kstack", "copyuvm", "setrun"}

\* A process on a CPU is RUNNING on a stack of its own, and on no other CPU.
LEMMA OnCpu ==
    ASSUME TableInv, NEW c \in Cpus, NEW p \in Procs, cproc[c] = p
    PROVE  /\ state[p] = "RUNNING"
           /\ kstack[p]
           /\ \A d \in Cpus : d # c => cproc[d] # p
BY DEF TableInv, OneCpuEach, StackOwned, Procs, NULL

\* What fork() may rely on for the slot it got from allocproc(), though it
\* fills it without ptable.lock: no CPU runs it, nobody is its child, and no
\* other fork() has it.
LEMMA EmbryoFacts ==
    ASSUME TableInv, NEW p \in Procs, pc[p] \in ForkPCs, NEW q, q = np[p]
    PROVE  /\ q \in Procs
           /\ state[q] = "EMBRYO"
           /\ q # p /\ q # initproc
           /\ state[p] \in {"RUNNING", "RUNNABLE"}
           /\ (kstack[q] <=> pc[p] # "kstack")
           /\ pc[p] # "kstack" => back[q] = "forkret"
           /\ parent[q] = IF pc[p] = "setrun" THEN p ELSE NULL
           /\ \A c \in Cpus : cproc[c] # q
           /\ np[q] = NULL
           /\ \A r \in Procs : parent[r] # q
           /\ \A r \in Procs : r # p => np[r] # q
<1>1. /\ q \in Procs
      /\ state[q] = "EMBRYO"
      /\ state[p] \in {"RUNNING", "RUNNABLE"}
      /\ (kstack[q] <=> pc[p] # "kstack")
      /\ pc[p] # "kstack" => back[q] = "forkret"
      /\ parent[q] = IF pc[p] = "setrun" THEN p ELSE NULL
      /\ \A r \in Procs : r # p => np[r] # q
    BY DEF TableInv, TypeOK, ForkOwns, Owns, ForkPCs
<1>2. q # p
    BY <1>1
<1>3. \A c \in Cpus : cproc[c] # q
    BY <1>1 DEF TableInv, OneCpuEach
<1>4. np[q] = NULL
    BY <1>1 DEF TableInv, ForkOwns, Owns
<1>5. (\A r \in Procs : parent[r] # q) /\ q # initproc
    BY <1>1 DEF TableInv, ParentAlive, Started, Procs, NULL
<1> QED BY <1>1, <1>2, <1>3, <1>4, <1>5

\* What allocproc() may rely on for a slot that it finds UNUSED.
LEMMA UnusedFacts ==
    ASSUME TableInv, NEW q \in Procs, state[q] = "UNUSED"
    PROVE  /\ q # initproc
           /\ ~kstack[q]
           /\ parent[q] = NULL
           /\ \A c \in Cpus : cproc[c] # q
           /\ np[q] = NULL
           /\ \A r \in Procs : parent[r] # q
           /\ \A r \in Procs : np[r] # q
<1>1. ~kstack[q]
    BY DEF TableInv, StackOwned
<1>2. \A c \in Cpus : cproc[c] # q
    BY DEF TableInv, OneCpuEach
<1>3. np[q] = NULL /\ \A r \in Procs : np[r] # q
    BY DEF TableInv, ForkOwns, Owns, Procs, NULL
<1>4. q # initproc /\ parent[q] = NULL /\ \A r \in Procs : parent[r] # q
    BY DEF TableInv, ParentAlive, Started, Procs, NULL
<1> QED BY <1>1, <1>2, <1>3, <1>4

\* A step keeps NoLostWait if it puts nobody to sleep in wait(), and neither
\* takes a child from, nor lets one exit under, nor kills whoever is asleep there.
LEMMA WaitFrame ==
    ASSUME NoLostWait,
           \A r \in Procs : state'[r] = "SLEEPING" /\ chan'[r] = r =>
               /\ state[r] = "SLEEPING" /\ chan[r] = r
               /\ killed'[r] = killed[r]
               /\ \A x \in Procs : parent[x] = r => parent'[x] = r
               /\ \A x \in Procs : parent'[x] = r /\ state'[x] = "ZOMBIE" =>
                    parent[x] = r /\ state[x] = "ZOMBIE"
    PROVE  NoLostWait'
<1>1. SUFFICES ASSUME NEW r \in Procs, state'[r] = "SLEEPING", chan'[r] = r
               PROVE  Children(r)' # {} /\ ZombieChildren(r)' = {} /\ ~killed'[r]
    BY DEF NoLostWait
<1>2. Children(r) # {} /\ ZombieChildren(r) = {} /\ ~killed[r]
    BY <1>1 DEF NoLostWait
<1>3. Children(r)' # {}
    BY <1>1, <1>2 DEF Children
<1>4. ZombieChildren(r)' = {}
    BY <1>1, <1>2 DEF ZombieChildren, Children
<1> QED BY <1>1, <1>2, <1>3, <1>4

\* A step keeps TableInv if all it does to the table is to wake sleepers, to mark
\* processes killed that are not left asleep, and to change priorities, and if
\* no process enters or leaves the part of fork() that owns a slot.
LEMMA QuietStep ==
    ASSUME TableInv,
           state' \in [Procs -> States],
           killed' \in [Procs -> BOOLEAN],
           priority' \in [Procs -> Prios \cup {0}],
           pc' \in [Procs -> PCs],
           \A x \in Procs :
               \/ state'[x] = state[x] /\ (state[x] = "SLEEPING" => killed'[x] = killed[x])
               \/ state[x] = "SLEEPING" /\ state'[x] = "RUNNABLE",
           \A x \in Procs : pc'[x] = pc[x] \/ (pc[x] \notin ForkPCs /\ pc'[x] \notin ForkPCs),
           UNCHANGED <<pid, parent, chan, kstack, nextpid, lock, cproc, scan, back, np>>
    PROVE  TableInv'
<1> USE ProcAssumption DEF NULL, Procs
<1>1. TypeOK'
    BY DEF TableInv, TypeOK
<1>2. OneCpuEach'
    BY SMTT(60) DEF TableInv, OneCpuEach
<1>3. LockHandover'
    BY DEF TableInv, LockHandover
<1>4. (OffCpu /\ StackOwned)'
    BY DEF TableInv, OffCpu, StackOwned
<1>5. ForkOwns'
    BY DEF TableInv, TypeOK, ForkOwns, Owns, ForkPCs
<1>6. (ParentAlive /\ NoOrphan)'
    BY SMTT(60) DEF TableInv, TypeOK, ParentAlive, NoOrphan, Started, initproc
<1>7. NoLostWait'
    BY WaitFrame DEF TableInv
<1>8. PidsFresh'
    BY DEF TableInv, PidsFresh
<1> QED BY <1>1, <1>2, <1>3, <1>4, <1>5, <1>6, <1>7, <1>8 DEF TableInv

(***************************************************************************)
(* The scheduler                                                           *)
(***************************************************************************)
\* acquire() in scheduler().
LEMMA Step_sched_acquire ==
    ASSUME TableInv, NEW c \in Cpus, sched_acquire(c)
    PROVE  TableInv'
<1> USE ProcAssumption DEF NULL, Procs
<1>1. TypeOK'
    BY SMTT(60) DEF sched_acquire, TableInv, TypeOK, OuterLoop, Outside
<1>2. LockHandover'
    BY DEF sched_acquire, TableInv, TypeOK, LockHandover, OuterLoop, Outside
<1>3. (OneCpuEach /\ OffCpu /\ ForkOwns /\ StackOwned /\ ParentAlive /\ NoOrphan)'
    BY DEF sched_acquire, TableInv, OneCpuEach, OffCpu, ForkOwns, Owns, StackOwned,
           ParentAlive, NoOrphan
<1>4. (NoLostWait /\ PidsFresh)'
    BY DEF sched_acquire, TableInv, NoLostWait, Children, ZombieChildren, PidsFresh
<1> QED BY <1>1, <1>2, <1>3, <1>4 DEF TableInv

\* release() in scheduler().
LEMMA Step_sched_release ==
    ASSUME TableInv, NEW c \in Cpus, sched_release(c)
    PROVE  TableInv'
<1> USE ProcAssumption DEF NULL, Procs
<1>1. TypeOK'
    BY SMTT(60) DEF sched_release, TableInv, TypeOK, OuterLoop, Outside
<1>2. LockHandover'
    BY DEF sched_release, TableInv, TypeOK, LockHandover, OuterLoop, Outside
<1>3. (OneCpuEach /\ OffCpu /\ ForkOwns /\ StackOwned /\ ParentAlive /\ NoOrphan)'
    BY DEF sched_release, TableInv, OneCpuEach, OffCpu, ForkOwns, Owns, StackOwned,
           ParentAlive, NoOrphan
<1>4. (NoLostWait /\ PidsFresh)'
    BY DEF sched_release, TableInv, NoLostWait, Children, ZombieChildren, PidsFresh
<1> QED BY <1>1, <1>2, <1>3, <1>4 DEF TableInv

\* Inside its loops scheduler() changes nothing but its own locals.
LEMMA LoopStep ==
    ASSUME TableInv,
           scan' \in [Cpus -> [p : 0..NPROC + 1, highP : Procs \cup {NULL}, p1 : 0..NPROC + 1]],
           \A c \in Cpus : scan'[c].p # 0 <=> scan[c].p # 0,
           UNCHANGED <<state, pid, parent, chan, killed, priority, kstack, nextpid,
                       lock, cproc, pc, back, np>>
    PROVE  TableInv'
<1>1. TypeOK'
    BY DEF TableInv, TypeOK
<1>2. LockHandover'
    BY DEF TableInv, TypeOK, LockHandover
<1>3. (OneCpuEach /\ OffCpu /\ ForkOwns /\ StackOwned /\ ParentAlive /\ NoOrphan)'
    BY DEF TableInv, OneCpuEach, OffCpu, ForkOwns, Owns, StackOwned, ParentAlive, NoOrphan
<1>4. (NoLostWait /\ PidsFresh)'
    BY DEF TableInv, NoLostWait, Children, ZombieChildren, PidsFresh
<1> QED BY <1>1, <1>2, <1>3, <1>4 DEF TableInv

\* highP = p in scheduler().
LEMMA Step_sched_found ==
    ASSUME TableInv, NEW c \in Cpus, sched_found(c)
    PROVE  TableInv'
<1> USE ProcAssumption DEF NULL, Procs
<1>1. PICK q \in Procs : scan' = [scan EXCEPT ![c] = [p |-> q, highP |-> q, p1 |-> 1]]
    BY ZenonT(60) DEF sched_found, Runnable
<1>2. scan[c].p # 0
    BY DEF sched_found, TableInv, LockHandover
<1>3. /\ scan' \in [Cpus -> [p : 0..NPROC + 1, highP : Procs \cup {NULL}, p1 : 0..NPROC + 1]]
      /\ \A d \in Cpus : scan'[d].p # 0 <=> scan[d].p # 0
    BY <1>1, <1>2 DEF TableInv, TypeOK
<1> QED BY <1>3, LoopStep DEF sched_found

\* A round of the inner loop of scheduler().
LEMMA Step_sched_compare ==
    ASSUME TableInv, NEW c \in Cpus, sched_compare(c)
    PROVE  TableInv'
<1> USE ProcAssumption DEF NULL, Procs
<1>1. PICK q \in Procs :
        scan' = [scan EXCEPT ![c] = [p |-> scan[c].p, highP |-> q, p1 |-> scan[c].p1 + 1]]
    BY ZenonT(60) DEF sched_compare, TableInv, TypeOK, Runnable
<1>2. /\ scan' \in [Cpus -> [p : 0..NPROC + 1, highP : Procs \cup {NULL}, p1 : 0..NPROC + 1]]
      /\ \A d \in Cpus : scan'[d].p # 0 <=> scan[d].p # 0
    <2>1. scan[c] \in [p : 0..NPROC + 1, highP : Procs \cup {NULL}, p1 : 0..NPROC + 1]
        BY ZenonT(60) DEF TableInv, TypeOK
    <2>2. scan[c].p \in 0..NPROC + 1 /\ scan[c].p1 \in 0..NPROC + 1 /\ scan[c].p1 <= NPROC
        BY SMTT(60), <2>1 DEF sched_compare
    <2>3. scan[c].p1 + 1 \in 0..NPROC + 1
        BY SMTT(60), <2>2
    <2> QED BY SMTT(60), <1>1, <2>2, <2>3 DEF TableInv, TypeOK
<1> QED BY <1>2, LoopStep DEF sched_compare

\* swtch() in scheduler(): what is RUNNABLE is on no CPU yet.
LEMMA Step_sched_swtch ==
    ASSUME TableInv, Scanned, NEW c \in Cpus, sched_swtch(c)
    PROVE  TableInv'
<1> USE ProcAssumption DEF NULL, Procs
<1>1. PICK q \in Procs :
        /\ state[q] = "RUNNABLE"
        /\ cproc' = [cproc EXCEPT ![c] = q]
        /\ state' = [state EXCEPT ![q] = "RUNNING"]
        /\ scan' = [scan EXCEPT ![c] = [p |-> q + 1, highP |-> NULL, p1 |-> 0]]
    <2> DEFINE q == scan[c].highP
    <2>1. q \in Procs /\ state[q] = "RUNNABLE"
        BY DEF sched_swtch, Scanned, Runnable
    <2>2. OuterLoop(NextSlot(q)) = [p |-> q + 1, highP |-> NULL, p1 |-> 0]
        BY DEF OuterLoop, Outside, NextSlot
    <2> QED BY ZenonT(60), <2>1, <2>2 DEF sched_swtch
<1>2. /\ cproc[c] = NULL
      /\ lock = c
      /\ UNCHANGED <<pid, parent, chan, killed, priority, kstack, nextpid, lock, pc, back, np>>
    BY DEF sched_swtch, Scanned
<1>3. \A d \in Cpus : cproc[d] # q
    BY <1>1 DEF TableInv, OneCpuEach
<1>4. TypeOK'
    BY SMTT(60), <1>1, <1>2 DEF TableInv, TypeOK, States
<1>5. OneCpuEach'
    <2>1. (\A d, e \in Cpus : d # e /\ cproc[d] # NULL => cproc[d] # cproc[e])'
        BY SMTT(60), <1>1, <1>2, <1>3 DEF TableInv, TypeOK, OneCpuEach
    <2>2. (\A r \in Procs : state[r] = "RUNNING" <=> \E d \in Cpus : cproc[d] = r)'
        BY <1>1, <1>2, <1>3 DEF TableInv, TypeOK, OneCpuEach
    <2> QED BY <2>1, <2>2 DEF OneCpuEach
<1>6. LockHandover'
    <2>1. back[q] # "none"
        BY <1>1 DEF TableInv, OffCpu
    <2> QED BY <1>1, <1>2, <1>3, <2>1 DEF TableInv, TypeOK, LockHandover
<1>7. OffCpu'
    BY <1>1, <1>2 DEF TableInv, TypeOK, OffCpu
<1>8. StackOwned'
    BY <1>1, <1>2 DEF TableInv, TypeOK, StackOwned
<1>9. ForkOwns'
    BY SMTT(60), <1>1, <1>2 DEF TableInv, TypeOK, ForkOwns, Owns
<1>10. (ParentAlive /\ NoOrphan /\ PidsFresh)'
    BY SMTT(60), <1>1, <1>2 DEF TableInv, TypeOK, ParentAlive, NoOrphan, PidsFresh, Started
<1>11. NoLostWait'
    BY <1>1, <1>2, WaitFrame DEF TableInv, TypeOK
<1> QED BY <1>4, <1>5, <1>6, <1>7, <1>8, <1>9, <1>10, <1>11 DEF TableInv

(***************************************************************************)
(* Steps that leave the structure of the table alone                       *)
(***************************************************************************)
\* trap() on the way into a system call.
LEMMA Step_trap_entry ==
    ASSUME TableInv, NEW c \in Cpus, NEW p \in Procs, trap_entry(c, p)
    PROVE  TableInv'
<1>1. PICK l \in Syscalls : pc' = [pc EXCEPT ![p] = l]
    BY SMTT(60) DEF trap_entry, goto, Syscalls
<1> QED BY <1>1, QuietStep DEF trap_entry, TableInv, TypeOK, PCs, Syscalls, ForkPCs

\* trap() on the way out of a system call.
LEMMA Step_trap_return ==
    ASSUME TableInv, NEW c \in Cpus, NEW p \in Procs, trap_return(c, p)
    PROVE  TableInv'
BY QuietStep DEF trap_return, goto, TableInv, TypeOK, PCs, Syscalls, ForkPCs

\* trap() for a fault: the process that is marked killed is not asleep.
LEMMA Step_trap_fault ==
    ASSUME TableInv, NEW c \in Cpus, NEW p \in Procs, trap_fault(c, p)
    PROVE  TableInv'
<1>1. state[p] = "RUNNING"
    BY SMTT(60), OnCpu DEF trap_fault, Runs
<1> QED BY ZenonT(60), <1>1, QuietStep DEF trap_fault, goto, TableInv, TypeOK, PCs, Syscalls, ForkPCs

\* wakeup(&ticks).
LEMMA Step_timer_tick ==
    ASSUME TableInv, timer_tick
    PROVE  TableInv'
BY QuietStep DEF timer_tick, wakeup1, TableInv, TypeOK, States

\* panic() in exit().
LEMMA Step_exit_init ==
    ASSUME TableInv, NEW c \in Cpus, exit_init(c)
    PROVE  TableInv'
BY ZenonT(60), QuietStep DEF exit_init, goto, TableInv, TypeOK, PCs, ForkPCs

\* The loop test of sys_sleep().
LEMMA Step_sys_sleep ==
    ASSUME TableInv, NEW c \in Cpus, NEW p \in Procs, sys_sleep(c, p)
    PROVE  TableInv'
<1>1. PICK l \in {"ret", "sleep_go"} : pc' = [pc EXCEPT ![p] = l]
    BY SMTT(60) DEF sys_sleep, goto
<1> QED BY <1>1, QuietStep DEF sys_sleep, TableInv, TypeOK, PCs, ForkPCs

\* kill() wakes what it marks, so nobody is killed and left asleep.
LEMMA Step_kill ==
    ASSUME TableInv, NEW c \in Cpus, NEW p \in Procs, kill(c, p)
    PROVE  TableInv'
<1>1. PICK n \in 0..MaxPid :
        /\ killed' = [q \in Procs |-> killed[q] \/ q \in FindPid(n)]
        /\ state' = [q \in Procs |-> IF q \in FindPid(n) /\ state[q] = "SLEEPING"
                                     THEN "RUNNABLE" ELSE state[q]]
    BY DEF kill, kill_wakes
<1>2. state' \in [Procs -> States] /\ killed' \in [Procs -> BOOLEAN]
    BY <1>1 DEF TableInv, TypeOK, States
<1>3. ASSUME NEW x \in Procs
      PROVE  \/ state'[x] = state[x] /\ (state[x] = "SLEEPING" => killed'[x] = killed[x])
             \/ state[x] = "SLEEPING" /\ state'[x] = "RUNNABLE"
    BY SMTT(60), <1>1 DEF TableInv, TypeOK
<1> QED BY SMTT(60), <1>2, <1>3, QuietStep DEF kill, goto, TableInv, TypeOK, PCs, ForkPCs

\* nice() changes a priority only.
LEMMA Step_nice ==
    ASSUME TableInv, NEW c \in Cpus, NEW p \in Procs, nice(c, p)
    PROVE  TableInv'
<1>1. priority' \in [Procs -> Prios \cup {0}]
    BY DEF nice, TableInv, TypeOK
<1> QED BY <1>1, QuietStep DEF nice, goto, TableInv, TypeOK, PCs, ForkPCs

\* exec() changes a priority only.
LEMMA Step_exec ==
    ASSUME TableInv, NEW c \in Cpus, NEW p \in Procs, exec(c, p)
    PROVE  TableInv'
<1>1. priority' \in [Procs -> Prios \cup {0}]
    BY DEF exec, TableInv, TypeOK
<1> QED BY ZenonT(60), <1>1, QuietStep DEF exec, goto, TableInv, TypeOK, PCs, ForkPCs

(***************************************************************************)
(* Calls of sched(), and the return from them                              *)
(***************************************************************************)
\* yield() hands ptable.lock to the scheduler of its CPU.
LEMMA Step_yield ==
    ASSUME TableInv, NEW c \in Cpus, NEW p \in Procs, yield(c, p)
    PROVE  TableInv'
<1> USE ProcAssumption DEF NULL, Procs
<1>1. /\ cproc[c] = p /\ back[p] = "none" /\ lock = NoCpu
      /\ state' = [state EXCEPT ![p] = "RUNNABLE"]
      /\ cproc' = [cproc EXCEPT ![c] = 0]
      /\ back' = [back EXCEPT ![p] = "yield"]
      /\ lock' = c
      /\ UNCHANGED <<pid, parent, chan, killed, priority, kstack, nextpid, scan, pc, np>>
    BY DEF yield, Runs, sched
<1>2. state[p] = "RUNNING" /\ kstack[p] /\ \A d \in Cpus : d # c => cproc[d] # p
    BY SMTT(60), <1>1, OnCpu
<1>3. TypeOK'
    BY SMTT(60), <1>1 DEF TableInv, TypeOK, States
<1>4. OneCpuEach'
    BY SMTT(60), <1>1, <1>2 DEF TableInv, TypeOK, OneCpuEach
<1>5. LockHandover'
    BY SMTT(60), <1>1, <1>2 DEF TableInv, TypeOK, LockHandover
<1>6. (OffCpu /\ StackOwned)'
    BY SMTT(60), <1>1, <1>2 DEF TableInv, TypeOK, OffCpu, StackOwned
<1>7. ForkOwns'
    BY SMTT(60), <1>1, <1>2 DEF TableInv, TypeOK, ForkOwns, Owns
<1>8. (ParentAlive /\ NoOrphan /\ PidsFresh)'
    BY SMTT(60), <1>1, <1>2 DEF TableInv, TypeOK, ParentAlive, NoOrphan, PidsFresh, Started
<1>9. NoLostWait'
    BY <1>1, <1>2, WaitFrame DEF TableInv, TypeOK
<1> QED BY <1>3, <1>4, <1>5, <1>6, <1>7, <1>8, <1>9 DEF TableInv

\* sleep(&ticks, &tickslock): not a channel that wait() sleeps on.
LEMMA Step_sleep_ticks ==
    ASSUME TableInv, NEW c \in Cpus, NEW p \in Procs, sleep_ticks(c, p)
    PROVE  TableInv'
<1> USE ProcAssumption DEF NULL, Procs
<1>1. /\ cproc[c] = p /\ back[p] = "none" /\ lock = NoCpu /\ pc[p] = "sleep_go"
      /\ chan' = [chan EXCEPT ![p] = NPROC + 1]
      /\ state' = [state EXCEPT ![p] = "SLEEPING"]
      /\ cproc' = [cproc EXCEPT ![c] = 0]
      /\ back' = [back EXCEPT ![p] = "sleep"]
      /\ lock' = c
      /\ pc' = [pc EXCEPT ![p] = "sleep"]
      /\ UNCHANGED <<pid, parent, killed, priority, kstack, nextpid, scan, np>>
    BY DEF sleep_ticks, Runs, sched, goto, ticksChan
<1>2. state[p] = "RUNNING" /\ kstack[p] /\ \A d \in Cpus : d # c => cproc[d] # p
    BY SMTT(60), <1>1, OnCpu
<1>3. TypeOK'
    BY SMTT(60), <1>1 DEF TableInv, TypeOK, States, PCs, Syscalls, Chans, ticksChan
<1>4. OneCpuEach'
    BY <1>1, <1>2 DEF TableInv, TypeOK, OneCpuEach
<1>5. LockHandover'
    BY SMTT(60), <1>1, <1>2 DEF TableInv, TypeOK, LockHandover
<1>6. (OffCpu /\ StackOwned)'
    BY SMTT(60), <1>1, <1>2 DEF TableInv, TypeOK, OffCpu, StackOwned
<1>7. ForkOwns'
    BY SMTT(60), <1>1, <1>2 DEF TableInv, TypeOK, ForkOwns, Owns
<1>8. (ParentAlive /\ NoOrphan /\ PidsFresh)'
    BY SMTT(60), <1>1, <1>2 DEF TableInv, TypeOK, ParentAlive, NoOrphan, PidsFresh, Started
<1>9. NoLostWait'
    BY <1>1, <1>2, WaitFrame DEF TableInv, TypeOK
<1> QED BY <1>3, <1>4, <1>5, <1>6, <1>7, <1>8, <1>9 DEF TableInv

\* wait() goes to sleep holding ptable.lock since it looked at its children.
LEMMA Step_wait_sleep ==
    ASSUME TableInv, NEW c \in Cpus, NEW p \in Procs, wait_sleep(c, p)
    PROVE  TableInv'
<1> USE ProcAssumption DEF NULL, Procs
<1>1. /\ cproc[c] = p /\ pc[p] = "wait"
      /\ (back[p] = "none" /\ lock = NoCpu) \/ lock = c
      /\ chan' = [chan EXCEPT ![p] = p]
      /\ state' = [state EXCEPT ![p] = "SLEEPING"]
      /\ cproc' = [cproc EXCEPT ![c] = 0]
      /\ back' = [back EXCEPT ![p] = "sleep"]
      /\ lock' = c
      /\ UNCHANGED <<pid, parent, killed, priority, kstack, nextpid, scan, pc, np>>
    BY DEF wait_sleep, WaitScans, Runs, sched
<1>2. state[p] = "RUNNING" /\ kstack[p] /\ \A d \in Cpus : d # c => cproc[d] # p
    BY <1>1, OnCpu
<1>3. TypeOK'
    BY ZenonT(60), <1>1 DEF TableInv, TypeOK, States, Chans
<1>4. OneCpuEach'
    BY SMTT(60), <1>1, <1>2 DEF TableInv, TypeOK, OneCpuEach
<1>5. LockHandover'
    BY SMTT(60), <1>1, <1>2 DEF TableInv, TypeOK, LockHandover
<1>6. (OffCpu /\ StackOwned)'
    BY SMTT(60), <1>1, <1>2 DEF TableInv, TypeOK, OffCpu, StackOwned
<1>7. ForkOwns'
    BY SMTT(60), <1>1, <1>2 DEF TableInv, TypeOK, ForkOwns, Owns
<1>8. (ParentAlive /\ NoOrphan /\ PidsFresh)'
    BY SMTT(60), <1>1, <1>2 DEF TableInv, TypeOK, ParentAlive, NoOrphan, PidsFresh, Started
<1>9. NoLostWait'
    <2>1. Children(p)' # {} /\ ZombieChildren(p)' = {} /\ ~killed'[p]
        BY <1>1, <1>2 DEF wait_sleep, Children, ZombieChildren, TableInv, TypeOK
    <2>2. ASSUME NEW r \in Procs, r # p, state'[r] = "SLEEPING", chan'[r] = r
          PROVE  Children(r)' # {} /\ ZombieChildren(r)' = {} /\ ~killed'[r]
        BY SMTT(60), <1>1, <1>2, <2>2 DEF Children, ZombieChildren, TableInv, TypeOK, NoLostWait
    <2> QED BY <2>1, <2>2 DEF NoLostWait
<1> QED BY <1>3, <1>4, <1>5, <1>6, <1>7, <1>8, <1>9 DEF TableInv

\* The process switched to releases ptable.lock.
LEMMA Step_resume ==
    ASSUME TableInv, NEW c \in Cpus, NEW p \in Procs, resume(c, p)
    PROVE  TableInv'
<1> USE ProcAssumption DEF NULL, Procs
<1>1. /\ cproc[c] = p /\ lock = c /\ back[p] # "none"
      /\ back' = [back EXCEPT ![p] = "none"]
      /\ lock' = NoCpu
      /\ UNCHANGED <<state, pid, parent, killed, priority, kstack, nextpid, cproc, scan, np>>
    BY DEF resume
<1>2. PICK ch \in {0, chan[p]} : chan' = [chan EXCEPT ![p] = ch]
    BY ZenonT(60) DEF resume
<1>3. PICK l \in {"exit", pc[p]} :
        /\ l = "exit" => pc[p] \in {"user", "exit"}
        /\ pc' = [pc EXCEPT ![p] = l]
    BY ZenonT(60) DEF resume, goto
<1>4. state[p] = "RUNNING" /\ \A d \in Cpus : d # c => cproc[d] # p
    BY <1>1, OnCpu
<1>5. TypeOK'
    BY ZenonT(60), <1>1, <1>2, <1>3 DEF TableInv, TypeOK, PCs, Syscalls, Chans
<1>6. (OneCpuEach /\ StackOwned /\ ParentAlive /\ NoOrphan /\ PidsFresh)'
    BY SMTT(60), <1>1 DEF TableInv, OneCpuEach, StackOwned, ParentAlive, NoOrphan, PidsFresh
<1>7. LockHandover'
    BY SMTT(60), <1>1, <1>4 DEF TableInv, TypeOK, LockHandover
<1>8. OffCpu'
    BY SMTT(60), <1>1, <1>4 DEF TableInv, TypeOK, OffCpu
<1>9. ForkOwns'
    <2>1. ASSUME NEW x \in Procs PROVE np[x] # p
        BY SMTT(60), <1>4 DEF TableInv, ForkOwns, Owns
    <2> QED BY SMTT(60), <1>1, <1>3, <2>1 DEF TableInv, TypeOK, ForkOwns, Owns
<1>10. NoLostWait'
    BY SMTT(60), <1>1, <1>2, <1>4, WaitFrame DEF TableInv, TypeOK
<1> QED BY <1>5, <1>6, <1>7, <1>8, <1>9, <1>10 DEF TableInv

\* wait() without children, or in a killed process.
LEMMA Step_wait_fail ==
    ASSUME TableInv, NEW c \in Cpus, NEW p \in Procs, wait_fail(c, p)
    PROVE  TableInv'
<1> USE ProcAssumption DEF NULL, Procs
<1>1. /\ cproc[c] = p /\ pc[p] = "wait"
      /\ (back[p] = "none" /\ lock = NoCpu) \/ lock = c
      /\ chan' = [chan EXCEPT ![p] = 0]
      /\ back' = [back EXCEPT ![p] = "none"]
      /\ lock' = NoCpu
      /\ pc' = [pc EXCEPT ![p] = "ret"]
      /\ UNCHANGED <<state, pid, parent, killed, priority, kstack, nextpid, cproc, scan, np>>
    BY DEF wait_fail, WaitScans, Runs, goto
<1>2. state[p] = "RUNNING" /\ \A d \in Cpus : d # c => cproc[d] # p
    BY SMTT(60), <1>1, OnCpu
<1>3. TypeOK'
    BY SMTT(60), <1>1 DEF TableInv, TypeOK, PCs, Chans
<1>4. (OneCpuEach /\ StackOwned /\ ParentAlive /\ NoOrphan /\ PidsFresh)'
    BY <1>1 DEF TableInv, OneCpuEach, StackOwned, ParentAlive, NoOrphan, PidsFresh
<1>5. LockHandover'
    BY SMTT(60), <1>1, <1>2 DEF TableInv, TypeOK, LockHandover
<1>6. OffCpu'
    BY SMTT(60), <1>1, <1>2 DEF TableInv, TypeOK, OffCpu
<1>7. ForkOwns'
    BY SMTT(60), <1>1, <1>2 DEF TableInv, TypeOK, ForkOwns, Owns
<1>8. NoLostWait'
    BY <1>1, <1>2, WaitFrame DEF TableInv, TypeOK
<1> QED BY <1>3, <1>4, <1>5, <1>6, <1>7, <1>8 DEF TableInv

\* wait() frees a zombie, which is on no CPU and has no children left.
LEMMA Step_wait_reap ==
    ASSUME TableInv, NEW c \in Cpus, NEW p \in Procs, wait_reap(c, p)
    PROVE  TableInv'
<1> USE ProcAssumption DEF NULL, Procs
<1>1. PICK q \in Procs :
        /\ state[q] = "ZOMBIE" /\ parent[q] = p
        /\ kstack' = [kstack EXCEPT ![q] = FALSE]
        /\ pid' = [pid EXCEPT ![q] = 0]
        /\ parent' = [parent EXCEPT ![q] = 0]
        /\ killed' = [killed EXCEPT ![q] = FALSE]
        /\ state' = [state EXCEPT ![q] = "UNUSED"]
    BY ZenonT(60) DEF wait_reap, ZombieChildren, Children
<1>2. /\ cproc[c] = p /\ pc[p] = "wait"
      /\ (back[p] = "none" /\ lock = NoCpu) \/ lock = c
      /\ chan' = [chan EXCEPT ![p] = 0]
      /\ back' = [back EXCEPT ![p] = "none"]
      /\ lock' = NoCpu
      /\ pc' = [pc EXCEPT ![p] = "ret"]
      /\ UNCHANGED <<priority, nextpid, cproc, scan, np>>
    BY DEF wait_reap, WaitScans, Runs, goto
<1>3. state[p] = "RUNNING" /\ \A d \in Cpus : d # c => cproc[d] # p
    BY SMTT(60), <1>2, OnCpu
<1>4. /\ q # p /\ q # initproc
      /\ \A d \in Cpus : cproc[d] # q
      /\ \A x \in Procs : parent[x] # q
    BY SMTT(60), <1>1, <1>3 DEF TableInv, OneCpuEach, ParentAlive, Started
<1>5. TypeOK'
    <2>1. (/\ state \in [Procs -> States] /\ parent \in [Procs -> Procs \cup {NULL}]
           /\ killed \in [Procs -> BOOLEAN] /\ kstack \in [Procs -> BOOLEAN])'
        BY SMTT(60), <1>1 DEF TableInv, TypeOK, States
    <2>2. (/\ pid \in [Procs -> 0..MaxPid] /\ chan \in [Procs -> Chans] /\ pc \in [Procs -> PCs])'
        BY SMTT(60), <1>1, <1>2 DEF TableInv, TypeOK, PCs, Chans
    <2> QED BY SMTT(60), <1>2, <2>1, <2>2 DEF TableInv, TypeOK
<1>6. OneCpuEach'
    BY SMTT(60), <1>1, <1>2, <1>4 DEF TableInv, TypeOK, OneCpuEach
<1>7. LockHandover'
    BY <1>2, <1>3 DEF TableInv, TypeOK, LockHandover
<1>8. OffCpu'
    BY SMTT(60), <1>1, <1>2, <1>3 DEF TableInv, TypeOK, OffCpu
<1>9. ForkOwns'
    <2>1. ASSUME NEW x \in Procs PROVE np[x] # q /\ np[x] # p
        BY <1>1, <1>3 DEF TableInv, ForkOwns, Owns
    <2>2. np[q] = 0 /\ np[p] = 0
        BY SMTT(60), <1>1, <1>2 DEF TableInv, ForkOwns, Owns
    <2> QED BY SMTT(60), <1>1, <1>2, <2>1, <2>2 DEF TableInv, TypeOK, ForkOwns, Owns
<1>10. StackOwned'
    BY SMTT(60), <1>1, <1>2, <1>4 DEF TableInv, TypeOK, StackOwned
<1>11. (ParentAlive /\ NoOrphan)'
    BY <1>1, <1>4 DEF TableInv, TypeOK, ParentAlive, NoOrphan, Started
<1>12. NoLostWait'
    BY ZenonT(60), <1>1, <1>2, <1>3, <1>4, WaitFrame DEF TableInv, TypeOK
<1>13. PidsFresh'
    BY SMTT(60), <1>1, <1>2 DEF TableInv, TypeOK, PidsFresh
<1> QED BY <1>5, <1>6, <1>7, <1>8, <1>9, <1>10, <1>11, <1>12, <1>13 DEF TableInv
=============================================================================
