----------------------------- MODULE ProcProofs -----------------------------
(***************************************************************************)
(* Proofs about the process table, for every number of slots and CPUs.     *)
(*                                                                         *)
(* IInv of module Proc is shown to be inductive.  For TableInv there is    *)
(* one lemma per action, and under it one step per conjunct (or group of   *)
(* conjuncts) that the action could disturb; for Scanned, what the inner   *)
(* loop of scheduler() has found, one per way of leaving it alone.  The    *)
(* safety properties are conjuncts of IInv or follow from one;             *)
(* PriorityOrder, an action property, follows from Scanned.                *)
(***************************************************************************)
EXTENDS ProcSteps

\* exit(): the parent is woken for the new zombie, and init for the zombies
\* it inherits.
LEMMA Step_exit ==
    ASSUME TableInv, NEW c \in Cpus, NEW p \in Procs, exit(c, p)
    PROVE  TableInv'
<1> USE ProcAssumption DEF NULL, Procs
<1>1. /\ cproc[c] = p /\ back[p] = "none" /\ pc[p] = "exit" /\ p # initproc /\ lock = NoCpu
      /\ cproc' = [cproc EXCEPT ![c] = 0]
      /\ back' = [back EXCEPT ![p] = "exit"]
      /\ lock' = c
      /\ UNCHANGED <<pid, chan, killed, priority, kstack, nextpid, scan, pc, np>>
    BY DEF exit, Runs, sched
<1>2. state[p] = "RUNNING" /\ kstack[p] /\ \A d \in Cpus : d # c => cproc[d] # p
    BY SMTT(60), <1>1, OnCpu
<1>3. /\ state' \in [Procs -> States]
      /\ state'[p] = "ZOMBIE"
      /\ \A x \in Procs : x # p =>
            \/ state'[x] = state[x]
            \/ state[x] = "SLEEPING" /\ state'[x] = "RUNNABLE"
    BY SMTT(60) DEF exit, wakeup1, TableInv, TypeOK, States
<1>4. /\ parent' \in [Procs -> Procs \cup {0}]
      /\ \A x \in Procs : parent'[x] = IF parent[x] = p THEN initproc ELSE parent[x]
    BY DEF exit, reparent, Children, initproc, TableInv, TypeOK
<1>5. /\ \A x \in Procs : state'[x] = "RUNNING" <=> x # p /\ state[x] = "RUNNING"
      /\ \A x \in Procs : state'[x] = "UNUSED" <=> state[x] = "UNUSED"
      /\ \A x \in Procs : x # p /\ state[x] \in Started => state'[x] \in Started
    BY SMTT(60), <1>2, <1>3 DEF Started
<1>6. /\ parent[p] # p
      /\ \A x \in Procs : np[x] # p
      /\ np[p] = 0
    BY SMTT(60), <1>1, <1>2 DEF TableInv, ParentAlive, ForkOwns, Owns
<1>7. TypeOK'
    BY SMTT(60), <1>1, <1>3, <1>4 DEF TableInv, TypeOK
<1>8. OneCpuEach'
    <2>1. (\A d, e \in Cpus : d # e /\ cproc[d] # NULL => cproc[d] # cproc[e])'
        BY SMTT(60), <1>1 DEF TableInv, TypeOK, OneCpuEach
    <2>2. (\A x \in Procs : state[x] = "RUNNING" <=> \E d \in Cpus : cproc[d] = x)'
        BY SMTT(60), <1>1, <1>2, <1>5 DEF TableInv, TypeOK, OneCpuEach
    <2> QED BY <2>1, <2>2 DEF OneCpuEach
<1>9. LockHandover'
    BY SMTT(60), <1>1, <1>2 DEF TableInv, TypeOK, LockHandover
<1>10. OffCpu'
    BY SMTT(60), <1>1, <1>3 DEF TableInv, TypeOK, OffCpu
<1>11. StackOwned'
    BY SMTT(60), <1>1, <1>2, <1>3 DEF TableInv, TypeOK, StackOwned
<1>12. ForkOwns'
    BY SMTT(60), <1>1, <1>3, <1>4, <1>6 DEF TableInv, TypeOK, ForkOwns, Owns
<1>13. ParentAlive'
    <2>1. (state[initproc] \in Started /\ parent[initproc] = NULL)'
        BY <1>1, <1>4, <1>5 DEF TableInv, ParentAlive, initproc
    <2>2. ASSUME NEW x \in Procs, parent'[x] # 0
          PROVE  parent'[x] # x /\ state'[parent'[x]] \in Started /\ state'[x] # "UNUSED"
        <3>1. CASE parent[x] = p
            BY SMTT(60), <1>2, <1>4, <1>5, <2>1, <2>2, <3>1 DEF TableInv, ParentAlive, initproc
        <3>2. CASE parent[x] # p
            BY SMTT(60), <1>4, <1>5, <2>2, <3>2 DEF TableInv, TypeOK, ParentAlive
        <3> QED BY <3>1, <3>2
    <2> QED BY SMTT(60), <2>1, <2>2 DEF ParentAlive
<1>14. NoOrphan'
    <2>1. ASSUME NEW x \in Procs, x # initproc,
                 state'[x] \in {"SLEEPING", "RUNNABLE", "RUNNING", "ZOMBIE"}
          PROVE  parent'[x] # 0
        <3>1. state[x] \in {"SLEEPING", "RUNNABLE", "RUNNING", "ZOMBIE"}
            BY <1>2, <1>3, <2>1
        <3> QED BY <1>4, <2>1, <3>1 DEF TableInv, NoOrphan, initproc
    <2> QED BY <1>13, <2>1 DEF ParentAlive, NoOrphan, Started
<1>15. NoLostWait'
    <2>1. SUFFICES ASSUME NEW r \in Procs, state'[r] = "SLEEPING", chan[r] = r
                   PROVE  Children(r)' # {} /\ ZombieChildren(r)' = {} /\ ~killed[r]
        BY SMTT(60), <1>1 DEF NoLostWait
    <2>2. r # p /\ state[r] = "SLEEPING" /\ r \notin exit_wakes(p)
        BY SMTT(60), <1>3, <2>1 DEF exit, wakeup1, TableInv, TypeOK
    <2>3. Children(r) # {} /\ ZombieChildren(r) = {} /\ ~killed[r]
        BY <2>1, <2>2 DEF TableInv, NoLostWait
    <2>4. Children(r)' # {}
        BY <1>4, <2>2, <2>3 DEF Children
    <2>5. ASSUME NEW x \in Procs, parent'[x] = r, state'[x] = "ZOMBIE" PROVE FALSE
        <3>1. CASE x = p
            BY <1>4, <1>6, <2>2, <2>5, <3>1 DEF exit_wakes
        <3>2. CASE x # p
            <4>1. state[x] = "ZOMBIE"
                BY <1>3, <2>5, <3>2
            <4>2. CASE parent[x] = p
                BY <1>4, <2>2, <2>5, <4>1, <4>2 DEF exit_wakes, ZombieChildren, Children
            <4>3. CASE parent[x] # p
                BY <1>4, <2>3, <2>5, <4>1, <4>3 DEF ZombieChildren, Children
            <4> QED BY <4>2, <4>3
        <3> QED BY <3>1, <3>2
    <2>6. ZombieChildren(r)' = {}
        BY <2>5 DEF ZombieChildren, Children
    <2> QED BY <2>3, <2>4, <2>6
<1>16. PidsFresh'
    BY <1>1 DEF TableInv, PidsFresh
<1> QED BY <1>7, <1>8, <1>9, <1>10, <1>11, <1>12, <1>13, <1>14, <1>15, <1>16 DEF TableInv

(***************************************************************************)
(* fork()                                                                  *)
(***************************************************************************)
\* allocproc(), and its failure.
LEMMA Step_allocproc ==
    ASSUME TableInv, NEW c \in Cpus, NEW p \in Procs, allocproc(c, p)
    PROVE  TableInv'
<1>1. Runs(c, p) /\ pc[p] = "fork" /\ state[p] = "RUNNING" /\ np[p] = NULL
    BY SMTT(60), OnCpu DEF allocproc, Runs, TableInv, ForkOwns, Owns
<1>2. CASE pc' = [pc EXCEPT ![p] = "ret"]
    <2>1. UNCHANGED <<state, pid, parent, chan, killed, kstack, nextpid, lock,
                      cproc, scan, back, np, priority>>
        BY SMTT(60), <1>1, <1>2 DEF allocproc, goto, TableInv, TypeOK
    <2> QED BY SMTT(60), <1>1, <1>2, <2>1, QuietStep DEF TableInv, TypeOK, PCs, ForkPCs
<1>3. CASE pc' # [pc EXCEPT ![p] = "ret"]
    <2> USE ProcAssumption DEF Procs, NULL
    <2>1. PICK q \in Procs :
            /\ state[q] = "UNUSED"
            /\ nextpid <= MaxPid
            /\ state' = [state EXCEPT ![q] = "EMBRYO"]
            /\ pid' = [pid EXCEPT ![q] = nextpid]
            /\ nextpid' = nextpid + 1
            /\ priority' = [priority EXCEPT ![q] = 0]
            /\ np' = [np EXCEPT ![p] = q]
            /\ pc' = [pc EXCEPT ![p] = "kstack"]
        BY <1>3 DEF allocproc, goto, newpid
    <2>2. UNCHANGED <<parent, chan, killed, kstack, lock, cproc, scan, back>>
        BY DEF allocproc
    <2>3. /\ q # initproc /\ ~kstack[q] /\ parent[q] = NULL /\ np[q] = NULL
          /\ \A d \in Cpus : cproc[d] # q
          /\ \A r \in Procs : parent[r] # q /\ np[r] # q
        BY SMTT(60), <2>1, UnusedFacts
    <2>4. TypeOK'
        BY SMTT(60), <2>1, <2>2 DEF TableInv, TypeOK, States, PCs
    <2>5. (OneCpuEach /\ OffCpu)'
        BY SMTT(60), <2>1, <2>2, <2>3 DEF TableInv, TypeOK, OneCpuEach, OffCpu
    <2>6. LockHandover'
        BY ZenonT(60), <2>2 DEF TableInv, LockHandover
    <2>7. StackOwned'
        BY SMTT(60), <2>1, <2>2, <2>3 DEF TableInv, TypeOK, StackOwned
    <2>8. ForkOwns'
        BY SMTT(60), <1>1, <2>1, <2>2, <2>3 DEF TableInv, TypeOK, ForkOwns, Owns
    <2>9. (ParentAlive /\ NoOrphan)'
        BY SMTT(60), <2>1, <2>2, <2>3 DEF TableInv, TypeOK, ParentAlive, NoOrphan, Started
    <2>10. NoLostWait'
        BY SMTT(60), <2>1, <2>2, WaitFrame DEF TableInv, TypeOK
    <2>11. PidsFresh'
        <3>1. (\A r \in Procs : pid[r] < nextpid)'
            BY SMTT(60), <2>1 DEF TableInv, TypeOK, PidsFresh
        <3>2. ASSUME NEW r \in Procs, NEW s \in Procs, r # s, pid'[r] = pid'[s]
              PROVE  pid'[r] = 0
            BY SMTT(60), <2>1, <3>2 DEF TableInv, TypeOK, PidsFresh
        <3> QED BY SMTT(60), <3>1, <3>2 DEF PidsFresh
    <2> QED BY SMTT(60), <2>4, <2>5, <2>6, <2>7, <2>8, <2>9, <2>10, <2>11 DEF TableInv
<1> QED BY SMTT(60), <1>2, <1>3

\* The kernel stack of the new process, and the failure to get one.
LEMMA Step_alloc_kstack ==
    ASSUME TableInv, NEW c \in Cpus, NEW p \in Procs, alloc_kstack(c, p)
    PROVE  TableInv'
<1> DEFINE q == np[p]
<1>1. Runs(c, p) /\ pc[p] = "kstack"
    BY SMTT(60) DEF alloc_kstack
<1>2. /\ q \in Procs /\ state[q] = "EMBRYO" /\ q # p /\ q # initproc
      /\ ~kstack[q] /\ parent[q] = NULL /\ np[q] = NULL
      /\ \A d \in Cpus : cproc[d] # q
      /\ \A r \in Procs : parent[r] # q /\ (r # p => np[r] # q)
    BY <1>1, EmbryoFacts DEF ForkPCs
<1>3. state[p] = "RUNNING"
    BY SMTT(60), <1>1, OnCpu DEF Runs
<1>4. UNCHANGED <<pid, parent, chan, killed, priority, nextpid, lock, cproc, scan>>
    BY DEF alloc_kstack
<1> HIDE DEF q
<1> USE ProcAssumption DEF Procs, NULL
<1>5. CASE /\ kstack' = [kstack EXCEPT ![q] = TRUE]
           /\ back' = [back EXCEPT ![q] = "forkret"]
           /\ pc' = [pc EXCEPT ![p] = "copyuvm"]
           /\ UNCHANGED <<state, np>>
    <2>1. TypeOK'
        BY SMTT(60), <1>2, <1>4, <1>5 DEF TableInv, TypeOK, PCs
    <2>2. OneCpuEach'
        BY <1>4, <1>5 DEF TableInv, OneCpuEach
    <2>3. LockHandover'
        BY SMTT(60), <1>2, <1>4, <1>5 DEF TableInv, TypeOK, LockHandover
    <2>4. OffCpu'
        BY SMTT(60), <1>2, <1>4, <1>5 DEF TableInv, TypeOK, OffCpu
    <2>5. ForkOwns'
        <3>1. Owns(p)'
            BY SMTT(60), <1>1, <1>2, <1>3, <1>4, <1>5 DEF TableInv, TypeOK, ForkOwns, Owns, q
        <3>2. ASSUME NEW x \in Procs, x # p PROVE Owns(x)'
            BY SMTT(60), <1>2, <1>4, <1>5, <3>2 DEF TableInv, TypeOK, ForkOwns, Owns
        <3> QED BY SMTT(60), <3>1, <3>2 DEF ForkOwns
    <2>6. StackOwned'
        BY SMTT(60), <1>2, <1>4, <1>5 DEF TableInv, TypeOK, StackOwned
    <2>7. (ParentAlive /\ NoOrphan /\ PidsFresh)'
        BY SMTT(60), <1>4, <1>5 DEF TableInv, ParentAlive, NoOrphan, PidsFresh
    <2>8. NoLostWait'
        BY <1>4, <1>5, WaitFrame DEF TableInv
    <2> QED BY SMTT(60), <2>1, <2>2, <2>3, <2>4, <2>5, <2>6, <2>7, <2>8 DEF TableInv
<1>6. CASE /\ state' = [state EXCEPT ![q] = "UNUSED"]
           /\ pc' = [pc EXCEPT ![p] = "ret"]
           /\ np' = [np EXCEPT ![p] = NULL]
           /\ UNCHANGED <<kstack, back>>
    <2>1. TypeOK'
        BY SMTT(60), <1>2, <1>4, <1>6 DEF TableInv, TypeOK, States, PCs
    <2>2. OneCpuEach'
        BY SMTT(60), <1>2, <1>4, <1>6 DEF TableInv, TypeOK, OneCpuEach
    <2>3. LockHandover'
        BY ZenonT(60), <1>4, <1>6 DEF TableInv, LockHandover
    <2>4. OffCpu'
        BY SMTT(60), <1>2, <1>4, <1>6 DEF TableInv, TypeOK, OffCpu
    <2>5. ForkOwns'
        <3>1. Owns(p)'
            BY SMTT(60), <1>4, <1>6 DEF TableInv, TypeOK, Owns
        <3>2. ASSUME NEW x \in Procs, x # p PROVE Owns(x)'
            BY SMTT(60), <1>2, <1>4, <1>6, <3>2 DEF TableInv, TypeOK, ForkOwns, Owns
        <3> QED BY SMTT(60), <3>1, <3>2 DEF ForkOwns
    <2>6. StackOwned'
        BY SMTT(60), <1>2, <1>4, <1>6 DEF TableInv, TypeOK, StackOwned
    <2>7. (ParentAlive /\ NoOrphan)'
        BY SMTT(60), <1>2, <1>4, <1>6 DEF TableInv, TypeOK, ParentAlive, NoOrphan, Started
    <2>8. NoLostWait'
        BY SMTT(60), <1>2, <1>4, <1>6, WaitFrame DEF TableInv, TypeOK
    <2>9. PidsFresh'
        BY SMTT(60), <1>4 DEF TableInv, PidsFresh
    <2> QED BY SMTT(60), <2>1, <2>2, <2>3, <2>4, <2>5, <2>6, <2>7, <2>8, <2>9 DEF TableInv
<1> QED BY <1>5, <1>6 DEF alloc_kstack, goto, q

\* copyuvm() in fork(), and its failure.
LEMMA Step_fork_copy ==
    ASSUME TableInv, NEW c \in Cpus, NEW p \in Procs, fork_copy(c, p)
    PROVE  TableInv'
<1> DEFINE q == np[p]
<1>1. Runs(c, p) /\ pc[p] = "copyuvm"
    BY SMTT(60) DEF fork_copy
<1>2. /\ q \in Procs /\ state[q] = "EMBRYO" /\ q # p /\ q # initproc
      /\ kstack[q] /\ back[q] = "forkret" /\ parent[q] = NULL /\ np[q] = NULL
      /\ \A d \in Cpus : cproc[d] # q
      /\ \A r \in Procs : parent[r] # q /\ (r # p => np[r] # q)
    BY SMTT(60), <1>1, EmbryoFacts DEF ForkPCs
<1>3. state[p] = "RUNNING"
    BY <1>1, OnCpu DEF Runs
<1>4. UNCHANGED <<pid, chan, killed, priority, nextpid, lock, cproc, scan, back>>
    BY DEF fork_copy
<1> HIDE DEF q
<1> USE ProcAssumption DEF Procs, NULL
<1>5. CASE /\ parent' = [parent EXCEPT ![q] = p]
           /\ pc' = [pc EXCEPT ![p] = "setrun", ![q] = "user"]
           /\ UNCHANGED <<state, kstack, np>>
    <2>1. TypeOK'
        BY ZenonT(60), <1>2, <1>4, <1>5 DEF TableInv, TypeOK, PCs
    <2>2. (OneCpuEach /\ LockHandover)'
        BY ZenonT(60), <1>4, <1>5 DEF TableInv, OneCpuEach, LockHandover
    <2>3. (OffCpu /\ StackOwned /\ PidsFresh)'
        BY SMTT(60), <1>4, <1>5 DEF TableInv, OffCpu, StackOwned, PidsFresh
    <2>4. ForkOwns'
        BY SMTT(60), <1>1, <1>2, <1>3, <1>4, <1>5 DEF TableInv, TypeOK, ForkOwns, Owns, q
    <2>5. ParentAlive'
        BY SMTT(60), <1>2, <1>3, <1>5 DEF TableInv, TypeOK, ParentAlive, Started
    <2>6. NoOrphan'
        BY SMTT(60), <1>2, <1>5 DEF TableInv, TypeOK, NoOrphan
    <2>7. NoLostWait'
        BY SMTT(60), <1>2, <1>3, <1>4, <1>5, WaitFrame DEF TableInv, TypeOK
    <2> QED BY <2>1, <2>2, <2>3, <2>4, <2>5, <2>6, <2>7 DEF TableInv
<1>6. CASE /\ kstack' = [kstack EXCEPT ![q] = FALSE]
           /\ state' = [state EXCEPT ![q] = "UNUSED"]
           /\ pc' = [pc EXCEPT ![p] = "ret"]
           /\ np' = [np EXCEPT ![p] = NULL]
           /\ UNCHANGED parent
    <2>1. TypeOK'
        BY SMTT(60), <1>2, <1>4, <1>6 DEF TableInv, TypeOK, States, PCs
    <2>2. OneCpuEach'
        BY SMTT(60), <1>2, <1>4, <1>6 DEF TableInv, TypeOK, OneCpuEach
    <2>3. (LockHandover /\ PidsFresh)'
        BY ZenonT(60), <1>4 DEF TableInv, LockHandover, PidsFresh
    <2>4. OffCpu'
        BY SMTT(60), <1>2, <1>4, <1>6 DEF TableInv, TypeOK, OffCpu
    <2>5. ForkOwns'
        <3>1. Owns(p)'
            BY SMTT(60), <1>4, <1>6 DEF TableInv, TypeOK, Owns
        <3>2. ASSUME NEW x \in Procs, x # p PROVE Owns(x)'
            BY SMTT(60), <1>2, <1>4, <1>6, <3>2 DEF TableInv, TypeOK, ForkOwns, Owns
        <3> QED BY SMTT(60), <3>1, <3>2 DEF ForkOwns
    <2>6. StackOwned'
        BY SMTT(60), <1>2, <1>4, <1>6 DEF TableInv, TypeOK, StackOwned
    <2>7. (ParentAlive /\ NoOrphan)'
        BY SMTT(60), <1>2, <1>4, <1>6 DEF TableInv, TypeOK, ParentAlive, NoOrphan, Started
    <2>8. NoLostWait'
        BY SMTT(60), <1>2, <1>4, <1>6, WaitFrame DEF TableInv, TypeOK
    <2> QED BY SMTT(60), <2>1, <2>2, <2>3, <2>4, <2>5, <2>6, <2>7, <2>8 DEF TableInv
<1> QED BY <1>5, <1>6 DEF fork_copy, goto, q

\* fork() makes the new process RUNNABLE.
LEMMA Step_fork_run ==
    ASSUME TableInv, NEW c \in Cpus, NEW p \in Procs, fork_run(c, p)
    PROVE  TableInv'
<1> DEFINE q == np[p]
<1>1. Runs(c, p) /\ pc[p] = "setrun"
    BY SMTT(60) DEF fork_run
<1>2. /\ q \in Procs /\ state[q] = "EMBRYO" /\ q # p /\ q # initproc
      /\ kstack[q] /\ back[q] = "forkret" /\ parent[q] = p /\ np[q] = NULL
      /\ \A d \in Cpus : cproc[d] # q
      /\ \A r \in Procs : parent[r] # q /\ (r # p => np[r] # q)
    BY ZenonT(60), <1>1, EmbryoFacts DEF ForkPCs
<1>3. state[p] = "RUNNING"
    BY ZenonT(60), <1>1, OnCpu DEF Runs
<1>4. /\ state' = [state EXCEPT ![q] = "RUNNABLE"]
      /\ priority' = [priority EXCEPT ![q] = 0]
      /\ pc' = [pc EXCEPT ![p] = "ret"]
      /\ np' = [np EXCEPT ![p] = NULL]
      /\ UNCHANGED <<pid, parent, chan, killed, kstack, nextpid, lock, cproc, scan, back>>
    BY DEF fork_run, goto
<1> HIDE DEF q
<1> USE ProcAssumption DEF Procs, NULL
<1>5. TypeOK'
    BY SMTT(60), <1>2, <1>4 DEF TableInv, TypeOK, States, PCs
<1>6. OneCpuEach'
    BY SMTT(60), <1>2, <1>4 DEF TableInv, TypeOK, OneCpuEach
<1>7. (LockHandover /\ PidsFresh)'
    BY SMTT(60), <1>4 DEF TableInv, LockHandover, PidsFresh
<1>8. (OffCpu /\ StackOwned)'
    BY SMTT(60), <1>2, <1>4 DEF TableInv, TypeOK, OffCpu, StackOwned
<1>9. ForkOwns'
    BY SMTT(60), <1>1, <1>2, <1>3, <1>4 DEF TableInv, TypeOK, ForkOwns, Owns
<1>10. (ParentAlive /\ NoOrphan)'
    BY SMTT(60), <1>2, <1>3, <1>4 DEF TableInv, TypeOK, ParentAlive, NoOrphan, Started
<1>11. NoLostWait'
    BY SMTT(60), <1>2, <1>4, WaitFrame DEF TableInv, TypeOK
<1> QED BY SMTT(60), <1>5, <1>6, <1>7, <1>8, <1>9, <1>10, <1>11 DEF TableInv

(***************************************************************************)
(* What the inner loop of scheduler() has found stays true                 *)
(***************************************************************************)
\* While nobody holds ptable.lock, or a process does that has returned from
\* sched() and not released it, no CPU is in the inner loop.
LEMMA NobodyScans ==
    ASSUME Scanned, UNCHANGED scan,
           lock \notin Cpus \/ (lock \in Cpus /\ cproc[lock] # NULL)
    PROVE  Scanned'
BY DEF Scanned

\* Whoever does not hold ptable.lock leaves it alone, makes nobody RUNNABLE or
\* not RUNNABLE, and changes no priority of a RUNNABLE process.
LEMMA ScanUndisturbed ==
    ASSUME Scanned, UNCHANGED <<scan, lock, cproc>>,
           \A r \in Procs : state'[r] = "RUNNABLE" <=> state[r] = "RUNNABLE",
           \A r \in Procs : state[r] = "RUNNABLE" => priority'[r] = priority[r]
    PROVE  Scanned'
BY DEF Scanned, Runnable

\* The steps of scheduler() itself: each round of the inner loop takes one more
\* slot into account.
LEMMA Scanned_scheduler ==
    ASSUME IInv, NEW c \in Cpus, scheduler(c)
    PROVE  Scanned'
<1> USE ProcAssumption DEF NULL, Procs
<1>1. TypeOK /\ Scanned
    BY DEF IInv, TableInv
<1>2. CASE sched_acquire(c)
    BY <1>1, <1>2 DEF sched_acquire, TypeOK, Scanned, OuterLoop, Outside
<1>3. CASE sched_found(c)
    BY <1>1, <1>3 DEF sched_found, TypeOK, Scanned, Runnable
<1>4. CASE sched_compare(c)
    <2> DEFINE high == scan[c].highP
               p1   == scan[c].p1
               best == IF p1 \in Runnable /\ priority[high] > priority[p1] THEN p1 ELSE high
    <2>1. /\ high \in Runnable /\ cproc[c] = NULL /\ lock = c
          /\ \A r \in Runnable : r < p1 => priority[high] <= priority[r]
        BY <1>1, <1>4 DEF sched_compare, Scanned
    <2>2. best \in Runnable /\ \A r \in Runnable : r < p1 + 1 => priority[best] <= priority[r]
        <3>1. \A r \in Procs : priority[r] \in Int
            <4>1. \A n \in Prios \cup {0} : n \in Int
                OBVIOUS
            <4>2. \A r \in Procs : priority[r] \in Prios \cup {0}
                BY <1>1 DEF TypeOK
            <4> QED BY ZenonT(60), <4>1, <4>2
        <3>2. p1 \in Int
            BY <1>1 DEF TypeOK
        <3> QED BY <2>1, <3>1, <3>2 DEF Runnable
    <2>3. scan' = [scan EXCEPT ![c] = [p |-> scan[c].p, highP |-> best, p1 |-> p1 + 1]]
        BY <1>4 DEF sched_compare
    <2>4. UNCHANGED <<state, priority, cproc, lock>>
        BY <1>4 DEF sched_compare
    <2>5. /\ scan'[c] = [p |-> scan[c].p, highP |-> best, p1 |-> p1 + 1]
          /\ \A d \in Cpus : d # c => scan'[d] = scan[d]
        BY <1>1, <2>3 DEF TypeOK
    <2> HIDE DEF best, p1, high
    <2>6. \A d \in Cpus : d # c => scan'[d].highP = NULL
        BY <1>1, <2>1, <2>5 DEF Scanned
    <2>7. scan'[c].highP = best /\ scan'[c].p1 = p1 + 1
        BY <2>5
    <2> QED BY <2>1, <2>2, <2>4, <2>6, <2>7 DEF Scanned, Runnable
<1>5. CASE sched_swtch(c)
    BY <1>1, <1>5 DEF sched_swtch, TypeOK, Scanned, OuterLoop, Outside
<1>6. CASE sched_release(c)
    BY <1>1, <1>6 DEF sched_release, TypeOK, Scanned, Outside
<1> QED BY <1>2, <1>3, <1>4, <1>5, <1>6 DEF scheduler

\* The steps of processes: exec() resets the priority of a process that is
\* RUNNING, and a fork() that fails gives up a slot that is an EMBRYO.
LEMMA Scanned_process ==
    ASSUME IInv, NEW c \in Cpus, NEW p \in Procs, trap(c, p) \/ resume(c, p) \/ syscall(c, p)
    PROVE  Scanned'
<1> USE ProcAssumption DEF NULL
<1>1. TableInv /\ TypeOK /\ Scanned /\ p # NULL
    BY DEF IInv, TableInv, Procs
<1>2. CASE trap_entry(c, p) \/ trap_return(c, p) \/ trap_fault(c, p) \/ sys_sleep(c, p)
    BY <1>1, <1>2, ScanUndisturbed DEF trap_entry, trap_return, trap_fault, sys_sleep
<1>3. CASE yield(c, p) \/ sleep_ticks(c, p) \/ exit(c, p) \/ kill(c, p) \/ nice(c, p)
    BY <1>1, <1>3, NobodyScans DEF yield, sleep_ticks, exit, kill, nice
<1>4. CASE resume(c, p)
    BY <1>1, <1>4, NobodyScans DEF resume
<1>5. CASE wait(c, p)
    BY <1>1, <1>5, NobodyScans DEF wait, wait_reap, wait_fail, wait_sleep, WaitScans
<1>6. CASE allocproc(c, p) \/ fork_run(c, p)
    BY <1>1, <1>6, NobodyScans DEF allocproc, fork_run
<1>7. CASE alloc_kstack(c, p) \/ fork_copy(c, p)
    <2>1. np[p] \in Procs /\ state[np[p]] = "EMBRYO"
        BY <1>1, <1>7, EmbryoFacts DEF alloc_kstack, fork_copy, ForkPCs
    <2>2. \A r \in Procs : state'[r] = "RUNNABLE" <=> state[r] = "RUNNABLE"
        BY <1>1, <1>7, <2>1 DEF alloc_kstack, fork_copy, TypeOK
    <2> QED BY <1>1, <1>7, <2>2, ScanUndisturbed DEF alloc_kstack, fork_copy
<1>8. CASE exec(c, p)
    <2>1. state[p] = "RUNNING"
        BY <1>1, <1>8, OnCpu DEF exec, Runs
    <2>2. \A r \in Procs : state[r] = "RUNNABLE" => priority'[r] = priority[r]
        BY <1>1, <1>8, <2>1 DEF exec, TypeOK
    <2> QED BY <1>1, <1>8, <2>2, ScanUndisturbed DEF exec
<1> QED BY <1>2, <1>3, <1>4, <1>5, <1>6, <1>7, <1>8 DEF trap, syscall, fork

(***************************************************************************)
(* The theorems                                                            *)
(***************************************************************************)
\* userinit() establishes the invariant.
LEMMA InitIInv == Init => IInv
<1> SUFFICES ASSUME Init PROVE IInv
    OBVIOUS
<1> USE ProcAssumption DEF Init, userinit, NULL, Procs, initproc
<1>1. TypeOK
    BY SMTT(60) DEF TypeOK, States, PCs, Chans, Outside
<1>2. OneCpuEach /\ LockHandover /\ Scanned
    BY DEF OneCpuEach, LockHandover, Scanned, Outside
<1>3. OffCpu /\ StackOwned
    BY ZenonT(60) DEF OffCpu, StackOwned
<1>4. ForkOwns
    BY SMTT(60) DEF ForkOwns, Owns
<1>5. ParentAlive /\ NoOrphan /\ NoLostWait /\ PidsFresh
    BY DEF ParentAlive, Started, NoOrphan, NoLostWait, PidsFresh
<1> QED BY <1>1, <1>2, <1>3, <1>4, <1>5 DEF IInv, TableInv

\* Every step of every CPU keeps the table's part of it.
LEMMA NextTable ==
    ASSUME IInv, [Next]_vars
    PROVE  TableInv'
<1>0. TableInv /\ Scanned
    BY DEF IInv
<1>1. CASE UNCHANGED vars
    BY <1>1, <1>0, QuietStep DEF vars, TableInv, TypeOK
<1>2. CASE timer_tick
    BY <1>0, <1>2, Step_timer_tick
<1>3. ASSUME NEW c \in Cpus, scheduler(c) \/ exit_init(c) PROVE TableInv'
    BY <1>0, <1>3, Step_sched_acquire, Step_sched_found, Step_sched_compare, Step_sched_swtch,
       Step_sched_release, Step_exit_init
       DEF scheduler
<1>4. ASSUME NEW c \in Cpus, NEW p \in Procs, trap(c, p) \/ resume(c, p) PROVE TableInv'
    BY SMTT(60), <1>0, <1>4, Step_trap_entry, Step_trap_return, Step_trap_fault, Step_yield, Step_resume
       DEF trap
<1>5. ASSUME NEW c \in Cpus, NEW p \in Procs, syscall(c, p) PROVE TableInv'
    <2>1. CASE fork(c, p)
        BY <1>0, <2>1, Step_allocproc, Step_alloc_kstack, Step_fork_copy, Step_fork_run DEF fork
    <2>2. CASE exit(c, p)
        BY <1>0, <2>2, Step_exit
    <2>3. CASE wait(c, p)
        BY <1>0, <2>3, Step_wait_reap, Step_wait_fail, Step_wait_sleep DEF wait
    <2>4. CASE sys_sleep(c, p) \/ sleep_ticks(c, p)
        BY <1>0, <2>4, Step_sys_sleep, Step_sleep_ticks
    <2>5. CASE kill(c, p) \/ nice(c, p) \/ exec(c, p)
        BY <1>0, <2>5, Step_kill, Step_nice, Step_exec
    <2> QED BY <1>5, <2>1, <2>2, <2>3, <2>4, <2>5 DEF syscall
<1> QED BY <1>1, <1>2, <1>3, <1>4, <1>5 DEF Next, panic_loop

\* And none disturbs a CPU in the inner loop of scheduler().
LEMMA NextScanned ==
    ASSUME IInv, [Next]_vars
    PROVE  Scanned'
<1>1. Scanned /\ NoCpu \notin Cpus
    BY ProcAssumption DEF IInv
<1>2. CASE UNCHANGED vars
    BY <1>1, <1>2, ScanUndisturbed DEF vars
<1>3. CASE timer_tick
    BY <1>1, <1>3, NobodyScans DEF timer_tick
<1>4. ASSUME NEW c \in Cpus, exit_init(c) PROVE Scanned'
    BY <1>1, <1>4, ScanUndisturbed DEF exit_init
<1> QED BY <1>2, <1>3, <1>4, Scanned_scheduler, Scanned_process DEF Next, panic_loop

\* Every step keeps the invariant.
LEMMA NextIInv == IInv /\ [Next]_vars => IInv'
BY NextTable, NextScanned DEF IInv

\* The inductive invariant holds in every reachable state.
THEOREM Invariance == Spec => []IInv
BY InitIInv, NextIInv, PTL DEF Spec

\* proc.c keeps its tables typed: in particular fork() never hands out a pid
\* outside 1..MaxPid and scheduler() never scans past the table's end.
THEOREM TypeCorrect == Spec => []TypeOK
<1>1. IInv => TypeOK
    BY DEF IInv, TableInv
<1> QED BY <1>1, Invariance, PTL

\* Whatever the number of CPUs and processes, scheduler() and sched() never let
\* two CPUs execute one process.
THEOREM MutualExclusion == Spec => []OneCpuEach
<1>1. IInv => OneCpuEach
    BY DEF IInv, TableInv
<1> QED BY <1>1, Invariance, PTL

\* wait() and the failure paths of fork() never free a kernel stack that is in
\* use or to be returned to, and leave none behind in a free slot.
THEOREM StacksOwned == Spec => []StackOwned
<1>1. IInv => StackOwned
    BY DEF IInv, TableInv
<1> QED BY <1>1, Invariance, PTL

\* exit() and kill() never miss a process that is asleep in wait().
THEOREM NoWaitLost == Spec => []NoLostWait
<1>1. IInv => NoLostWait
    BY DEF IInv, TableInv
<1> QED BY <1>1, Invariance, PTL

\* exit() leaves no process without a parent that can reap it.
THEOREM NoOrphans == Spec => []NoOrphan
<1>1. IInv => NoOrphan
    BY DEF IInv, TableInv
<1> QED BY <1>1, Invariance, PTL

\* allocproc() gives no pid twice while the first holder is in the table.
THEOREM UniquePids == Spec => []PidsUnique
<1>1. IInv => PidsUnique
    BY SMTT(60) DEF IInv, TableInv, PidsFresh, PidsUnique
<1> QED BY <1>1, Invariance, PTL

\* A CPU leaves scheduler() only through sched_swtch.
LEMMA OnlySwtch ==
    ASSUME TypeOK, Next, NEW c \in Cpus, cproc[c] = NULL, cproc'[c] # NULL
    PROVE  sched_swtch(c)
<1> USE DEF TypeOK, NULL
<1>1. CASE UNCHANGED cproc
    BY <1>1
<1>2. ASSUME NEW d \in Cpus, sched_swtch(d) PROVE sched_swtch(c)
    BY ZenonT(60), <1>2 DEF sched_swtch
<1>3. ASSUME NEW d \in Cpus, NEW p \in Procs, NEW why, sched(d, p, why) PROVE FALSE
    BY SMTT(60), <1>3 DEF sched
<1>4. CASE timer_tick \/ panic_loop
    BY SMTT(60), <1>4 DEF timer_tick, panic_loop, vars
<1>5. ASSUME NEW d \in Cpus, scheduler(d) \/ exit_init(d) PROVE sched_swtch(c)
    BY SMTT(60), <1>2, <1>5 DEF scheduler, sched_acquire, sched_found, sched_compare,
       sched_release, exit_init
<1>6. ASSUME NEW d \in Cpus, NEW p \in Procs, trap(d, p) \/ resume(d, p) PROVE FALSE
    BY SMTT(60), <1>3, <1>6 DEF trap, trap_entry, trap_return, trap_fault, yield, resume
<1>7. ASSUME NEW d \in Cpus, NEW p \in Procs, syscall(d, p) PROVE FALSE
    <2>1. CASE fork(d, p)
        BY SMTT(60), <2>1 DEF fork, allocproc, alloc_kstack, fork_copy, fork_run
    <2>2. CASE exit(d, p) \/ wait(d, p)
        BY SMTT(60), <1>3, <2>2 DEF exit, wait, wait_reap, wait_fail, wait_sleep
    <2>3. CASE sys_sleep(d, p) \/ sleep_ticks(d, p)
        BY SMTT(60), <1>3, <2>3 DEF sys_sleep, sleep_ticks
    <2>4. CASE kill(d, p) \/ nice(d, p) \/ exec(d, p)
        BY <2>4 DEF kill, nice, exec
    <2> QED BY SMTT(60), <1>7, <2>1, <2>2, <2>3, <2>4 DEF syscall
<1> QED BY <1>4, <1>5, <1>6, <1>7 DEF Next

\* The double loop of scheduler() finds the smallest priority number among all
\* RUNNABLE processes, wherever its scan stood when it took the lock: at the end
\* of the inner loop Scanned speaks of the whole table, and it has stayed true
\* through what the other CPUs did meanwhile without ptable.lock.
THEOREM PriorityRespected == Spec => PriorityOrder
<1>1. ASSUME IInv, [Next]_vars
      PROVE  [\A c \in Cpus : cproc[c] = NULL /\ cproc'[c] # NULL =>
                \A r \in Runnable : priority[cproc'[c]] <= priority[r]]_vars
    <2>1. ASSUME Next, NEW c \in Cpus, cproc[c] = NULL, cproc'[c] # NULL, NEW r \in Runnable
          PROVE  priority[cproc'[c]] <= priority[r]
        <3>1. TypeOK /\ Scanned
            BY <1>1 DEF IInv, TableInv
        <3>2. sched_swtch(c)
            BY <2>1, <3>1, OnlySwtch
        <3>3. cproc'[c] = scan[c].highP /\ scan[c].highP # NULL /\ scan[c].p1 > NPROC
            BY <3>1, <3>2 DEF sched_swtch, TypeOK
        <3>4. r < scan[c].p1
            BY <2>1, <3>1, <3>3, ProcAssumption DEF Runnable, Procs, TypeOK
        <3> QED BY <2>1, <3>1, <3>3, <3>4 DEF Scanned
    <2> QED BY SMTT(60), <1>1, <2>1
<1> QED BY <1>1, Invariance, PTL DEF Spec, PriorityOrder
=============================================================================
