----------------------------- MODULE LogProofs ------------------------------
(***************************************************************************)
(* Proofs about the log, for every number of processes, blocks and slots   *)
(* and wherever the power fails: LInv is kept by the rest of commit(), by  *)
(* crashes and by the recovery too, so it is inductive, and the safety     *)
(* properties and the refinement of Transactions follow from it.           *)
(***************************************************************************)
EXTENDS LogSteps

\* A round of install_trans() keeps the invariant, in commit() and in
\* recover_from_log(): the block reaches its home, and is not dirty any more.
LEMMA InstallTransStep ==
    ASSUME LInv, install_trans
    PROVE  LInv'
<1> USE DEF install_trans
<1> DEFINE b == lh.block[tail]
<1>1. /\ tail \in 1..lh.n /\ lh.n \in 0..LOGSIZE /\ LOGSIZE \in Nat /\ tail \in Slots
      /\ Active = {} /\ b \in Blocks /\ dlog[tail] \in Data
    <2>1. tail \in 1..lh.n /\ lh.n \in 0..LOGSIZE /\ LOGSIZE \in Nat /\ Active = {}
        BY LogAssumption DEF LInv, TypeOK, Control, logheader, Active
    <2>2. tail \in Slots
        BY <2>1 DEF Slots
    <2> QED BY <2>1, <2>2 DEF LInv, TypeOK, Headers, HeaderSound
<1>2. phase' \in {"install_trans", "clear"} /\ (phase' = "install_trans" <=> tail # lh.n)
    BY DEF LastRound
<1>3. Active' = Active
    BY DEF Active
<1>4. TypeOK'
    <2>1. tail' \in 1..LOGSIZE + 1
        BY <1>1
    <2> QED BY <1>1, <1>2, <2>1 DEF LInv, TypeOK, Phases
<1>5. Control'
    BY <1>1, <1>2, <1>3, SMTT(60) DEF LInv, Control
<1>6. Writing'
    BY <1>1, <1>3, LogAssumption DEF LInv, TypeOK, Writing, Logged
<1>7. Headers'
    BY <1>2 DEF LInv, Headers, HeaderSound
<1>8. Uninstalled' = Uninstalled \ {tail}
    BY <1>1, <1>2 DEF Uninstalled
<1>9. \A i \in 1..lh.n : i # tail => lh.block[i] # b
    BY <1>1 DEF LInv, Headers, HeaderSound
<1>10. Buffers'
    <2>1. Uninstalled \subseteq 1..lh.n
        BY <1>1, SMTT(60) DEF Uninstalled
    <2>2. dirty' = {lh'.block[i] : i \in Uninstalled'}
        BY <1>8, <1>9, <2>1 DEF LInv, Buffers
    <2>3. \A c \in dirty' : cache'[c] # NotCached
        BY <1>1, SMTT(60) DEF LInv, TypeOK, Buffers
    <2>4. ASSUME NEW c \in Blocks, c \notin dirty', \A q \in Procs : wb'[q] # c
          PROVE  cache'[c] \in {NotCached, home'[c]}
        BY <1>1, <2>4 DEF LInv, TypeOK, Buffers
    <2> QED BY <2>2, <2>3, <2>4 DEF Buffers
<1>11. Copies'
    <2>1. ASSUME committing, NEW i \in Uninstalled' PROVE dlog'[i] = cache'[lh'.block[i]]
        <3>1. i \in 1..lh.n /\ i # tail /\ i \in Uninstalled
            BY <1>1, <1>8, <2>1, SMTT(60) DEF Uninstalled
        <3>2. dlog[i] = cache[lh.block[i]]
            BY <2>1, <3>1 DEF LInv, Copies
        <3>3. lh.block[i] # b
            BY <1>9, <3>1
        <3> QED BY <3>2, <3>3, <3>1, <1>1 DEF LInv, TypeOK, Headers, HeaderSound
    <2>2. ASSUME NEW i \in 1..tail PROVE home'[lh'.block[i]] = dlog'[i]
        <3>1. CASE i = tail
            BY <1>1, <3>1, SMTT(60) DEF LInv, TypeOK
        <3>2. CASE i # tail
            <4>1. i \in 1..tail - 1 /\ i \in 1..lh.n
                BY <1>1, <2>2, <3>2, SMTT(60)
            <4>2. home[lh.block[i]] = dlog[i] /\ lh.block[i] # b
                BY <1>9, <3>2, <4>1 DEF LInv, Copies
            <4> QED BY <4>1, <4>2 DEF LInv, TypeOK, Headers, HeaderSound
        <3> QED BY <3>1, <3>2
    <2> QED BY <1>1, <1>2, <2>1, <2>2, SMTT(60) DEF Copies
<1>12. Tickets' = Tickets
    BY <1>3 DEF Tickets
<1>13. Reserved' /\ NoLostWakeup'
    BY <1>12 DEF LInv, Reserved, NoLostWakeup, MustWait
<1> QED BY <1>4, <1>5, <1>6, <1>7, <1>10, <1>11, <1>13, SMTT(60) DEF LInv

\* Without active system calls nothing is reserved.
LEMMA NothingReserved ==
    ASSUME LInv, Active' = {}, lh' \in logheader
    PROVE  Reserved'
<1>1. Tickets' = {}
    BY DEF Tickets
<1>2. Cardinality(Tickets') = 0
    BY <1>1, FS_EmptySet
<1> QED BY <1>2, LogAssumption DEF Reserved, logheader

\* Clearing the header keeps the invariant: every block is at its home.
LEMMA ClearStep ==
    ASSUME LInv, clear
    PROVE  LInv'
<1> USE DEF clear
<1>1. /\ Active' = {} /\ Active = {} /\ Uninstalled = {} /\ LOGSIZE \in Nat
      /\ ~committing => \A p \in Procs : pc[p] = "idle"
    BY LogAssumption DEF LInv, Control, Active, Uninstalled
<1>2. lh' \in logheader /\ lh'.n = 0 /\ dhead' \in logheader /\ dhead'.n = 0
    BY <1>1 DEF LInv, TypeOK, logheader, Header
<1>3. TypeOK'
    BY <1>2 DEF LInv, TypeOK, Phases
<1>4. Control'
    BY <1>1, <1>2 DEF LInv, Control
<1>5. Writing'
    BY <1>1 DEF LInv, Writing
<1>6. Headers'
    BY <1>2 DEF Headers, HeaderSound
<1>7. Uninstalled' = {}
    BY <1>2 DEF Uninstalled
<1>8. Buffers'
    BY <1>1, <1>7 DEF LInv, Buffers
<1>9. Copies'
    BY DEF Copies
<1>10. Reserved'
    BY <1>1, <1>2, NothingReserved
<1>11. NoLostWakeup'
    BY <1>1, SMTT(60) DEF LInv, NoLostWakeup, MustWait
<1> QED BY <1>3, <1>4, <1>5, <1>6, <1>8, <1>9, <1>10, <1>11 DEF LInv

\* The start of the recovery keeps the invariant: log.lh is the header on the disk.
LEMMA ReadHeadStep ==
    ASSUME LInv, read_head
    PROVE  LInv'
<1> USE DEF read_head
<1>1. /\ Active' = {} /\ ~committing /\ Uninstalled = {} /\ LOGSIZE \in Nat
      /\ \A p \in Procs : pc[p] = "idle"
    BY LogAssumption, SMTT(60) DEF LInv, Control, Active, Uninstalled
<1>2. dhead.n \in 0..LOGSIZE /\ dhead.block \in [Slots -> Blocks \cup {NoBlock}]
    BY DEF LInv, TypeOK, logheader
<1>3. /\ lh' \in logheader /\ lh'.n = dhead.n
      /\ \A i \in 1..dhead.n : lh'.block[i] = dhead.block[i]
    BY <1>1, <1>2, SMTT(60) DEF LInv, TypeOK, logheader, Slots
<1>4. TypeOK'
    BY <1>1, <1>3 DEF LInv, TypeOK, Phases
<1>5. Control'
    <2>1. dhead.n = 0 => lh'.n = 0 /\ phase' = "clear"
        BY <1>3
    <2>2. dhead.n > 0 => 1 \in 1..lh'.n /\ phase' = "install_trans"
        BY <1>2, <1>3
    <2>3. outstanding' = Cardinality(Active')
        BY DEF LInv, Control, Active
    <2>4. phase' \in {"clear", "install_trans"} /\ (phase' = "install_trans" => 1 \in 1..lh'.n)
        BY <1>2, <2>1, <2>2, SMTT(60)
    <2> QED BY <1>1, <2>3, <2>4 DEF Control
<1>6. Writing'
    BY <1>1 DEF LInv, Writing
<1>7. Headers'
    BY <1>3, SMTT(60) DEF LInv, Headers, HeaderSound
<1>8. Uninstalled' = {}
    BY <1>1 DEF Uninstalled
<1>9. Buffers'
    BY <1>1, <1>8, SMTT(60) DEF LInv, Buffers
<1>10. Copies'
    BY <1>1, <1>2, <1>3 DEF Copies
<1>11. Reserved'
    BY <1>1, <1>3, NothingReserved
<1>12. NoLostWakeup'
    BY <1>1 DEF NoLostWakeup
<1> QED BY <1>4, <1>5, <1>6, <1>7, <1>9, <1>10, <1>11, <1>12 DEF LInv

\* A crash keeps the invariant: nothing is left but the disk.
LEMMA CrashStep ==
    ASSUME LInv, crash
    PROVE  LInv'
<1> USE DEF crash, Booting, disks
<1>0. LOGSIZE \in Nat /\ NoBlock \notin Blocks
    BY LogAssumption
<1>1. Active' = {} /\ Uninstalled' = {} /\ Cardinality(Active') = 0
    <2>1. Active' = {}
        BY DEF Active
    <2> QED BY <2>1, FS_EmptySet DEF Uninstalled
<1>2. lh' \in logheader /\ lh'.n = 0
    BY <1>0 DEF zeroed, logheader
<1>3. TypeOK'
    <2>1. home' \in [Blocks -> Data] /\ dlog' \in [Slots -> Data] /\ dhead' \in logheader
        BY DEF LInv, TypeOK
    <2>2. cache' \in [Blocks -> Data \cup {NotCached}] /\ wb' \in [Procs -> Blocks \cup {NoBlock}]
        OBVIOUS
    <2>3. tail' \in 1..LOGSIZE + 1 /\ outstanding' \in Nat /\ crashes' \in Nat
        BY <1>0 DEF LInv, TypeOK
    <2>4. wrote' \in [Procs -> SUBSET Blocks] /\ phase' \in Phases
        BY DEF Phases
    <2> QED BY <1>2, <2>1, <2>2, <2>3, <2>4, ZenonT(60) DEF TypeOK
<1>4. Control'
    BY <1>1 DEF Control
<1>5. Writing'
    BY <1>0, <1>1 DEF Writing
<1>6. Headers'
    BY <1>2 DEF LInv, Headers, HeaderSound
<1>7. Buffers'
    BY <1>1 DEF Buffers
<1>8. Copies'
    BY DEF Copies
<1>9. Reserved'
    BY <1>1, <1>2, NothingReserved
<1>10. NoLostWakeup'
    BY DEF NoLostWakeup
<1> QED BY <1>3, <1>4, <1>5, <1>6, <1>7, <1>8, <1>9, <1>10 DEF LInv

(***************************************************************************)
(* The invariant and the properties                                        *)
(***************************************************************************)
\* A disk made by mkfs, just booted, satisfies the invariant.
LEMMA InitLInv ==
    ASSUME Init
    PROVE  LInv
<1> USE DEF Init
<1>0. LOGSIZE \in Nat /\ NoBlock \notin Blocks
    BY LogAssumption
<1>1. Active = {} /\ Uninstalled = {} /\ Cardinality(Active) = 0
    <2>1. Active = {}
        BY DEF Active
    <2> QED BY <2>1, FS_EmptySet DEF Uninstalled
<1>2. lh \in logheader /\ lh.n = 0 /\ dhead = lh
    BY <1>0 DEF zeroed, logheader
<1>3. TypeOK
    <2>1. home \in [Blocks -> Data] /\ dlog \in [Slots -> Data]
        OBVIOUS
    <2>2. cache \in [Blocks -> Data \cup {NotCached}] /\ wb \in [Procs -> Blocks \cup {NoBlock}]
        OBVIOUS
    <2>3. tail \in 1..LOGSIZE + 1
        BY <1>0
    <2>4. wrote \in [Procs -> SUBSET Blocks] /\ phase \in Phases
        BY DEF Phases
    <2> QED BY <1>2, <2>1, <2>2, <2>3, <2>4, ZenonT(60) DEF TypeOK
<1>4. Control
    BY <1>1 DEF Control
<1>5. Writing
    BY <1>0, <1>1 DEF Writing
<1>6. Headers
    BY <1>2 DEF Headers, HeaderSound
<1>7. Buffers
    BY <1>1 DEF Buffers
<1>8. Copies
    BY DEF Copies
<1>9. Tickets = {}
    BY <1>1 DEF Tickets
<1>10. Reserved
    BY <1>0, <1>2, <1>9, FS_EmptySet DEF Reserved
<1>11. NoLostWakeup
    BY DEF NoLostWakeup
<1> QED BY <1>3, <1>4, <1>5, <1>6, <1>7, <1>8, <1>10, <1>11 DEF LInv

\* Every step of the log, of its users and of its recovery keeps LInv.
LEMMA NextLInv ==
    ASSUME LInv, [Next]_vars
    PROVE  LInv'
<1>1. CASE UNCHANGED vars
    <2>1. Control' /\ Reserved' /\ NoLostWakeup'
        BY <1>1, SameCounts DEF vars
    <2>2. Headers' /\ Buffers' /\ Copies'
        BY <1>1, SameStore, SMTT(60) DEF vars
    <2>3. TypeOK' /\ Writing'
        BY <1>1 DEF vars, LInv, TypeOK, Writing, Active, Logged
    <2> QED BY <2>1, <2>2, <2>3 DEF LInv
<1>2. ASSUME NEW p \in Procs, begin_op(p) \/ end_op(p) \/ finish(p) \/ log_write(p)
      PROVE  LInv'
    BY <1>2, BeginOpStep, EndOpStep, FinishStep, LogWriteStep
<1>3. ASSUME NEW p \in Procs, NEW b \in Blocks, NEW v \in Data, modify(p, b, v)
      PROVE  LInv'
    BY <1>3, ModifyStep
<1>4. ASSUME NEW b \in Blocks, bread(b) \/ bget_recycle(b)
      PROVE  LInv'
    BY <1>4, BreadStep, RecycleStep
<1>5. CASE commit \/ read_head \/ crash
    BY <1>5, WriteLogStep, WriteHeadStep, InstallTransStep, ClearStep, ReadHeadStep,
       CrashStep DEF commit
<1> QED BY <1>1, <1>2, <1>3, <1>4, <1>5 DEF Next

\* LInv holds in every reachable state of the log.
THEOREM LogInvariance == Spec => []LInv
<1>1. Init => LInv
    BY InitLInv
<1>2. LInv /\ [Next]_vars => LInv'
    BY NextLInv
<1> QED BY <1>1, <1>2, PTL DEF Spec

\* begin_op() reserves enough: the transaction always fits into logheader.block,
\* so log_write() never records a block beyond it.
THEOREM ReservedAlways == Spec => []Reserved
<1>1. LInv => Reserved
    BY SMTT(60) DEF LInv
<1> QED BY <1>1, LogInvariance, PTL

\* Who sleeps in begin_op() has to wait and will be woken up.
THEOREM BeginOpWoken == Spec => []NoLostWakeup
<1>1. LInv => NoLostWakeup
    BY DEF LInv
<1> QED BY <1>1, LogInvariance, PTL

\* With an empty header on the disk the recovery changes nothing.
LEMMA RecoveredEmpty ==
    ASSUME LInv, dhead.n = 0
    PROVE  Recovered = home
BY DEF LInv, TypeOK, Recovered

\* When the last end_op() has returned, every update is on the disk.
THEOREM DurableAlways == Spec => []Durable
<1>1. ASSUME LInv PROVE Durable
    <2> SUFFICES ASSUME phase = "run", outstanding = 0
                 PROVE  Recovered = Visible
        BY DEF Durable
    <2>1. Active = {}
        BY <1>1, FiniteSystemCalls, FS_EmptySet, SMTT(60) DEF LInv, Control
    <2>2. lh.n = 0 /\ dhead.n = 0
        BY <1>1, <2>1 DEF LInv, Control, Headers
    <2>3. dirty = {}
        BY <1>1, <2>2, SMTT(60) DEF LInv, Buffers, Uninstalled
    <2>4. \A b \in Blocks, p \in Procs : wb[p] # b
        BY <1>1, <2>1 DEF LInv, Writing, Active
    <2>5. \A b \in Blocks : Contents(b) = home[b]
        BY <1>1, <2>3, <2>4 DEF LInv, Buffers, Contents
    <2>6. Visible = home
        BY <1>1, <2>5 DEF Visible, Running, LInv, TypeOK
    <2> QED BY <1>1, <2>2, <2>6, RecoveredEmpty
<1> QED BY <1>1, LogInvariance, PTL

(***************************************************************************)
(* The log implements Transactions: a system call sees its own writes,     *)
(* they become durable together at the write of the header, and a crash at *)
(* any step leaves all of a transaction or none of it.                     *)
(***************************************************************************)
\* What the recovery makes of a block, before a step and after it.
LEMMA RecoveredBlock ==
    ASSUME LInv, NEW b \in Blocks
    PROVE  /\ (\A i \in 1..dhead.n : dhead.block[i] # b) => Recovered[b] = home[b]
           /\ \A i \in 1..dhead.n : dhead.block[i] = b => Recovered[b] = dlog[i]
<1>1. ASSUME NEW i \in 1..dhead.n, dhead.block[i] = b PROVE Recovered[b] = dlog[i]
    <2>1. \A j \in 1..dhead.n : dhead.block[j] = b => j = i
        BY <1>1 DEF LInv, Headers, HeaderSound
    <2>2. (CHOOSE j \in 1..dhead.n : dhead.block[j] = b) = i
        BY <1>1, <2>1
    <2> QED BY <1>1, <2>2, ZenonT(60) DEF Recovered
<1> QED BY <1>1 DEF Recovered

\* The same of the state after a step.
LEMMA RecoveredBlockNext ==
    ASSUME LInv', NEW b \in Blocks
    PROVE  /\ (\A i \in 1..dhead'.n : dhead'.block[i] # b) => Recovered'[b] = home'[b]
           /\ \A i \in 1..dhead'.n : dhead'.block[i] = b => Recovered'[b] = dlog'[i]
<1>1. ASSUME NEW i \in 1..dhead'.n, dhead'.block[i] = b PROVE Recovered'[b] = dlog'[i]
    <2>1. \A j \in 1..dhead'.n : dhead'.block[j] = b => j = i
        BY <1>1 DEF LInv, Headers, HeaderSound
    <2>2. (CHOOSE j \in 1..dhead'.n : dhead'.block[j] = b) = i
        BY <1>1, <2>1
    <2> QED BY <1>1, <2>2, ZenonT(60) DEF Recovered
<1> QED BY <1>1 DEF Recovered

\* Recovered is a function on Blocks: it stays if every block stays.
LEMMA SameRecovered ==
    ASSUME \A b \in Blocks : Recovered'[b] = Recovered[b]
    PROVE  Recovered' = Recovered
<1>1. Recovered = [b \in Blocks |-> Recovered[b]]
    BY DEF Recovered
<1>2. Recovered' = [b \in Blocks |-> Recovered'[b]]
    BY DEF Recovered
<1> QED BY <1>1, <1>2, ZenonT(60)

\* Steps that touch neither the disk nor the contents of buffers.
LEMMA SameBlocks ==
    ASSUME UNCHANGED <<home, dlog, dhead, cache>>, Running' <=> Running
    PROVE  Recovered' = Recovered /\ Visible' = Visible
<1>1. Recovered' = Recovered
    BY DEF Recovered
<1>2. CASE Running
    <2>1. \A b \in Blocks : Contents(b)' = Contents(b)
        BY DEF Contents
    <2> QED BY <1>1, <1>2, <2>1 DEF Visible
<1>3. CASE ~Running
    BY <1>1, <1>3 DEF Visible
<1> QED BY <1>1, <1>2, <1>3

\* begin_op() is Begin when it goes on; log_write() and the end of a commit
\* change nothing that is visible.
LEMMA SystemCallRefines ==
    ASSUME LInv, NEW p \in Procs, begin_op(p) \/ end_op(p) \/ finish(p) \/ log_write(p)
    PROVE  T!Next \/ UNCHANGED T!vars
<1>1. UNCHANGED <<home, dlog, dhead, cache>>
    BY DEF begin_op, end_op, finish, log_write
<1>2. CASE begin_op(p)
    <2>1. Recovered' = Recovered /\ Visible' = Visible
        BY <1>1, <1>2, SameBlocks DEF begin_op, Running
    <2>2. Active' = Active \/ (p \notin Active /\ Active' = Active \cup {p})
        BY <1>2 DEF begin_op, Active, LInv, TypeOK
    <2> QED BY <2>1, <2>2 DEF T!Next, T!Begin, T!vars
<1>3. CASE end_op(p)
    <2>1. p \in Active
        BY <1>3 DEF end_op, Active
    <2>2. ~committing /\ phase = "run"
        BY <2>1, ActiveRuns
    <2>3. Running /\ Running'
        BY <1>3, <2>2 DEF end_op, Running
    <2>4. Active' = Active \ {p}
        BY <1>3, <2>2 DEF end_op, Active, LInv, TypeOK, wakeup
    <2> QED BY <1>1, <2>1, <2>3, <2>4, SameBlocks DEF T!Next, T!End, T!vars
<1>4. CASE finish(p)
    <2>1. Running /\ Running'
        BY <1>4 DEF finish, Running
    <2>2. Active' = Active
        BY <1>4 DEF finish, Active, LInv, TypeOK, wakeup
    <2> QED BY <1>1, <2>1, <2>2, SameBlocks DEF T!vars
<1>5. CASE log_write(p)
    <2>1. Running' <=> Running
        BY <1>5 DEF log_write, Running
    <2>2. Active' = Active
        BY <1>5 DEF log_write, Active, LInv, TypeOK
    <2> QED BY <1>1, <2>1, <2>2, SameBlocks DEF T!vars
<1> QED BY <1>2, <1>3, <1>4, <1>5

\* A system call that changes a buffer writes the block, in memory only.
LEMMA ModifyRefines ==
    ASSUME LInv, NEW p \in Procs, NEW b \in Blocks, NEW v \in Data, modify(p, b, v)
    PROVE  T!Next
<1> USE DEF modify
<1>1. p \in Active /\ Active' = Active
    BY DEF Active, LInv, TypeOK
<1>2. Running /\ Running'
    BY <1>1, ActiveRuns DEF Running
<1>3. Recovered' = Recovered
    BY DEF Recovered
<1>4. ASSUME NEW c \in Blocks PROVE Contents(c)' = IF c = b THEN v ELSE Contents(c)
    BY LogAssumption DEF Contents, LInv, TypeOK
<1>5. Visible' = [Visible EXCEPT ![b] = v]
    BY <1>2, <1>4, ZenonT(60) DEF Visible
<1>6. T!Write(p, b, v)
    BY <1>1, <1>3, <1>5 DEF T!Write
<1> QED BY <1>6 DEF T!Next

\* Reading a block and recycling its buffer change nothing.
LEMMA BufferRefines ==
    ASSUME LInv, NEW b \in Blocks, bread(b) \/ bget_recycle(b)
    PROVE  UNCHANGED T!vars
<1>0. NotCached \notin Data
    BY LogAssumption
<1>1. Active' = Active /\ Recovered' = Recovered /\ (Running' <=> Running)
    <2>1. UNCHANGED <<home, dlog, dhead, pc, phase, committing>>
        BY DEF bread, bget_recycle
    <2>2. Active' = Active /\ (Running' <=> Running)
        BY <2>1 DEF Active, Running
    <2>3. Recovered' = Recovered
        BY <2>1 DEF Recovered
    <2> QED BY <2>2, <2>3
<1>2. ASSUME NEW c \in Blocks PROVE Contents(c)' = Contents(c)
    <2>1. CASE bread(b)
        BY <1>0, <2>1, SMTT(60) DEF bread, Contents, LInv, TypeOK
    <2>2. CASE bget_recycle(b)
        <3>1. cache[b] = home[b]
            BY <2>2, ZenonT(60) DEF bget_recycle, LInv, Buffers
        <3> QED BY <1>0, <2>2, <3>1 DEF bget_recycle, Contents, LInv, TypeOK
    <2> QED BY <2>1, <2>2
<1>3. Visible' = Visible
    BY <1>1, <1>2 DEF Visible
<1> QED BY <1>1, <1>3 DEF T!vars

\* write_log() changes neither what is visible nor what a crash would leave.
LEMMA WriteLogRefines ==
    ASSUME LInv, LInv', write_log
    PROVE  UNCHANGED T!vars
<1>1. /\ committing /\ dhead.n = 0 /\ cache' = cache
      /\ UNCHANGED <<home, dhead, committing, pc>>
    BY WriteLogCached DEF write_log
<1>2. Active' = Active
    BY <1>1 DEF Active
<1>3. Recovered' = Recovered
    <2>1. ASSUME NEW b \in Blocks PROVE Recovered'[b] = home[b] /\ Recovered[b] = home[b]
        BY <1>1, RecoveredBlock, RecoveredBlockNext
    <2> QED BY <2>1, SameRecovered
<1>4. \A b \in Blocks : Contents(b)' = Contents(b)
    BY <1>1 DEF Contents
<1>5. Visible' = Visible
    BY <1>1, <1>4 DEF Visible, Running
<1> QED BY <1>2, <1>3, <1>5 DEF T!vars

\* What a block that is not in the transaction contains is what is on the disk,
\* when no system call is active.
LEMMA CleanContents ==
    ASSUME LInv, Active = {}, NEW b \in Blocks, b \notin dirty
    PROVE  Contents(b) = home[b]
<1>1. \A p \in Procs : wb[p] # b
    BY DEF LInv, Writing, Active
<1> QED BY <1>1 DEF LInv, Buffers, Contents

\* The write of the header is the commit: from here on a crash leaves all that
\* the system calls have written.
LEMMA WriteHeadRefines ==
    ASSUME LInv, LInv', write_head
    PROVE  T!Next
<1> USE DEF write_head
<1>1. committing /\ Active = {} /\ Uninstalled = 1..lh.n /\ lh.n \in 1..LOGSIZE
    BY LogAssumption DEF LInv, TypeOK, Control, Uninstalled, logheader
<1>2. Active' = Active
    BY DEF Active
<1>3. dhead'.n = lh.n /\ \A i \in 1..lh.n : dhead'.block[i] = lh.block[i]
    BY DEF LInv, Headers
<1>4. ASSUME NEW b \in Blocks PROVE Recovered'[b] = Contents(b)
    <2>1. CASE \E i \in 1..lh.n : lh.block[i] = b
        <3>1. PICK i \in 1..lh.n : lh.block[i] = b
            BY <2>1
        <3>2. Recovered'[b] = dlog[i]
            BY <1>3, <3>1, RecoveredBlockNext, SMTT(60)
        <3>3. dlog[i] = cache[b] /\ cache[b] # NotCached
            BY <1>1, <3>1 DEF LInv, Copies, Buffers
        <3> QED BY <3>2, <3>3 DEF Contents
    <2>2. CASE \A i \in 1..lh.n : lh.block[i] # b
        <3>1. b \notin dirty
            BY <1>1, <2>2 DEF LInv, Buffers
        <3>2. Recovered'[b] = home[b]
            BY <1>3, <2>2, RecoveredBlockNext
        <3> QED BY <1>1, <3>1, <3>2, CleanContents
    <2> QED BY <2>1, <2>2
<1>5. Visible' = Visible
    <2>1. \A b \in Blocks : Contents(b)' = Contents(b)
        BY DEF Contents
    <2> QED BY <1>1, <2>1 DEF Visible, Running
<1>6. Recovered' = Visible
    BY <1>1, <1>4 DEF Recovered, Visible, Running
<1>7. T!Commit
    BY <1>1, <1>2, <1>5, <1>6 DEF T!Commit
<1> QED BY <1>7 DEF T!Next

\* A round of install_trans() changes neither what is visible nor what the next
\* crash would leave: it may be repeated, by recover_from_log() too.
LEMMA InstallTransRefines ==
    ASSUME LInv, LInv', install_trans
    PROVE  UNCHANGED T!vars
<1>0. NotCached \notin Data
    BY LogAssumption, SMTT(60)
<1>1. PICK c \in Blocks : c = lh.block[tail]
    BY DEF install_trans, LInv, Control, Headers, HeaderSound
<1>2. /\ tail \in 1..lh.n /\ Active = {} /\ dlog[tail] \in Data
      /\ home' = [home EXCEPT ![c] = dlog[tail]] /\ cache' = [cache EXCEPT ![c] = dlog[tail]]
    <2>1. tail \in 1..lh.n /\ Active = {}
        BY DEF install_trans, LInv, Control, Active
    <2>2. dlog[tail] \in Data
        BY <2>1, LogAssumption, SMTT(60) DEF LInv, TypeOK, logheader, Slots
    <2>3. /\ home' = [home EXCEPT ![lh.block[tail]] = dlog[tail]]
          /\ cache' = [cache EXCEPT ![lh.block[tail]] = dlog[tail]]
        BY DEF install_trans
    <2> QED BY <1>1, <2>1, <2>2, <2>3, SMTT(60)
<1>3. Active' = Active /\ (Running <=> committing) /\ (Running' <=> committing)
    BY DEF install_trans, Active, Running
<1>4. /\ UNCHANGED <<dhead, dlog>> /\ dhead.n = lh.n
      /\ \A i \in 1..lh.n : dhead.block[i] = lh.block[i]
    BY DEF install_trans, LInv, Headers
<1>5. ASSUME NEW b \in Blocks PROVE Recovered'[b] = Recovered[b]
    <2>1. CASE \E i \in 1..lh.n : lh.block[i] = b
        <3>1. PICK i \in 1..lh.n : lh.block[i] = b
            BY <2>1
        <3> QED BY <1>4, <3>1, RecoveredBlock, RecoveredBlockNext
    <2>2. CASE \A i \in 1..lh.n : lh.block[i] # b
        <3>1. Recovered'[b] = home'[b] /\ Recovered[b] = home[b]
            BY <1>4, <2>2, RecoveredBlock, RecoveredBlockNext, SMTT(60)
        <3>2. home'[b] = home[b]
            BY <1>1, <1>2, <2>2 DEF LInv, TypeOK
        <3> QED BY <3>1, <3>2
    <2> QED BY <2>1, <2>2
<1>6. Recovered' = Recovered
    BY <1>5, SameRecovered
<1>7. ASSUME committing, NEW b \in Blocks PROVE Contents(b)' = Contents(b)
    <2>1. CASE b = c
        <3>1. tail \in Uninstalled
            BY <1>2, <1>7 DEF install_trans, Uninstalled, LInv, TypeOK, logheader
        <3>2. cache[c] = dlog[tail]
            BY <1>1, <1>7, <3>1, SMTT(60) DEF install_trans, LInv, Copies
        <3> QED BY <1>0, <1>2, <2>1, <3>2, SMTT(60) DEF Contents, LInv, TypeOK
    <2>2. CASE b # c
        BY <1>2, <2>2, ZenonT(60) DEF Contents, LInv, TypeOK
    <2> QED BY <2>1, <2>2
<1>8. Visible' = Visible
    BY <1>3, <1>6, <1>7, ZenonT(60) DEF Visible
<1> QED BY <1>3, <1>6, <1>8 DEF T!vars

\* Clearing the header changes nothing either: all blocks are at their homes.
LEMMA ClearRefines ==
    ASSUME LInv, LInv', clear
    PROVE  UNCHANGED T!vars
<1> USE DEF clear
<1>1. Active' = Active /\ Active = {} /\ dirty = {} /\ (Running <=> committing) /\ Running'
    BY DEF LInv, Control, Active, Buffers, Uninstalled, Running
<1>2. dhead.n = lh.n /\ \A i \in 1..lh.n : dhead.block[i] = lh.block[i]
    BY DEF LInv, Headers
<1>3. dhead'.n = 0
    BY DEF LInv, Headers
<1>4. ASSUME NEW b \in Blocks
      PROVE  Recovered[b] = home[b] /\ Recovered'[b] = home[b] /\ Contents(b) = home[b]
    <2>1. CASE \E i \in 1..lh.n : lh.block[i] = b
        <3>1. PICK i \in 1..lh.n : lh.block[i] = b
            BY <2>1
        <3>2. Recovered[b] = dlog[i] /\ home[b] = dlog[i]
            BY <1>2, <3>1, RecoveredBlock, SMTT(60) DEF LInv, Copies
        <3> QED BY <1>1, <1>3, <3>2, RecoveredBlockNext, CleanContents
    <2>2. CASE \A i \in 1..lh.n : lh.block[i] # b
        BY <1>1, <1>2, <1>3, <2>2, RecoveredBlock, RecoveredBlockNext, CleanContents
    <2> QED BY <2>1, <2>2
<1>5. \A b \in Blocks : Contents(b)' = Contents(b)
    BY DEF Contents
<1>6. Recovered' = Recovered
    <2>1. ASSUME NEW b \in Blocks PROVE Recovered'[b] = Recovered[b]
        BY <1>4
    <2> QED BY <2>1, SameRecovered
<1>7. Visible' = Visible
    <2>1. ASSUME NEW b \in Blocks PROVE Recovered[b] = Contents(b)
        BY <1>4
    <2>2. Recovered = [b \in Blocks |-> Contents(b)]
        BY <2>1 DEF Recovered
    <2>3. Visible = [b \in Blocks |-> Contents(b)]
        BY <2>2 DEF Visible
    <2>4. Visible' = [b \in Blocks |-> Contents(b)']
        BY <1>1 DEF Visible
    <2> QED BY <1>5, <2>3, <2>4
<1> QED BY <1>1, <1>6, <1>7 DEF T!vars

\* The log implements atomic transactions: a crash, wherever it hits commit()
\* or the recovery itself, leaves all updates of the system calls that were
\* committed together and none of a later one.
THEOREM LogIsAtomic == Spec => Atomic
<1>1. Init => T!Init
    <2> SUFFICES ASSUME Init PROVE T!Init
        OBVIOUS
    <2>1. Recovered = home
        BY InitLInv, RecoveredEmpty, ZenonT(60) DEF Init, zeroed
    <2>2. Visible = Recovered
        BY DEF Visible, Running, Init
    <2>3. Active = {} /\ home \in [Blocks -> Data]
        BY DEF Init, Active
    <2> QED BY <2>1, <2>2, <2>3 DEF T!Init
<1>2. LInv /\ LInv' /\ [Next]_vars => [T!Next]_(T!vars)
    <2> SUFFICES ASSUME LInv, LInv', [Next]_vars PROVE T!Next \/ UNCHANGED T!vars
        OBVIOUS
    <2>1. CASE UNCHANGED vars
        <3>1. (Running' <=> Running) /\ Active' = Active
            BY <2>1 DEF vars, Running, Active
        <3> QED BY <2>1, <3>1, SameBlocks DEF vars, T!vars
    <2>2. CASE read_head
        <3>1. ~Running /\ ~Running'
            BY <2>2 DEF read_head, Running, LInv, Control
        <3>2. UNCHANGED <<home, dlog, dhead, cache, pc>>
            BY <2>2 DEF read_head
        <3>3. Active' = Active
            BY <3>2 DEF Active
        <3> QED BY <3>1, <3>2, <3>3, SameBlocks, SMTT(60) DEF T!vars
    <2>3. CASE crash
        <3>1. UNCHANGED <<home, dlog, dhead>>
            BY <2>3 DEF crash, disks
        <3>2. Recovered' = Recovered
            BY <3>1 DEF Recovered
        <3>3. Active' = {} /\ ~Running'
            BY <2>3 DEF crash, Booting, Active, Running
        <3>4. Visible' = Recovered
            BY <3>2, <3>3 DEF Visible
        <3> QED BY <3>2, <3>3, <3>4 DEF T!Next, T!Crash
    <2>4. CASE commit
        <3>1. CASE write_head
            BY <3>1, WriteHeadRefines
        <3>2. CASE write_log \/ install_trans \/ clear
            BY <3>2, WriteLogRefines, InstallTransRefines, ClearRefines
        <3> QED BY <2>4, <3>1, <3>2 DEF commit
    <2>5. ASSUME NEW p \in Procs, begin_op(p) \/ end_op(p) \/ finish(p) \/ log_write(p)
          PROVE  T!Next \/ UNCHANGED T!vars
        BY <2>5, SystemCallRefines
    <2>6. ASSUME NEW p \in Procs, NEW b \in Blocks, NEW v \in Data, modify(p, b, v) PROVE T!Next
        BY <2>6, ModifyRefines
    <2>7. ASSUME NEW b \in Blocks, bread(b) \/ bget_recycle(b) PROVE UNCHANGED T!vars
        BY <2>7, BufferRefines
    <2> QED BY <2>1, <2>2, <2>3, <2>4, <2>5, <2>6, <2>7 DEF Next
<1> QED BY <1>1, <1>2, LogInvariance, PTL DEF Spec, Atomic, T!Spec
=============================================================================
