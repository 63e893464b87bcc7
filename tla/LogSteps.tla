------------------------------ MODULE LogSteps ------------------------------
(***************************************************************************)
(* Counting the slots that system calls have reserved, and that LInv is    *)
(* kept by the steps of the system calls (begin_op(), changing a buffer,   *)
(* log_write(), end_op()), of the buffer cache, and of commit() up to the  *)
(* write of the header.                                                    *)
(***************************************************************************)
EXTENDS Log, FiniteSetTheorems, TLAPS

(***************************************************************************)
(* Counting                                                                *)
(***************************************************************************)
\* Some system calls, and some of their tickets, of which each has MAXOPBLOCKS.
LEMMA TicketBound ==
    ASSUME NEW A \in SUBSET Procs, NEW S \in SUBSET (A \X (1..MAXOPBLOCKS))
    PROVE  /\ IsFiniteSet(A) /\ Cardinality(A) \in Nat
           /\ IsFiniteSet(S) /\ Cardinality(S) \in Nat
           /\ Cardinality(S) <= Cardinality(A) * MAXOPBLOCKS
<1>1. IsFiniteSet(A)
    BY LogAssumption, FS_Subset
<1>2. IsFiniteSet(1..MAXOPBLOCKS) /\ Cardinality(1..MAXOPBLOCKS) = MAXOPBLOCKS
    BY LogAssumption, FS_Interval
<1>3. /\ IsFiniteSet(A \X (1..MAXOPBLOCKS))
      /\ Cardinality(A \X (1..MAXOPBLOCKS)) = Cardinality(A) * MAXOPBLOCKS
    BY <1>1, <1>2, FS_Product, ZenonT(60)
<1>4. IsFiniteSet(S) /\ Cardinality(S) <= Cardinality(A \X (1..MAXOPBLOCKS))
    BY <1>3, FS_Subset
<1> QED BY <1>1, <1>3, <1>4, FS_CardinalityType

\* The same for the active system calls and their tickets, before a step and
\* after it.
LEMMA FiniteSystemCalls ==
    /\ IsFiniteSet(Active) /\ Cardinality(Active) \in Nat
    /\ IsFiniteSet(Tickets) /\ Cardinality(Tickets) \in Nat
    /\ Cardinality(Tickets') \in Nat
    /\ Cardinality(Tickets') <= Cardinality(Active') * MAXOPBLOCKS
<1>1. Active \in SUBSET Procs /\ Tickets \in SUBSET (Active \X (1..MAXOPBLOCKS))
    BY DEF Tickets, Active
<1>2. Active' \in SUBSET Procs /\ Tickets' \in SUBSET (Active' \X (1..MAXOPBLOCKS))
    BY DEF Tickets, Active
<1> QED BY <1>1, <1>2, TicketBound

\* A system call has logged a finite number of blocks.
LEMMA FiniteWrites ==
    ASSUME NEW w \in SUBSET Blocks
    PROVE  IsFiniteSet(w) /\ Cardinality(w) \in Nat
BY LogAssumption, FS_Subset, FS_CardinalityType

\* The condition of begin_op()'s loop grows with the size of the transaction
\* and with the number of system calls.
LEMMA MustWaitGrows ==
    ASSUME NEW n \in Nat, NEW m \in Nat, NEW k \in Nat, NEW j \in Nat,
           n <= m, k <= j, n + (k + 1) * MAXOPBLOCKS > LOGSIZE
    PROVE  m + (j + 1) * MAXOPBLOCKS > LOGSIZE
<1>1. MAXOPBLOCKS \in Nat /\ LOGSIZE \in Nat
    BY LogAssumption
<1>2. PICK d \in Nat : j = k + d
    BY SMT
<1>3. (j + 1) * MAXOPBLOCKS = (k + 1) * MAXOPBLOCKS + d * MAXOPBLOCKS
    BY <1>1, <1>2
<1>4. d * MAXOPBLOCKS \in Nat /\ (k + 1) * MAXOPBLOCKS \in Nat
    BY <1>1
<1> QED BY <1>1, <1>3, <1>4

(***************************************************************************)
(* Steps of the buffer cache                                               *)
(***************************************************************************)
\* What counts system calls does not depend on the disk and the buffers.
LEMMA SameCounts ==
    ASSUME LInv, UNCHANGED <<lh, outstanding, committing, phase, tail, pc, wrote>>
    PROVE  Control' /\ Reserved' /\ NoLostWakeup'
<1>1. Active' = Active
    BY DEF Active
<1>2. Tickets' = Tickets
    BY <1>1 DEF Tickets
<1>3. Control'
    BY <1>1 DEF LInv, Control
<1>4. Reserved'
    BY <1>2 DEF LInv, Reserved
<1>5. NoLostWakeup'
    BY DEF LInv, NoLostWakeup, MustWait
<1> QED BY <1>3, <1>4, <1>5

\* A buffer that is not dirty and that nobody is changing may be read from the
\* disk or dropped.
LEMMA CleanBufferStep ==
    ASSUME LInv, NEW b \in Blocks, b \notin dirty, \A p \in Procs : wb[p] # b,
           NEW v \in {NotCached, home[b]}, cache' = [cache EXCEPT ![b] = v],
           UNCHANGED <<home, dlog, dhead, dirty, lh, outstanding, committing, phase,
                       tail, pc, wb, wrote, crashes>>
    PROVE  LInv'
<1>0. NotCached \notin Data
    BY LogAssumption
<1>1. Control' /\ Reserved' /\ NoLostWakeup'
    BY SameCounts
<1>2. TypeOK'
    BY DEF LInv, TypeOK
<1>3. Headers'
    BY DEF LInv, Headers, HeaderSound
<1>4. Writing'
    BY DEF LInv, TypeOK, Writing, Active, Logged
<1>5. Uninstalled' = Uninstalled
    BY DEF Uninstalled
<1>6. Buffers'
    BY <1>0, <1>5 DEF LInv, TypeOK, Buffers
<1>8. ASSUME NEW i \in Uninstalled PROVE cache'[lh.block[i]] = cache[lh.block[i]]
    BY DEF LInv, TypeOK, Buffers
<1>9. phase = "write_log" => \A i \in 1..tail - 1 : i \in Uninstalled
    BY DEF LInv, TypeOK, Control, Uninstalled, logheader
<1>10. Copies'
    BY <1>5, <1>8, <1>9 DEF LInv, Copies
<1> QED BY <1>1, <1>2, <1>3, <1>4, <1>6, <1>10 DEF LInv

\* bread() keeps the invariant: a block that is not cached is not dirty.
LEMMA BreadStep ==
    ASSUME LInv, NEW b \in Blocks, bread(b)
    PROVE  LInv'
<1>1. b \notin dirty /\ \A p \in Procs : wb[p] # b
    BY DEF bread, LInv, Buffers, Writing
<1> QED BY <1>1, CleanBufferStep, ZenonT(60) DEF bread

\* bget() that recycles a buffer keeps the invariant: it spares the dirty ones.
LEMMA RecycleStep ==
    ASSUME LInv, NEW b \in Blocks, bget_recycle(b)
    PROVE  LInv'
BY CleanBufferStep, ZenonT(60) DEF bget_recycle

(***************************************************************************)
(* begin_op() and end_op()                                                 *)
(***************************************************************************)
\* What the disk and the buffers are does not depend on who waits or counts,
\* while the phase and the headers stay.
LEMMA SameStore ==
    ASSUME LInv, UNCHANGED <<home, dlog, dhead, cache, dirty, lh, committing, phase, tail, wb>>
    PROVE  Headers' /\ Buffers' /\ Copies'
<1>1. Uninstalled' = Uninstalled
    BY DEF Uninstalled
<1>2. Headers'
    BY DEF LInv, Headers, HeaderSound
<1>3. Buffers'
    BY <1>1 DEF LInv, Buffers
<1>4. Copies'
    BY <1>1 DEF LInv, Copies
<1> QED BY <1>2, <1>3, <1>4

\* begin_op() keeps the invariant: it goes on only when the slots for one more
\* system call are there, and otherwise sleeps with somebody to wake it up.
LEMMA BeginOpStep ==
    ASSUME LInv, NEW p \in Procs, begin_op(p)
    PROVE  LInv'
<1> USE DEF begin_op
<1>0. MAXOPBLOCKS \in Nat \ {0} /\ LOGSIZE \in Nat /\ MAXOPBLOCKS <= LOGSIZE
    BY LogAssumption
<1>1. Headers' /\ Buffers' /\ Copies'
    BY SameStore
<1>2. p \notin Active /\ outstanding = Cardinality(Active) /\ lh.n \in Nat /\ outstanding \in Nat
    BY DEF Active, LInv, TypeOK, Control, logheader
<1>3. CASE MustWait /\ pc' = [pc EXCEPT ![p] = "asleep"] /\ UNCHANGED <<outstanding, wrote>>
    <2>1. Active' = Active
        BY <1>3 DEF Active, LInv, TypeOK
    <2>2. Tickets' = Tickets
        BY <1>3, <2>1 DEF Tickets
    <2>3. TypeOK'
        BY <1>3 DEF LInv, TypeOK
    <2>4. Control'
        BY <1>3, <2>1 DEF LInv, TypeOK, Control, Running
    <2>5. Writing'
        BY <1>3, <2>1 DEF LInv, TypeOK, Writing, Logged
    <2>6. Reserved'
        BY <1>3, <2>2 DEF LInv, Reserved
    <2>7. committing \/ outstanding > 0
        <3>1. CASE ~committing /\ outstanding = 0
            <4>1. Active = {}
                BY <1>2, <3>1, FiniteSystemCalls, FS_EmptySet, ZenonT(60)
            <4>2. phase = "run" /\ lh.n = 0
                BY <3>1, <4>1, SMTT(60) DEF LInv, Control, Running
            <4> QED BY <1>0, <1>3, <3>1, <4>2 DEF MustWait
        <3> QED BY <1>2, <3>1
    <2>8. NoLostWakeup'
        BY <1>3, <2>7 DEF LInv, TypeOK, NoLostWakeup, MustWait
    <2> QED BY <1>1, <2>3, <2>4, <2>5, <2>6, <2>8 DEF LInv
<1>4. CASE /\ ~MustWait /\ pc' = [pc EXCEPT ![p] = "op"]
           /\ outstanding' = admitted /\ wrote' = [wrote EXCEPT ![p] = {}]
    <2>1. Active' = Active \cup {p}
        BY <1>4 DEF Active, LInv, TypeOK
    <2>2. Cardinality(Active') = outstanding + 1
        BY <1>2, <2>1, FiniteSystemCalls, FS_AddElement, ZenonT(60)
    <2>3. TypeOK'
        BY <1>4 DEF LInv, TypeOK, admitted
    <2>4. ~committing /\ phase = "run"
        BY <1>4 DEF MustWait, LInv, Control, Running
    <2>5. Control'
        BY <1>4, <2>1, <2>2, <2>4, SMTT(60) DEF LInv, Control, admitted
    <2>6. Writing'
        BY <1>2, <1>4, <2>1 DEF LInv, TypeOK, Writing, Logged, Active
    <2>7. Cardinality(Tickets') <= (outstanding + 1) * MAXOPBLOCKS
        BY <2>2, FiniteSystemCalls
    <2>8. Reserved'
        <3>1. lh.n + (outstanding + 1) * MAXOPBLOCKS <= LOGSIZE
            BY <1>0, <1>2, <1>4 DEF MustWait
        <3>2. Cardinality(Tickets') \in Nat
            BY FiniteSystemCalls
        <3>3. (outstanding + 1) * MAXOPBLOCKS \in Nat
            BY <1>0, <1>2
        <3> QED BY <1>0, <1>2, <2>7, <3>1, <3>2, <3>3 DEF Reserved
    <2>9. NoLostWakeup'
        <3>1. \A q \in Procs : pc[q] # "asleep"
            BY <1>4 DEF LInv, NoLostWakeup
        <3> QED BY <1>4, <3>1 DEF LInv, TypeOK, NoLostWakeup
    <2> QED BY <1>1, <2>3, <2>5, <2>6, <2>8, <2>9 DEF LInv
<1> QED BY <1>3, <1>4

\* While a system call is active nothing commits and nothing recovers.
LEMMA ActiveRuns ==
    ASSUME LInv, NEW p \in Procs, p \in Active
    PROVE  ~committing /\ phase = "run" /\ dhead.n = 0 /\ Uninstalled = 1..lh.n
<1>1. ~committing /\ phase = "run"
    BY DEF LInv, Control, Active
<1> QED BY <1>1 DEF LInv, Headers, Uninstalled

\* end_op() keeps the invariant: the last system call to end starts commit(),
\* any other wakes up who waits in begin_op().
LEMMA EndOpStep ==
    ASSUME LInv, NEW p \in Procs, end_op(p)
    PROVE  LInv'
<1> USE DEF end_op
<1>1. p \in Active
    BY DEF Active
<1>2. ~committing /\ phase = "run" /\ dhead.n = 0 /\ Uninstalled = 1..lh.n
    BY <1>1, ActiveRuns
<1>3. outstanding = Cardinality(Active) /\ lh.n \in Nat
    BY DEF LInv, Control, TypeOK, logheader
<1>4. outstanding' = outstanding - 1 /\ Cardinality(Active \ {p}) = outstanding'
    BY <1>1, <1>3, FiniteSystemCalls, FS_RemoveElement, ZenonT(60)
<1>5. outstanding' \in Nat /\ (outstanding' = 0 <=> Active \ {p} = {})
    <2>1. IsFiniteSet(Active \ {p})
        BY FiniteSystemCalls, FS_RemoveElement
    <2>2. Cardinality(Active \ {p}) \in Nat
        BY <2>1, FS_CardinalityType
    <2>3. Cardinality(Active \ {p}) = 0 <=> Active \ {p} = {}
        BY <2>1, FS_EmptySet
    <2> QED BY <1>4, <2>2, <2>3
<1>6. ASSUME Active' = Active \ {p} PROVE Reserved'
    <2>1. Tickets' \in SUBSET Tickets
        BY <1>6 DEF Tickets
    <2>2. Cardinality(Tickets') <= Cardinality(Tickets)
        BY <2>1, FiniteSystemCalls, FS_Subset
    <2> QED BY <1>3, <2>2, FiniteSystemCalls, LogAssumption, SMTT(60) DEF LInv, Reserved
<1>7. CASE outstanding' = 0
    <2>1. /\ pc' = [pc EXCEPT ![p] = "commit"] /\ committing' = TRUE /\ tail' = 1
          /\ phase' = IF lh.n > 0 THEN "write_log" ELSE "finish"
        BY <1>2, <1>7, ZenonT(60)
    <2>2. Active' = Active \ {p} /\ Active' = {}
        BY <1>5, <1>7, <2>1 DEF Active, LInv, TypeOK
    <2>3. TypeOK'
        BY <1>5, <2>1, LogAssumption DEF LInv, TypeOK, Phases
    <2>4. Control'
        BY <1>3, <1>4, <2>1, <2>2 DEF Control
    <2>5. Writing'
        BY <2>1, <2>2 DEF LInv, TypeOK, Writing
    <2>6. Headers'
        BY <1>2, <2>1 DEF LInv, Headers, HeaderSound
    <2>7. Uninstalled' = Uninstalled
        BY <1>2, <1>3, <2>1 DEF Uninstalled
    <2>8. Buffers'
        BY <2>7 DEF LInv, Buffers
    <2>9. Copies'
        BY <2>1 DEF Copies
    <2>10. NoLostWakeup'
        BY <2>1 DEF NoLostWakeup, MustWait
    <2> QED BY <1>6, <2>2, <2>3, <2>4, <2>5, <2>6, <2>8, <2>9, <2>10 DEF LInv
<1>8. CASE outstanding' # 0
    <2>1. pc' = wakeup([pc EXCEPT ![p] = "idle"]) /\ UNCHANGED <<committing, phase, tail>>
        BY <1>2, <1>8
    <2>2. Active' = Active \ {p} /\ Active' # {}
        BY <1>5, <1>8, <2>1, SMTT(60) DEF Active, LInv, TypeOK, wakeup
    <2>3. TypeOK'
        BY <1>5, <2>1 DEF LInv, TypeOK, wakeup
    <2>4. Control'
        BY <1>2, <1>4, <2>1, <2>2, SMTT(60) DEF LInv, Control
    <2>5. Writing'
        BY <2>1, <2>2 DEF LInv, TypeOK, Writing, wakeup, Logged
    <2>6. NoLostWakeup'
        BY <2>1 DEF LInv, TypeOK, NoLostWakeup, wakeup
    <2> QED BY <1>6, <2>1, <2>2, <2>3, <2>4, <2>5, <2>6, SameStore DEF LInv
<1> QED BY <1>7, <1>8

\* The end of end_op() keeps the invariant: the log is empty again, and who
\* waited for the commit is awake.
LEMMA FinishStep ==
    ASSUME LInv, NEW p \in Procs, finish(p)
    PROVE  LInv'
<1> USE DEF finish
<1>1. committing /\ Active = {} /\ lh.n = 0 /\ dhead.n = 0
    BY DEF LInv, Control, Headers
<1>2. Active' = {}
    BY <1>1 DEF Active, LInv, TypeOK, wakeup
<1>3. TypeOK'
    BY ZenonT(60) DEF LInv, TypeOK, wakeup, Phases
<1>4. Control'
    BY <1>1, <1>2 DEF LInv, Control
<1>5. Writing'
    BY <1>2 DEF LInv, TypeOK, Writing, wakeup
<1>6. Headers'
    BY <1>1 DEF LInv, Headers, HeaderSound
<1>7. Uninstalled' = Uninstalled
    BY <1>1 DEF Uninstalled
<1>8. Buffers'
    BY <1>7 DEF LInv, Buffers
<1>9. Copies'
    BY DEF Copies
<1>10. Tickets' = Tickets
    BY <1>1, <1>2 DEF Tickets
<1>11. Reserved'
    BY <1>10 DEF LInv, Reserved
<1>12. NoLostWakeup'
    BY DEF LInv, TypeOK, NoLostWakeup, wakeup
<1> QED BY <1>3, <1>4, <1>5, <1>6, <1>8, <1>9, <1>11, <1>12 DEF LInv

(***************************************************************************)
(* log_write()                                                             *)
(***************************************************************************)
\* Changing a buffer keeps the invariant: its holder is active, so no commit
\* is copying it.
LEMMA ModifyStep ==
    ASSUME LInv, NEW p \in Procs, NEW b \in Blocks, NEW v \in Data, modify(p, b, v)
    PROVE  LInv'
<1> USE DEF modify
<1>0. NotCached \notin Data /\ NoBlock \notin Blocks
    BY LogAssumption
<1>1. p \in Active
    BY DEF Active
<1>2. ~committing /\ phase = "run" /\ Uninstalled = 1..lh.n
    BY <1>1, ActiveRuns
<1>3. pc' = [pc EXCEPT ![p] = "panic"] \/ pc' = [pc EXCEPT ![p] = "log_write"]
    BY ZenonT(60)
<1>4. Active' = Active
    BY <1>3 DEF Active, LInv, TypeOK
<1>5. TypeOK'
    BY <1>3, SMTT(60) DEF LInv, TypeOK
<1>6. Control'
    BY <1>2, <1>4 DEF LInv, Control
<1>7. Writing'
    BY <1>0, <1>3, <1>4, SMTT(60) DEF LInv, TypeOK, Writing, Logged
<1>8. Headers'
    BY DEF LInv, Headers, HeaderSound
<1>9. Uninstalled' = Uninstalled
    BY DEF Uninstalled
<1>10. Buffers'
    <2>1. dirty' = {lh'.block[i] : i \in Uninstalled'}
        BY <1>9, SMTT(60) DEF LInv, Buffers
    <2>2. \A c \in dirty' : cache'[c] # NotCached
        BY <1>0 DEF LInv, TypeOK, Buffers
    <2>3. ASSUME NEW c \in Blocks, c \notin dirty', \A q \in Procs : wb'[q] # c
          PROVE  cache'[c] \in {NotCached, home'[c]}
        <3>1. wb'[p] = b /\ c # b
            BY <2>3 DEF LInv, TypeOK
        <3>2. \A q \in Procs : wb[q] # c
            BY <1>0, <1>1, <2>3, <3>1, SMTT(60) DEF LInv, TypeOK, Writing, Active
        <3> QED BY <2>3, <3>1, <3>2 DEF LInv, TypeOK, Buffers
    <2> QED BY <2>1, <2>2, <2>3 DEF Buffers
<1>11. Copies'
    BY <1>2 DEF Copies
<1>12. Tickets' = Tickets
    BY <1>4 DEF Tickets
<1>13. Reserved'
    BY <1>12 DEF LInv, Reserved
<1>14. NoLostWakeup'
    BY <1>3 DEF LInv, TypeOK, NoLostWakeup, MustWait
<1> QED BY <1>5, <1>6, <1>7, <1>8, <1>10, <1>11, <1>13, <1>14 DEF LInv

\* A block that is recorded for the first time uses up a ticket, one that this
\* system call has logged already is recorded.
LEMMA TicketUsed ==
    ASSUME LInv, NEW p \in Procs, log_write(p), ~Logged(wb[p])
    PROVE  Cardinality(Tickets') = Cardinality(Tickets) - 1
<1> USE DEF log_write
<1> DEFINE t == <<p, Cardinality(wrote[p]) + 1>>
<1>1. p \in Active /\ Active' = Active
    BY DEF Active, LInv, TypeOK
<1>2. wb[p] \in Blocks /\ wb[p] \notin wrote[p] /\ Cardinality(wrote[p]) < MAXOPBLOCKS
    BY <1>1 DEF LInv, Writing
<1>3. IsFiniteSet(wrote[p]) /\ Cardinality(wrote[p]) \in Nat
    BY FiniteWrites DEF LInv, TypeOK
<1>4. Cardinality(wrote'[p]) = Cardinality(wrote[p]) + 1
    <2>1. wrote'[p] = wrote[p] \cup {wb[p]}
        BY DEF LInv, TypeOK
    <2> QED BY <1>2, <1>3, <2>1, FS_AddElement, ZenonT(60)
<1>5. \A q \in Procs : q # p => wrote'[q] = wrote[q]
    BY DEF LInv, TypeOK
<1>6. t \in Tickets
    BY <1>1, <1>2, <1>3, LogAssumption DEF Tickets
<1>7. Tickets' = Tickets \ {t}
    <2>1. ASSUME NEW q \in Procs, NEW k \in 1..MAXOPBLOCKS
          PROVE  <<q, k>> \in Tickets' <=> <<q, k>> \in Tickets /\ <<q, k>> # t
        <3>1. <<q, k>> \in Tickets' <=> q \in Active /\ k > Cardinality(wrote'[q])
            BY <1>1 DEF Tickets
        <3>2. <<q, k>> \in Tickets <=> q \in Active /\ k > Cardinality(wrote[q])
            BY DEF Tickets
        <3>3. CASE q = p
            <4>1. k > Cardinality(wrote'[p]) <=>
                      k > Cardinality(wrote[p]) /\ k # Cardinality(wrote[p]) + 1
                BY <1>3, <1>4, LogAssumption
            <4> QED BY <1>1, <3>1, <3>2, <3>3, <4>1
        <3>4. CASE q # p
            BY <1>5, <3>1, <3>2, <3>4
        <3> QED BY <3>3, <3>4
    <2>2. \A x \in Tickets \cup Tickets' : x \in Procs \X (1..MAXOPBLOCKS)
        BY DEF Tickets
    <2> QED BY <2>1, <2>2
<1> QED BY <1>6, <1>7, FiniteSystemCalls, FS_RemoveElement, ZenonT(60)

\* A block that is recorded already costs nothing.
LEMMA TicketKept ==
    ASSUME LInv, NEW p \in Procs, log_write(p)
    PROVE  Cardinality(Tickets') <= Cardinality(Tickets)
<1> USE DEF log_write
<1>1. Active' = Active
    BY DEF Active, LInv, TypeOK
<1>2. ASSUME NEW q \in Procs
      PROVE  /\ Cardinality(wrote[q]) \in Nat /\ Cardinality(wrote'[q]) \in Nat
             /\ Cardinality(wrote[q]) <= Cardinality(wrote'[q])
    <2>1. wrote'[q] = wrote[q] \/ wrote'[q] = wrote[q] \cup {wb[p]}
        BY DEF LInv, TypeOK
    <2>2. wb[p] \in Blocks /\ wrote[q] \in SUBSET Blocks /\ wrote'[q] \in SUBSET Blocks
        BY <2>1 DEF LInv, TypeOK, Writing
    <2>3. /\ IsFiniteSet(wrote[q]) /\ Cardinality(wrote[q]) \in Nat
          /\ IsFiniteSet(wrote'[q]) /\ Cardinality(wrote'[q]) \in Nat
        BY <2>2, FiniteWrites
    <2>4. wrote[q] \in SUBSET wrote'[q]
        BY <2>1
    <2> QED BY <2>3, <2>4, FS_Subset, SMTT(60)
<1>3. ASSUME NEW q \in Procs, NEW k \in 1..MAXOPBLOCKS, <<q, k>> \in Tickets'
      PROVE  <<q, k>> \in Tickets
    <2>1. q \in Active /\ k > Cardinality(wrote'[q])
        BY <1>1, <1>3 DEF Tickets
    <2>2. k > Cardinality(wrote[q])
        BY <1>2, <2>1, LogAssumption
    <2> QED BY <2>1, <2>2 DEF Tickets
<1>4. Tickets' \in SUBSET Tickets
    <2>1. Tickets' \subseteq Procs \X (1..MAXOPBLOCKS)
        BY DEF Tickets
    <2> QED BY <1>3, <2>1
<1> QED BY <1>4, FiniteSystemCalls, FS_Subset


\* log_write() keeps the invariant: what it records is in the header once and
\* dirty, and there is a slot for it.
LEMMA LogWriteStep ==
    ASSUME LInv, NEW p \in Procs, log_write(p)
    PROVE  LInv'
<1> USE DEF log_write
<1>0. NoBlock \notin Blocks /\ LOGSIZE \in Nat
    BY LogAssumption
<1>1. p \in Active /\ Active' = Active
    BY DEF Active, LInv, TypeOK
<1>2. ~committing /\ phase = "run" /\ dhead.n = 0 /\ Uninstalled = 1..lh.n
    BY <1>1, ActiveRuns
<1>3. wb[p] \in Blocks /\ cache[wb[p]] # NotCached
    BY DEF LInv, Writing
<1>4. lh.n \in Nat /\ Cardinality(Tickets) \in Nat /\ lh.n + Cardinality(Tickets) <= LOGSIZE
    BY FiniteSystemCalls DEF LInv, TypeOK, logheader, Reserved
<1>5. /\ lh' \in logheader /\ HeaderSound(lh')
      /\ {lh'.block[i] : i \in 1..lh'.n} = {lh.block[i] : i \in 1..lh.n} \cup {wb[p]}
      /\ lh'.n >= lh.n
      /\ lh'.n + Cardinality(Tickets') <= LOGSIZE
    <2>1. CASE Logged(wb[p])
        <3>1. lh' = lh /\ wb[p] \in {lh.block[i] : i \in 1..lh.n}
            BY <2>1 DEF Logged
        <3>2. Cardinality(Tickets') <= Cardinality(Tickets) /\ Cardinality(Tickets') \in Nat
            BY TicketKept, FiniteSystemCalls, ZenonT(60)
        <3> QED BY <1>0, <1>4, <3>1, <3>2 DEF LInv, TypeOK, Headers, HeaderSound
    <2>2. CASE ~Logged(wb[p])
        <3>1. lh' = [n |-> lh.n + 1, block |-> [lh.block EXCEPT ![lh.n + 1] = wb[p]]]
            BY <2>2
        <3>2. Cardinality(Tickets') = Cardinality(Tickets) - 1 /\ Cardinality(Tickets') \in Nat
            BY <2>2, TicketUsed, FiniteSystemCalls, ZenonT(60)
        <3>3. lh.n + 1 \in Slots /\ lh'.n = lh.n + 1 /\ lh'.n + Cardinality(Tickets') <= LOGSIZE
            BY <1>0, <1>4, <3>1, <3>2 DEF Slots
        <3>4. /\ lh'.block = [lh.block EXCEPT ![lh.n + 1] = wb[p]]
              /\ lh.block \in [Slots -> Blocks \cup {NoBlock}]
            BY <3>1 DEF LInv, TypeOK, logheader
        <3>5. \A i \in 1..lh.n : i \in Slots /\ i # lh.n + 1 /\ lh'.block[i] = lh.block[i]
            BY <1>0, <1>4, <3>3, <3>4 DEF Slots
        <3>6. lh'.block[lh.n + 1] = wb[p] /\ \A i \in 1..lh.n : lh.block[i] # wb[p]
            BY <2>2, <3>3, <3>4 DEF Logged
        <3>7. 1..lh'.n = (1..lh.n) \cup {lh.n + 1}
            BY <1>4, <3>3
        <3>8. lh' \in logheader
            BY <1>3, <3>1, <3>3, <3>4, SMTT(60) DEF logheader, Slots
        <3>9. HeaderSound(lh')
            BY <1>3, <3>5, <3>6, <3>7 DEF HeaderSound, LInv, Headers
        <3>10. {lh'.block[i] : i \in 1..lh'.n} = {lh.block[i] : i \in 1..lh.n} \cup {wb[p]}
            BY <3>5, <3>6, <3>7
        <3> QED BY <1>4, <3>3, <3>8, <3>9, <3>10
    <2> QED BY <2>1, <2>2, SMTT(60)
<1>6. TypeOK'
    BY <1>3, <1>5 DEF LInv, TypeOK
<1>7. Control'
    BY <1>1, <1>2 DEF LInv, Control
<1>8. Writing'
    <2>1. \A b \in Blocks : Logged(b) \/ b = wb[p] => Logged(b)'
        <3>1. \A b : Logged(b) <=> b \in {lh.block[i] : i \in 1..lh.n}
            BY DEF Logged
        <3>2. \A b : Logged(b)' <=> b \in {lh'.block[i] : i \in 1..lh'.n}
            BY DEF Logged
        <3> QED BY <1>5, <3>1, <3>2
    <2>2. ASSUME NEW q \in Procs, q \in Active, NEW b \in wrote'[q] PROVE Logged(b)'
        BY <1>3, <2>1, <2>2 DEF LInv, TypeOK, Writing
    <2>3. ASSUME NEW q \in Procs
          PROVE  /\ wb'[q] \in Blocks <=> pc'[q] \in {"log_write", "panic"}
                 /\ wb'[q] \in Blocks => cache'[wb'[q]] # NotCached
                 /\ pc'[q] = "log_write" =>
                        wb'[q] \in wrote'[q] \/ Cardinality(wrote'[q]) < MAXOPBLOCKS
        BY <1>0 DEF LInv, TypeOK, Writing
    <2> QED BY <1>1, <2>2, <2>3, SMTT(60) DEF Writing
<1>9. Headers'
    BY <1>2, <1>5 DEF LInv, Headers, HeaderSound
<1>10. Buffers'
    <2>1. Uninstalled' = 1..lh'.n
        BY <1>2 DEF Uninstalled
    <2>2. dirty' = {lh'.block[i] : i \in Uninstalled'}
        BY <1>2, <1>5, <2>1, ZenonT(60) DEF LInv, Buffers
    <2>3. \A b \in dirty' : cache'[b] # NotCached
        BY <1>3 DEF LInv, Buffers
    <2>4. ASSUME NEW b \in Blocks, b \notin dirty', \A q \in Procs : wb'[q] # b
          PROVE  cache'[b] \in {NotCached, home'[b]}
        <3>1. \A q \in Procs : wb[q] # b
            BY <2>4 DEF LInv, TypeOK
        <3> QED BY <2>4, <3>1 DEF LInv, Buffers
    <2> QED BY <2>2, <2>3, <2>4 DEF Buffers
<1>11. Copies'
    BY <1>2 DEF Copies
<1>12. Reserved'
    BY <1>5 DEF Reserved
<1>13. NoLostWakeup'
    <2>1. ASSUME NEW q \in Procs, pc'[q] = "asleep" PROVE MustWait' /\ outstanding' > 0
        <3>1. pc[q] = "asleep"
            BY <2>1 DEF LInv, TypeOK
        <3>2. lh.n + (outstanding + 1) * MAXOPBLOCKS > LOGSIZE /\ outstanding > 0
            BY <1>2, <3>1 DEF LInv, NoLostWakeup, MustWait
        <3>3. lh'.n \in Nat /\ outstanding \in Nat
            BY <1>6 DEF LInv, TypeOK, logheader
        <3>4. lh'.n + (outstanding + 1) * MAXOPBLOCKS > LOGSIZE
            BY <1>4, <1>5, <3>2, <3>3, MustWaitGrows, SMTT(60)
        <3> QED BY <3>2, <3>4 DEF MustWait
    <2> QED BY <2>1 DEF NoLostWakeup
<1> QED BY <1>6, <1>7, <1>8, <1>9, <1>10, <1>11, <1>12, <1>13 DEF LInv

(***************************************************************************)
(* commit(), crashes and recover_from_log()                                *)
(***************************************************************************)
\* The blocks of the transaction that is written to the log are cached, so
\* write_log() does not read them from the disk.
LEMMA WriteLogCached ==
    ASSUME LInv, write_log
    PROVE  /\ committing /\ Active = {} /\ Uninstalled = 1..lh.n /\ dhead.n = 0
           /\ tail \in 1..lh.n /\ lh.n \in 0..LOGSIZE /\ cache' = cache
           /\ dlog' = [dlog EXCEPT ![tail] = cache[lh.block[tail]]]
<1> USE DEF write_log
<1>1. /\ committing /\ Active = {} /\ Uninstalled = 1..lh.n /\ dhead.n = 0
      /\ tail \in 1..lh.n /\ lh.n \in 0..LOGSIZE
    BY DEF LInv, TypeOK, Control, Headers, Uninstalled, logheader
<1>2. lh.block[tail] \in Blocks /\ cache[lh.block[tail]] # NotCached
    BY <1>1 DEF LInv, Headers, HeaderSound, Buffers
<1>3. Contents(lh.block[tail]) = cache[lh.block[tail]]
    BY <1>2 DEF Contents
<1> QED BY <1>1, <1>3 DEF LInv, TypeOK

\* A round of write_log() keeps the invariant.
LEMMA WriteLogStep ==
    ASSUME LInv, write_log
    PROVE  LInv'
<1> USE DEF write_log
<1>1. /\ committing /\ Active = {} /\ Uninstalled = 1..lh.n /\ dhead.n = 0
      /\ tail \in 1..lh.n /\ lh.n \in 0..LOGSIZE /\ cache' = cache
      /\ dlog' = [dlog EXCEPT ![tail] = cache[lh.block[tail]]]
    BY WriteLogCached
<1>2. LOGSIZE \in Nat /\ tail \in Slots
    BY <1>1, LogAssumption DEF Slots
<1>3. phase' \in {"write_log", "write_head"} /\ (phase' = "write_log" <=> tail # lh.n)
    BY DEF LastRound
<1>4. Active' = Active
    BY DEF Active
<1>5. cache[lh.block[tail]] \in Data
    BY <1>1 DEF LInv, TypeOK, Headers, HeaderSound, Buffers
<1>6. TypeOK'
    <2>1. tail' \in 1..LOGSIZE + 1
        BY <1>1, <1>2
    <2>2. dlog' \in [Slots -> Data]
        BY <1>1, <1>5, ZenonT(60) DEF LInv, TypeOK
    <2> QED BY <1>1, <1>3, <2>1, <2>2, ZenonT(60) DEF LInv, TypeOK, Phases
<1>7. Control'
    BY <1>1, <1>2, <1>3, <1>4 DEF LInv, Control
<1>8. Writing'
    BY <1>1, <1>4 DEF LInv, Writing, Logged
<1>9. Headers'
    BY <1>1, <1>3 DEF LInv, Headers, HeaderSound
<1>10. Uninstalled' = Uninstalled
    BY <1>1, <1>3 DEF Uninstalled
<1>11. Buffers'
    BY <1>1, <1>10, SMTT(60) DEF LInv, Buffers
<1>12. \A i \in 1..tail : dlog'[i] = cache[lh.block[i]]
    BY <1>1, <1>2 DEF LInv, TypeOK, Copies, Slots
<1>13. Copies'
    BY <1>1, <1>2, <1>3, <1>10, <1>12 DEF Copies
<1>14. Tickets' = Tickets
    BY <1>4 DEF Tickets
<1>15. Reserved' /\ NoLostWakeup'
    BY <1>14 DEF LInv, Reserved, NoLostWakeup, MustWait
<1> QED BY <1>6, <1>7, <1>8, <1>9, <1>11, <1>13, <1>15 DEF LInv

\* The commit point keeps the invariant: the header on the disk is log.lh now.
LEMMA WriteHeadStep ==
    ASSUME LInv, write_head
    PROVE  LInv'
<1> USE DEF write_head
<1>1. /\ committing /\ Active = {} /\ Uninstalled = 1..lh.n
      /\ lh.n \in 1..LOGSIZE /\ LOGSIZE \in Nat
    BY LogAssumption DEF LInv, TypeOK, Control, Uninstalled, logheader
<1>2. /\ dhead' \in logheader /\ dhead'.n = lh.n
      /\ \A i \in 1..lh.n : dhead'.block[i] = lh.block[i]
    BY <1>1 DEF Header, LInv, TypeOK, logheader, Slots
<1>3. Active' = Active
    BY DEF Active
<1>4. TypeOK'
    BY <1>1, <1>2 DEF LInv, TypeOK, Phases
<1>5. Control'
    BY <1>1, <1>3 DEF LInv, Control
<1>6. Writing'
    BY <1>3, ZenonT(60) DEF LInv, Writing, Logged
<1>7. Headers'
    BY <1>2 DEF LInv, Headers, HeaderSound
<1>8. Uninstalled' = Uninstalled
    BY <1>1 DEF Uninstalled
<1>9. Buffers'
    BY <1>8 DEF LInv, Buffers
<1>10. Copies'
    BY <1>8 DEF LInv, Copies
<1>11. Tickets' = Tickets
    BY <1>3 DEF Tickets
<1>12. Reserved' /\ NoLostWakeup'
    BY <1>11 DEF LInv, Reserved, NoLostWakeup, MustWait
<1> QED BY <1>4, <1>5, <1>6, <1>7, <1>9, <1>10, <1>12 DEF LInv
=============================================================================
