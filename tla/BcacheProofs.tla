---------------------------- MODULE BcacheProofs ----------------------------
(***************************************************************************)
(* Proofs about the buffer cache, for every number of buffers, processes   *)
(* and blocks: BInv is kept by the critical sections under bcache.lock too *)
(* (the three outcomes of bget(), and brelse()), so it is inductive; the   *)
(* safety properties follow from it, and so does that the cache implements *)
(* a store of locked blocks (BlockStore).                                  *)
(***************************************************************************)
EXTENDS BcacheLocks

\* bget() that finds the block in a buffer preserves the invariant: refcnt
\* counts one more user.
LEMMA FoundStep ==
    ASSUME BInv, NEW p \in Procs, NEW b \in Blocks, bget(p, b),
           NEW i \in Bufs, found(p, b, i)
    PROVE  BInv'
<1>1. /\ pc[p] = "idle" /\ blockno[i] = b
      /\ refcnt' = [refcnt EXCEPT ![i] = @ + 1]
      /\ buf' = [buf EXCEPT ![p] = i]
      /\ pc' = [pc EXCEPT ![p] = "acquiresleep"]
      /\ want' = [want EXCEPT ![p] = b]
      /\ UNCHANGED <<lru, blockno, valid, dirty, data, owner, disk, idequeue, drive>>
    BY DEF bget, found, Cached, goto
<1>2. TypeOK'
    BY <1>1, SMTT(60) DEF BInv, TypeOK
<1>3. Counted'
    <2>1. /\ Users(i)' = Users(i) \cup {p}
          /\ \A j \in Bufs : j # i => Users(j)' = Users(j)
          /\ Cardinality(Users(i)') = refcnt[i] + 1
        BY <1>1, UserAdded, ZenonT(60)
    <2>2. \A j \in Bufs : refcnt'[j] = IF j = i THEN refcnt[i] + 1 ELSE refcnt[j]
        BY <1>1 DEF BInv, TypeOK
    <2>3. \A j \in Bufs : refcnt'[j] = Cardinality(Users(j)')
        BY <2>1, <2>2 DEF BInv, Counted
    <2>4. \A q \in Procs : want'[q] = IF q = p THEN b ELSE want[q]
        BY <1>1 DEF BInv, TypeOK
    <2>5. \A j \in Bufs : p \notin Users(j) /\ Users(j) \subseteq Procs
        BY <1>1 DEF Users
    <2>6. ASSUME NEW j \in Bufs, NEW q \in Users(j)' PROVE blockno'[j] = want'[q] /\ want'[q] \in Blocks
        <3>1. CASE q = p
            BY <3>1, <2>6, <2>1, <2>4, <2>5, <1>1
        <3>2. CASE q # p
            BY <3>2, <2>6, <2>1, <2>4, <2>5, <1>1 DEF BInv, Counted
        <3> QED BY <3>1, <3>2
    <2> QED BY <2>3, <2>6 DEF Counted
<1>4. Locked' /\ Queued' /\ RequestsSound' /\ SleepersWait'
    BY <1>1, BcacheLockFrame, ZenonT(60)
<1>5. OneBuffer' /\ Stored'
    BY <1>1 DEF BInv, OneBuffer, Stored
<1>6. Pending'
    BY <1>1, ZenonT(60) DEF BInv, TypeOK, Pending
<1> QED BY <1>2, <1>3, <1>4, <1>5, <1>6 DEF BInv

\* bget() that recycles a buffer preserves the invariant: refcnt is 0, so
\* nobody relied on the old block.
LEMMA RecycleStep ==
    ASSUME BInv, NEW p \in Procs, NEW b \in Blocks, bget(p, b), recycle(p, b)
    PROVE  BInv'
<1>0. PICK i \in Free : i = LeastRecent
    BY LeastRecentFree DEF BInv, recycle
<1>1. /\ pc[p] = "idle" /\ Cached(b) = {}
      /\ blockno' = [blockno EXCEPT ![i] = b]
      /\ valid' = [valid EXCEPT ![i] = FALSE]
      /\ dirty' = [dirty EXCEPT ![i] = FALSE]
      /\ refcnt' = [refcnt EXCEPT ![i] = 1]
      /\ buf' = [buf EXCEPT ![p] = i]
      /\ pc' = [pc EXCEPT ![p] = "acquiresleep"]
      /\ want' = [want EXCEPT ![p] = b]
      /\ UNCHANGED <<lru, data, owner, disk, idequeue, drive>>
    BY <1>0 DEF bget, recycle, goto
<1>3. i \in Bufs /\ refcnt[i] = 0 /\ Users(i) = {} /\ owner[i] = NoProc
    <2>1. i \in Bufs /\ refcnt[i] = 0
        BY <1>0 DEF Free
    <2> QED BY <2>1, UsersCounted, UnusedUnlocked
<1>4. \A q \in Procs : pc[q] \notin {"idle", "panic"} => buf[q] # i
    BY <1>3 DEF Users
<1>5. TypeOK'
    BY <1>1, <1>3, ZenonT(60) DEF BInv, TypeOK
<1>6. Counted'
    <2>1. /\ Users(i)' = {p}
          /\ \A j \in Bufs : j # i => Users(j)' = Users(j)
          /\ Cardinality(Users(i)') = 1
        <3>1. Users(i)' = Users(i) \cup {p} /\ Cardinality(Users(i)') = refcnt[i] + 1
              /\ \A j \in Bufs : j # i => Users(j)' = Users(j)
            BY <1>1, <1>3, UserAdded, ZenonT(60)
        <3> QED BY <1>3, <3>1
    <2>2. \A j \in Bufs : /\ refcnt'[j] = IF j = i THEN 1 ELSE refcnt[j]
                          /\ blockno'[j] = IF j = i THEN b ELSE blockno[j]
        BY <1>1, <1>3 DEF BInv, TypeOK
    <2>3. \A j \in Bufs : refcnt'[j] = Cardinality(Users(j)')
        BY <2>1, <2>2 DEF BInv, Counted
    <2>4. \A q \in Procs : want'[q] = IF q = p THEN b ELSE want[q]
        BY <1>1 DEF BInv, TypeOK
    <2>5. \A j \in Bufs : p \notin Users(j) /\ Users(j) \subseteq Procs
        BY <1>1 DEF Users
    <2>6. ASSUME NEW j \in Bufs, NEW q \in Users(j)' PROVE blockno'[j] = want'[q] /\ want'[q] \in Blocks
        <3>1. CASE j = i
            BY <3>1, <2>6, <2>1, <2>2, <2>4, SMTT(60)
        <3>2. CASE j # i
            BY <3>2, <2>6, <2>1, <2>2, <2>4, <2>5, SMTT(60) DEF BInv, Counted
        <3> QED BY <3>1, <3>2
    <2> QED BY <2>3, <2>6 DEF Counted
<1>7. Locked' /\ Queued' /\ RequestsSound' /\ SleepersWait'
    BY <1>1, <1>3, BcacheLockFrame, ZenonT(60)
<1>8. OneBuffer'
    <2>1. \A j \in Bufs : blockno[j] # b
        BY <1>1 DEF Cached
    <2> QED BY <1>1, <1>3, <2>1, ZenonT(60) DEF BInv, TypeOK, OneBuffer
<1>9. Pending'
    <2>1. \A q \in Procs : pc[q] \in {"iderw", "has"} => buf[q] # i
        BY <1>4
    <2>2. \A q \in Procs : q # p => pc'[q] = pc[q] /\ buf'[q] = buf[q] /\ buf[q] \in Bufs
        BY <1>1 DEF BInv, TypeOK
    <2>3. pc'[p] = "acquiresleep"
        BY <1>1 DEF BInv, TypeOK
    <2>4. \A j \in Bufs : j # i => valid'[j] = valid[j] /\ dirty'[j] = dirty[j]
        BY <1>1 DEF BInv, TypeOK
    <2>5. ASSUME NEW q \in Procs
          PROVE  /\ pc'[q] = "iderw" => ~valid'[buf'[q]] \/ dirty'[buf'[q]]
                 /\ pc'[q] = "has" => valid'[buf'[q]]
        <3>1. CASE q = p
            BY <3>1, <2>3
        <3>2. CASE q # p /\ pc[q] \in {"iderw", "has"}
            <4>1. valid'[buf'[q]] = valid[buf[q]] /\ dirty'[buf'[q]] = dirty[buf[q]] /\ pc'[q] = pc[q]
                BY <3>2, <2>1, <2>2, <2>4, SMTT(60)
            <4> QED BY <4>1 DEF BInv, Pending
        <3>3. CASE q # p /\ pc[q] \notin {"iderw", "has"}
            BY <3>3, <2>2
        <3> QED BY <3>1, <3>2, <3>3
    <2> QED BY <2>5 DEF Pending
<1>10. Stored'
    <2>1. idequeue # <<>> => Head(idequeue) \in Bufs /\ Head(idequeue) # i
        BY <1>4, HeadWaits
    <2> QED BY <1>1, <1>3, <2>1, ZenonT(60) DEF BInv, TypeOK, Stored
<1> QED BY <1>5, <1>6, <1>7, <1>8, <1>9, <1>10 DEF BInv

\* bget() that panics preserves the invariant.
LEMMA NoBuffersStep ==
    ASSUME BInv, NEW p \in Procs, NEW b \in Blocks, bget(p, b), no_buffers(p, b)
    PROVE  BInv'
<1>1. /\ pc[p] = "idle" /\ buf[p] \in Bufs
      /\ pc' = [pc EXCEPT ![p] = "panic"]
      /\ want' = [want EXCEPT ![p] = b]
      /\ UNCHANGED <<lru, blockno, valid, dirty, refcnt, data, buf, owner, disk, idequeue, drive>>
    BY DEF bget, no_buffers, goto, BInv, TypeOK
<1>2. TypeOK'
    BY <1>1 DEF BInv, TypeOK
<1>3. Counted'
    <2>1. \A j \in Bufs : Users(j)' = Users(j)
        BY <1>1, SameUsers DEF BInv, TypeOK
    <2>2. \A j \in Bufs : p \notin Users(j) /\ Users(j) \subseteq Procs
        BY <1>1 DEF Users
    <2>3. \A q \in Procs : q # p => want'[q] = want[q]
        BY <1>1 DEF BInv, TypeOK
    <2> QED BY <1>1, <2>1, <2>2, <2>3 DEF BInv, Counted
<1>4. Locked' /\ Queued' /\ RequestsSound' /\ SleepersWait'
    <2>1. buf' = [buf EXCEPT ![p] = buf[p]]
        BY <1>1 DEF BInv, TypeOK
    <2> QED BY <1>1, <2>1, BcacheLockFrame, ZenonT(60)
<1>5. OneBuffer' /\ Stored'
    BY <1>1 DEF BInv, OneBuffer, Stored
<1>6. Pending'
    BY <1>1, SMTT(60) DEF BInv, TypeOK, Pending
<1> QED BY <1>2, <1>3, <1>4, <1>5, <1>6 DEF BInv

\* The rest of brelse() preserves the invariant: refcnt counts one user less,
\* and the list has the same buffers.
LEMMA BrelseStep ==
    ASSUME BInv, NEW p \in Procs, brelse(p)
    PROVE  BInv'
<1>0. PICK i \in Bufs : i = buf[p]
    BY DEF BInv, TypeOK
<1>1. /\ pc[p] = "brelse"
      /\ refcnt' = [refcnt EXCEPT ![i] = @ - 1]
      /\ lru' \in {lru, moved(i)}
      /\ buf' = [buf EXCEPT ![p] = 1]
      /\ pc' = [pc EXCEPT ![p] = "idle"]
      /\ want' = [want EXCEPT ![p] = NoBlock]
      /\ UNCHANGED <<blockno, valid, dirty, data, owner, disk, idequeue, drive>>
    BY <1>0 DEF brelse, goto
<1>2. 1 \in Bufs
    BY BcacheAssumption DEF Bufs
<1>3. /\ p \in Users(i) /\ \A j \in Bufs : j # i => p \notin Users(j)
      /\ IsFiniteSet(Users(i)) /\ refcnt[i] = Cardinality(Users(i))
      /\ refcnt[i] \in Nat \ {0}
    <2>1. p \in Users(i) /\ \A j \in Bufs : j # i => p \notin Users(j)
        BY <1>0, <1>1 DEF Users
    <2> QED BY <1>1, <2>1, UsersCounted, SMTT(60) DEF BInv, Counted
<1>4. TypeOK'
    <2>1. lru' \in [Bufs -> Bufs] /\ \A j \in Bufs : \E k \in Bufs : lru'[k] = j
        <3>1. CASE lru' = lru
            BY <3>1, ZenonT(60) DEF BInv, TypeOK
        <3>2. CASE lru' = moved(i)
            BY <3>2, MovedList, ZenonT(60) DEF BInv
        <3> QED BY <1>1, <3>1, <3>2
    <2>2. refcnt' \in [Bufs -> Nat]
        BY <1>1, <1>3, SMTT(60) DEF BInv, TypeOK
    <2> QED BY <1>1, <1>2, <2>1, <2>2, ZenonT(60) DEF BInv, TypeOK
<1>5. Counted'
    <2>1. \A q \in Procs : q # p => /\ buf'[q] = buf[q] /\ pc'[q] = pc[q] /\ want'[q] = want[q]
        BY <1>1 DEF BInv, TypeOK
    <2>2. pc'[p] = "idle"
        BY <1>1 DEF BInv, TypeOK
    <2>3. \A j \in Bufs : Users(j)' = Users(j) \ {p}
        BY <2>1, <2>2 DEF Users
    <2>4. Cardinality(Users(i) \ {p}) = Cardinality(Users(i)) - 1
        BY <1>3, FS_RemoveElement, ZenonT(60)
    <2>5. \A j \in Bufs : j # i => Users(j) \ {p} = Users(j)
        BY <1>3
    <2>6. \A j \in Bufs : refcnt'[j] = IF j = i THEN refcnt[i] - 1 ELSE refcnt[j]
        BY <1>1 DEF BInv, TypeOK
    <2>7. \A j \in Bufs : refcnt'[j] = Cardinality(Users(j)')
        <3>1. ASSUME NEW j \in Bufs PROVE refcnt'[j] = Cardinality(Users(j) \ {p})
            BY <1>3, <2>4, <2>5, <2>6, ZenonT(60) DEF BInv, Counted
        <3> QED BY <2>3, <3>1
    <2>8. \A j \in Bufs : Users(j) \subseteq Procs
        BY DEF Users
    <2> QED BY <1>1, <2>1, <2>3, <2>7, <2>8 DEF BInv, Counted
<1>6. Locked' /\ Queued' /\ RequestsSound' /\ SleepersWait'
    BY <1>1, <1>2, BcacheLockFrame, ZenonT(60)
<1>7. OneBuffer' /\ Stored'
    BY <1>1 DEF BInv, OneBuffer, Stored
<1>8. Pending'
    BY <1>1, ZenonT(60) DEF BInv, TypeOK, Pending
<1> QED BY <1>4, <1>5, <1>6, <1>7, <1>8 DEF BInv

(***************************************************************************)
(* The invariant and the properties                                        *)
(***************************************************************************)
\* What binit() sets up satisfies the invariant.
LEMMA InitBInv ==
    ASSUME Init
    PROVE  BInv
<1> USE DEF Init
<1>0. NBUF \in Nat \ {0} /\ NoProc \notin Procs /\ NoBlock \notin Blocks
    BY BcacheAssumption
<1>1. TypeOK
    <2>1. lru \in [Bufs -> Bufs]
        BY <1>0 DEF Bufs
    <2>2. ASSUME NEW i \in Bufs PROVE \E k \in Bufs : lru[k] = i
        <3>1. NBUF + 1 - i \in Bufs /\ lru[NBUF + 1 - i] = i
            BY <1>0 DEF Bufs
        <3> QED BY <3>1
    <2>3. buf \in [Procs -> Bufs]
        BY <1>0 DEF Bufs
    <2> QED BY <2>1, <2>2, <2>3 DEF TypeOK
<1>2. Counted
    <2>1. \A i \in Bufs : Users(i) = {}
        BY DEF Users
    <2> QED BY <2>1, FS_EmptySet, ZenonT(60) DEF Counted
<1>3. OneBuffer /\ Locked /\ Pending /\ Stored
    BY DEF OneBuffer, Locked, Locking, Pending, Stored
<1>4. Queued /\ RequestsSound /\ SleepersWait
    BY DEF Queued, RequestsSound, SleepersWait
<1> QED BY <1>1, <1>2, <1>3, <1>4 DEF BInv

\* Every step of the cache keeps BInv.
LEMMA NextBInv ==
    ASSUME BInv, [Next]_vars
    PROVE  BInv'
<1>1. CASE UNCHANGED vars
    <2>1. \A i \in Bufs : Users(i)' = Users(i)
        BY <1>1, SameUsers DEF vars
    <2>2. Counted'
        BY <1>1, <2>1, SMTT(60) DEF vars, BInv, Counted
    <2>3. TypeOK' /\ OneBuffer' /\ Locked' /\ Pending'
        BY <1>1 DEF vars, BInv, TypeOK, OneBuffer, Locked, Pending
    <2>4. Queued' /\ RequestsSound' /\ SleepersWait' /\ Stored'
        BY <1>1 DEF vars, BInv, Queued, RequestsSound, SleepersWait, Stored
    <2> QED BY <2>2, <2>3, <2>4 DEF BInv
<1>2. ASSUME NEW p \in Procs, acquiresleep(p) \/ releasesleep(p) \/ brelse(p) \/ iderw(p)
      PROVE  BInv'
    BY <1>2, AcquiresleepStep, ReleasesleepStep, BrelseStep, IderwStep
<1>3. ASSUME NEW p \in Procs, NEW b \in Blocks, bget(p, b)
      PROVE  BInv'
    <2>1. (\E i \in Bufs : found(p, b, i)) \/ recycle(p, b) \/ no_buffers(p, b)
        BY <1>3 DEF bget
    <2> QED BY <1>3, <2>1, FoundStep, RecycleStep, NoBuffersStep
<1>4. ASSUME NEW p \in Procs, NEW v \in Data, log_write(p, v) \/ bwrite(p, v)
      PROVE  BInv'
    BY <1>4, LogWriteStep, BwriteStep
<1>5. CASE ideintr
    BY <1>5, IdeintrStep
<1> QED BY <1>1, <1>2, <1>3, <1>4, <1>5 DEF Next

\* BInv always holds, however bget(), brelse(), the sleep-locks and the disk
\* interrupt interleave.
THEOREM BcacheInvariance == Spec => []BInv
<1>1. Init => BInv
    BY InitBInv
<1>2. BInv /\ [Next]_vars => BInv'
    BY NextBInv
<1> QED BY <1>1, <1>2, PTL DEF Spec

\* bget() never puts a block into two buffers.
THEOREM OneBufferAlways == Spec => []OneBuffer
<1>1. BInv => OneBuffer
    BY DEF BInv
<1> QED BY <1>1, BcacheInvariance, PTL

\* bread() returns the block it was asked for, locked and valid, although
\* bget() gave up bcache.lock before it had the sleep-lock.
THEOREM BreadGetsItsBlock == Spec => []GetsItsBlock
<1>1. BInv => GetsItsBlock
    <2>1. SUFFICES ASSUME BInv, NEW p \in Procs, pc[p] = "has"
                   PROVE  owner[buf[p]] = p /\ blockno[buf[p]] = want[p] /\ valid[buf[p]]
        BY DEF GetsItsBlock
    <2>2. buf[p] \in Bufs /\ p \in Users(buf[p])
        BY <2>1 DEF BInv, TypeOK, Users
    <2>3. owner[buf[p]] = p
        BY <2>1 DEF BInv, Locked, Locking
    <2>4. blockno[buf[p]] = want[p]
        BY <2>1, <2>2 DEF BInv, Counted
    <2>5. valid[buf[p]]
        BY <2>1 DEF BInv, Pending
    <2> QED BY <2>3, <2>4, <2>5
<1> QED BY <1>1, BcacheInvariance, PTL

\* No panic in iderw(), and no buffer twice in its queue.
THEOREM RequestsAlwaysSound == Spec => []RequestsSound
<1>1. BInv => RequestsSound
    BY DEF BInv
<1> QED BY <1>1, BcacheInvariance, PTL

\* No wakeup() of releasesleep() or ideintr() is lost.
THEOREM SleepersAlwaysWait == Spec => []SleepersWait
<1>1. BInv => SleepersWait
    BY DEF BInv
<1> QED BY <1>1, BcacheInvariance, PTL

(***************************************************************************)
(* The buffer cache implements BlockStore                                  *)
(***************************************************************************)
\* What Value and Holder are for a block that is in no buffer, and for one
\* that is; then the same after a step.
LEMMA Values ==
    ASSUME BInv, NEW b \in Blocks
    PROVE  /\ (\A i \in Bufs : blockno[i] # b) => Value[b] = disk[b] /\ Holder[b] = NoProc
           /\ \A i \in Bufs : blockno[i] = b =>
                /\ Value[b] = IF valid[i] THEN data[i] ELSE disk[b]
                /\ Holder[b] = owner[i]
<1>1. (\A i \in Bufs : blockno[i] # b) => Cached(b) = {}
    BY DEF Cached
<1>2. ASSUME NEW i \in Bufs, blockno[i] = b PROVE Cached(b) # {} /\ Home(b) = i
    <2>1. \A j \in Bufs : blockno[j] = b => j = i
        BY <1>2, BcacheAssumption DEF BInv, OneBuffer
    <2> QED BY <1>2, <2>1 DEF Cached, Home
<1> QED BY <1>1, <1>2 DEF Value, Holder

\* Values and holders in the next state, by the buffer that has the block.
LEMMA ValuesNext ==
    ASSUME BInv', NEW b \in Blocks
    PROVE  /\ (\A i \in Bufs : blockno'[i] # b) => Value'[b] = disk'[b] /\ Holder'[b] = NoProc
           /\ \A i \in Bufs : blockno'[i] = b =>
                /\ Value'[b] = IF valid'[i] THEN data'[i] ELSE disk'[b]
                /\ Holder'[b] = owner'[i]
<1>1. (\A i \in Bufs : blockno'[i] # b) => Cached(b)' = {}
    BY DEF Cached
<1>2. ASSUME NEW i \in Bufs, blockno'[i] = b PROVE Cached(b)' # {} /\ Home(b)' = i
    <2>1. \A j \in Bufs : blockno'[j] = b => j = i
        BY <1>2, BcacheAssumption DEF BInv, OneBuffer
    <2> QED BY <1>2, <2>1 DEF Cached, Home
<1> QED BY <1>1, <1>2 DEF Value, Holder

\* A user's buffer holds a block, and no other buffer holds it.
LEMMA OwnBlock ==
    ASSUME BInv, NEW p \in Procs, pc[p] \notin {"idle", "panic"}
    PROVE  /\ buf[p] \in Bufs /\ blockno[buf[p]] \in Blocks
           /\ \A j \in Bufs : blockno[j] = blockno[buf[p]] => j = buf[p]
<1>1. buf[p] \in Bufs /\ p \in Users(buf[p])
    BY DEF BInv, TypeOK, Users
<1>2. blockno[buf[p]] \in Blocks
    BY <1>1 DEF BInv, Counted
<1> QED BY <1>1, <1>2, BcacheAssumption DEF BInv, OneBuffer

\* Getting and losing the sleep-lock of a buffer locks and unlocks its block.
LEMMA LockRefines ==
    ASSUME BInv, BInv', NEW p \in Procs, acquiresleep(p) \/ releasesleep(p)
    PROVE  S!Next \/ UNCHANGED S!vars
<1>1. PICK i \in Bufs, b \in Blocks :
        /\ i = buf[p] /\ b = blockno[i] /\ pc[p] \in {"acquiresleep", "has"}
        /\ \A j \in Bufs : blockno[j] = b => j = i
    BY OwnBlock DEF acquiresleep, releasesleep
<1>2. UNCHANGED <<blockno, valid, data, disk>>
    BY DEF acquiresleep, releasesleep
<1>3. Value' = Value
    BY <1>2 DEF Value, Home, Cached
<1>4. ASSUME NEW o, owner' = [owner EXCEPT ![i] = o] PROVE Holder' = [Holder EXCEPT ![b] = o]
    <2>1. ASSUME NEW c \in Blocks PROVE Holder'[c] = IF c = b THEN o ELSE Holder[c]
        <3>1. CASE \E j \in Bufs : blockno[j] = c
            <4>1. PICK j \in Bufs : blockno[j] = c
                BY <3>1
            <4>2. Holder'[c] = owner'[j] /\ Holder[c] = owner[j]
                BY <4>1, <1>2, Values, ValuesNext, SMTT(60)
            <4>3. j = i <=> c = b
                BY <4>1, <1>1
            <4> QED BY <1>4, <4>2, <4>3, SMTT(60) DEF BInv, TypeOK
        <3>2. CASE \A j \in Bufs : blockno[j] # c
            <4>1. Holder'[c] = NoProc /\ Holder[c] = NoProc /\ c # b
                BY <3>2, <1>1, <1>2, Values, ValuesNext
            <4> QED BY <4>1, SMTT(60)
        <3> QED BY <3>1, <3>2, SMTT(60)
    <2> QED BY <2>1, ZenonT(60) DEF Holder
<1>5. Holder[b] = owner[i]
    BY <1>1, Values
<1>6. CASE acquiresleep(p)
    <2>1. CASE owner[i] = NoProc
        <3>1. owner' = [owner EXCEPT ![i] = p]
            BY <1>1, <1>6, <2>1 DEF acquiresleep, Unlocked
        <3>2. S!Lock(p, b)
            BY <1>3, <1>4, <1>5, <2>1, <3>1, ZenonT(60) DEF S!Lock
        <3> QED BY <3>2 DEF S!Next
    <2>2. CASE owner[i] # NoProc
        <3>1. owner' = owner
            BY <1>1, <1>6, <2>2 DEF acquiresleep, Unlocked
        <3>2. Holder' = Holder
            BY <1>2, <3>1, SMTT(60) DEF Holder, Home, Cached
        <3> QED BY <1>3, <3>2 DEF S!vars
    <2> QED BY <2>1, <2>2
<1>7. CASE releasesleep(p)
    <2>1. owner' = [owner EXCEPT ![i] = NoProc] /\ owner[i] = p
        BY <1>1, <1>7 DEF releasesleep, BInv, Locked, Locking
    <2>2. S!Unlock(p, b)
        BY <1>3, <1>4, <1>5, <2>1, ZenonT(60) DEF S!Unlock
    <2> QED BY <2>2, SMTT(60) DEF S!Next
<1> QED BY <1>6, <1>7

\* Changing the data of a locked buffer writes its block, on the disk or not.
LEMMA WriteRefines ==
    ASSUME BInv, BInv', NEW p \in Procs, NEW v \in Data, log_write(p, v) \/ bwrite(p, v)
    PROVE  S!Next
<1>1. PICK i \in Bufs, b \in Blocks :
        /\ i = buf[p] /\ b = blockno[i]
        /\ \A j \in Bufs : blockno[j] = b => j = i
    BY OwnBlock, SMTT(60) DEF log_write, bwrite
<1>2. /\ pc[p] = "has" /\ data' = [data EXCEPT ![i] = v]
      /\ UNCHANGED <<blockno, valid, owner, disk>>
    BY <1>1, SMTT(60) DEF log_write, bwrite
<1>3. valid[i] /\ owner[i] = p
    BY <1>1, <1>2, SMTT(60) DEF BInv, Pending, Locked, Locking
<1>4. Holder' = Holder /\ Holder[b] = p
    <2>1. Holder' = Holder
        BY <1>2 DEF Holder, Home, Cached
    <2> QED BY <1>1, <1>3, <2>1, Values
<1>5. Value' = [Value EXCEPT ![b] = v]
    <2>1. ASSUME NEW c \in Blocks PROVE Value'[c] = IF c = b THEN v ELSE Value[c]
        <3>1. CASE \E j \in Bufs : blockno[j] = c
            <4>1. PICK j \in Bufs : blockno[j] = c
                BY <3>1
            <4>2. /\ Value'[c] = IF valid[j] THEN data'[j] ELSE disk[c]
                  /\ Value[c] = IF valid[j] THEN data[j] ELSE disk[c]
                BY <4>1, <1>2, Values, ValuesNext, SMTT(60)
            <4>3. j = i <=> c = b
                BY <4>1, <1>1
            <4> QED BY <1>2, <1>3, <4>2, <4>3, ZenonT(60) DEF BInv, TypeOK
        <3>2. CASE \A j \in Bufs : blockno[j] # c
            <4>1. Value'[c] = disk[c] /\ Value[c] = disk[c] /\ c # b
                BY <3>2, <1>1, <1>2, Values, ValuesNext
            <4> QED BY <4>1, SMTT(60)
        <3> QED BY <3>1, <3>2, SMTT(60)
    <2> QED BY <2>1, ZenonT(60) DEF Value
<1>6. S!Write(p, b, v)
    BY <1>4, <1>5 DEF S!Write
<1> QED BY <1>6 DEF S!Next

\* Recycling a buffer changes no value: it was not dirty, so the disk has what it had.
LEMMA RecycleRefines ==
    ASSUME BInv, BInv', NEW p \in Procs, NEW b \in Blocks, bget(p, b), recycle(p, b)
    PROVE  UNCHANGED S!vars
<1>1. PICK i \in Free : i = LeastRecent
    BY LeastRecentFree DEF BInv, recycle
<1>2. i \in Bufs /\ ~dirty[i] /\ owner[i] = NoProc
    BY <1>1, UnusedUnlocked DEF Free
<1>3. /\ \A j \in Bufs : blockno[j] # b
      /\ blockno' = [blockno EXCEPT ![i] = b] /\ valid' = [valid EXCEPT ![i] = FALSE]
      /\ data' = data /\ owner' = owner /\ disk' = disk
    BY <1>1 DEF bget, recycle, Cached
<1>4. \A j \in Bufs : /\ blockno'[j] = IF j = i THEN b ELSE blockno[j]
                      /\ j # i => valid'[j] = valid[j]
    BY <1>2, <1>3, ZenonT(60) DEF BInv, TypeOK
<1>5. ~valid'[i]
    BY <1>2, <1>3, ZenonT(60) DEF BInv, TypeOK
<1>6. ASSUME NEW c \in Blocks PROVE Value'[c] = Value[c] /\ Holder'[c] = Holder[c]
    <2>1. CASE c = b
        <3>1. Value[c] = disk[c] /\ Holder[c] = NoProc
            BY <2>1, <1>3, Values, ZenonT(60)
        <3>2. Value'[c] = disk'[c] /\ Holder'[c] = owner'[i]
            BY <2>1, <1>2, <1>4, <1>5, ValuesNext, ZenonT(60)
        <3> QED BY <3>1, <3>2, <1>2, <1>3, ZenonT(60)
    <2>2. CASE c # b /\ blockno[i] = c
        <3>1. \A j \in Bufs : blockno'[j] # c
            BY <2>2, <1>2, <1>4, BcacheAssumption, ZenonT(60) DEF BInv, OneBuffer
        <3>2. Value'[c] = disk[c] /\ Holder'[c] = NoProc
            BY <3>1, <1>3, ValuesNext, ZenonT(60)
        <3>3. Value[c] = (IF valid[i] THEN data[i] ELSE disk[c]) /\ Holder[c] = NoProc
            BY <2>2, <1>2, Values, ZenonT(60)
        <3>4. valid[i] => data[i] = disk[c]
            BY <2>2, <1>2, ZenonT(60) DEF BInv, Stored
        <3> QED BY <3>2, <3>3, <3>4, ZenonT(60)
    <2>3. CASE c # b /\ blockno[i] # c /\ \E j \in Bufs : blockno[j] = c
        <3>1. PICK j \in Bufs : blockno[j] = c /\ j # i
            BY <2>3, ZenonT(60)
        <3>2. blockno'[j] = c /\ valid'[j] = valid[j]
            BY <3>1, <1>4, ZenonT(60)
        <3>3. Value[c] = (IF valid[j] THEN data[j] ELSE disk[c]) /\ Holder[c] = owner[j]
            BY <3>1, Values, ZenonT(60)
        <3>4. Value'[c] = (IF valid'[j] THEN data'[j] ELSE disk'[c]) /\ Holder'[c] = owner'[j]
            BY <3>2, ValuesNext, ZenonT(60)
        <3> QED BY <1>3, <3>2, <3>3, <3>4
    <2>4. CASE c # b /\ \A j \in Bufs : blockno[j] # c
        <3>1. \A j \in Bufs : blockno'[j] # c
            BY <2>4, <1>4, ZenonT(60)
        <3> QED BY <2>4, <3>1, <1>3, Values, ValuesNext, ZenonT(60)
    <2> QED BY <2>1, <2>2, <2>3, <2>4, ZenonT(60)
<1>7. Value' = Value /\ Holder' = Holder
    BY <1>6, ZenonT(60) DEF Value, Holder
<1> QED BY <1>7 DEF S!vars

\* The disk interrupt changes no value: a write makes the disk agree with the
\* buffer, a read the buffer with the disk.
LEMMA IdeintrRefines ==
    ASSUME BInv, BInv', ideintr
    PROVE  UNCHANGED S!vars
<1>0. PICK i \in Bufs, b \in Blocks : i = Head(idequeue) /\ b = blockno[i] /\ idequeue # <<>>
    BY HeadWaits DEF ideintr
<1>1. /\ valid' = [valid EXCEPT ![i] = TRUE]
      /\ UNCHANGED <<blockno, owner>>
      /\ dirty[i] => disk' = [disk EXCEPT ![b] = drive] /\ data' = data
      /\ ~dirty[i] => data' = [data EXCEPT ![i] = disk[b]] /\ disk' = disk
    BY <1>0, SMTT(60) DEF ideintr
<1>2. /\ valid'[i]
      /\ \A j \in Bufs : j # i => valid'[j] = valid[j] /\ data'[j] = data[j]
      /\ \A c \in Blocks : c # b => disk'[c] = disk[c]
    <2>1. valid'[i] /\ \A j \in Bufs : j # i => valid'[j] = valid[j]
        BY <1>1, SMTT(60) DEF BInv, TypeOK
    <2>2. disk \in [Blocks -> Data] /\ data \in [Bufs -> Data]
        BY ZenonT(60) DEF BInv, TypeOK
    <2>3. CASE dirty[i]
        BY <1>1, <2>1, <2>2, <2>3
    <2>4. CASE ~dirty[i]
        BY <1>1, <2>1, <2>2, <2>4, SMTT(60)
    <2> QED BY <2>3, <2>4, SMTT(60)
<1>3. data'[i] = IF valid[i] THEN data[i] ELSE disk[b]
    <2>1. (dirty[i] => valid[i]) /\ (valid[i] /\ ~dirty[i] => data[i] = disk[b])
        BY <1>0, SMTT(60) DEF BInv, Stored
    <2>2. ~dirty[i] => data'[i] = disk[b]
        BY <1>1 DEF BInv, TypeOK
    <2> QED BY <1>1, <2>1, <2>2, SMTT(60)
<1>4. ASSUME NEW c \in Blocks PROVE Value'[c] = Value[c]
    <2>1. CASE c = b
        <3>1. Value[b] = IF valid[i] THEN data[i] ELSE disk[b]
            BY <1>0, Values, SMTT(60)
        <3>2. Value'[b] = IF valid'[i] THEN data'[i] ELSE disk'[b]
            BY <1>0, <1>1, ValuesNext, SMTT(60)
        <3> QED BY <2>1, <1>2, <1>3, <3>1, <3>2, SMTT(60)
    <2>2. CASE c # b /\ \E j \in Bufs : blockno[j] = c
        <3>1. PICK j \in Bufs : blockno[j] = c /\ j # i
            BY <2>2, <1>0, SMTT(60)
        <3>2. Value[c] = IF valid[j] THEN data[j] ELSE disk[c]
            BY <3>1, Values, SMTT(60)
        <3>3. Value'[c] = IF valid'[j] THEN data'[j] ELSE disk'[c]
            BY <3>1, <1>1, ValuesNext
        <3> QED BY <2>2, <3>1, <1>2, <3>2, <3>3, SMTT(60)
    <2>3. CASE c # b /\ \A j \in Bufs : blockno[j] # c
        <3>1. Value[c] = disk[c]
            BY <2>3, Values, SMTT(60)
        <3>2. Value'[c] = disk'[c]
            BY <2>3, <1>1, ValuesNext, SMTT(60)
        <3> QED BY <2>3, <1>2, <3>1, <3>2, SMTT(60)
    <2> QED BY <2>1, <2>2, <2>3, SMTT(60)
<1>5. Value' = Value
    BY <1>4 DEF Value
<1>6. Holder' = Holder
    BY <1>1 DEF Holder, Home, Cached
<1> QED BY <1>5, <1>6, SMTT(60) DEF S!vars

\* The cache, the sleep-locks and the disk driver implement BlockStore: every
\* block has one value, which only the holder of its lock changes.
THEOREM CacheIsCoherent == Spec => Coherent
<1>1. Init => S!Init
    <2>1. SUFFICES ASSUME Init PROVE S!Init
        OBVIOUS
    <2>2. BInv /\ \A b \in Blocks : \A i \in Bufs : blockno[i] # b
        BY <2>1, InitBInv, BcacheAssumption DEF Init
    <2>3. \A b \in Blocks : Value[b] = disk[b] /\ Holder[b] = NoProc
        BY <2>2, Values
    <2>4. disk \in [Blocks -> Data]
        BY <2>1 DEF Init
    <2>5. Value \in [Blocks -> Data]
        BY <2>3, <2>4 DEF Value
    <2>6. Holder = [b \in Blocks |-> NoProc]
        BY <2>3, SMTT(60) DEF Holder
    <2> QED BY <2>5, <2>6 DEF S!Init
<1>2. BInv /\ BInv' /\ [Next]_vars => [S!Next]_(S!vars)
    <2>1. SUFFICES ASSUME BInv, BInv', [Next]_vars PROVE S!Next \/ UNCHANGED S!vars
        OBVIOUS
    <2>2. ASSUME UNCHANGED <<blockno, valid, data, disk, owner>> PROVE UNCHANGED S!vars
        BY <2>2 DEF S!vars, Value, Holder, Home, Cached
    <2>3. CASE UNCHANGED vars
        BY <2>2, <2>3, SMTT(60) DEF vars
    <2>4. ASSUME NEW p \in Procs, acquiresleep(p) \/ releasesleep(p)
          PROVE  S!Next \/ UNCHANGED S!vars
        BY <2>1, <2>4, LockRefines
    <2>5. ASSUME NEW p \in Procs, brelse(p) \/ iderw(p) PROVE UNCHANGED S!vars
        BY <2>2, <2>5 DEF brelse, iderw
    <2>6. ASSUME NEW p \in Procs, NEW b \in Blocks, bget(p, b) PROVE UNCHANGED S!vars
        <3>1. CASE recycle(p, b)
            BY <2>1, <2>6, <3>1, RecycleRefines, SMTT(60)
        <3>2. CASE ~recycle(p, b)
            <4>1. UNCHANGED <<blockno, valid, data, disk, owner>>
                BY <2>6, <3>2 DEF bget, found, no_buffers
            <4> QED BY <2>2, <4>1, SMTT(60)
        <3> QED BY <3>1, <3>2
    <2>7. ASSUME NEW p \in Procs, NEW v \in Data, log_write(p, v) \/ bwrite(p, v) PROVE S!Next
        BY <2>1, <2>7, WriteRefines
    <2>8. CASE ideintr
        BY <2>1, <2>8, IdeintrRefines
    <2> QED BY <2>1, <2>3, <2>4, <2>5, <2>6, <2>7, <2>8 DEF Next
<1> QED BY <1>1, <1>2, BcacheInvariance, PTL DEF Spec, Coherent, S!Spec
=============================================================================
