---------------------------- MODULE BcacheLocks -----------------------------
(***************************************************************************)
(* What the proofs about the buffer cache rest on (the list that bget()    *)
(* scans, the count of a buffer's users, what a step that leaves the       *)
(* sleep-locks or the users alone keeps of BInv), and that BInv is kept by *)
(* what a process does with a buffer it has from bget() (the sleep-lock,   *)
(* log_write(), bwrite()) and by the disk driver.                          *)
(***************************************************************************)
EXTENDS Bcache, FiniteSetTheorems, WellFoundedInduction, TLAPS

(***************************************************************************)
(* The list of buffers                                                     *)
(***************************************************************************)
\* A set of places in the list that is not empty has a last one.
LEMMA LastPlace ==
    ASSUME NEW ks \in SUBSET Bufs, ks # {}
    PROVE  \E k \in ks : \A j \in ks : j <= k
<1> DEFINE T == {NBUF - k : k \in ks}
           R == OpToRel(<, Nat)
<1>1. NBUF \in Nat
    BY BcacheAssumption
<1>2. T \subseteq Nat /\ T # {}
    BY <1>1 DEF Bufs
<1>3. \E x \in T : \A y \in T : ~(<<y, x>> \in R)
    <2>1. IsWellFoundedOn(R, Nat)
        BY NatLessThanWellFounded, ZenonT(60)
    <2> HIDE DEF T, R
    <2> QED BY <2>1, <1>2, WFMin, ZenonT(60)
<1>4. \A x, y \in Nat : <<y, x>> \in R <=> y < x
    BY DEF OpToRel
<1> HIDE DEF R
<1>5. PICK x \in T : \A y \in T : ~(y < x)
    BY <1>2, <1>3, <1>4, ZenonT(60)
<1>6. PICK k \in ks : x = NBUF - k
    BY <1>5
<1>7. ASSUME NEW j \in ks PROVE j <= k
    <2>1. NBUF - j \in T
        OBVIOUS
    <2> QED BY <2>1, <1>1, <1>5, <1>6 DEF Bufs
<1> QED BY <1>7

\* What the backward scan of bget() finds may be recycled.
LEMMA LeastRecentFree ==
    ASSUME TypeOK, Free # {}
    PROVE  LeastRecent \in Free
<1> DEFINE ks == {k \in Bufs : lru[k] \in Free}
<1>1. ks \in SUBSET Bufs /\ ks # {}
    BY DEF TypeOK, Free
<1>2. \E k \in ks : \A j \in ks : j <= k
    <2> HIDE DEF ks
    <2> QED BY <1>1, LastPlace
<1>3. (CHOOSE k \in ks : \A j \in ks : j <= k) \in ks
    BY <1>2
<1> QED BY <1>3 DEF LeastRecent

\* Moving a buffer to the head of the list loses none.
LEMMA MovedList ==
    ASSUME TypeOK, NEW i \in Bufs
    PROVE  moved(i) \in [Bufs -> Bufs] /\ \A j \in Bufs : \E k \in Bufs : moved(i)[k] = j
<1>0. NBUF \in Nat \ {0}
    BY BcacheAssumption
<1>1. place(i) \in Bufs /\ lru[place(i)] = i
    BY DEF place, TypeOK
<1>2. moved(i) \in [Bufs -> Bufs]
    <2>1. lru \in [Bufs -> Bufs]
        BY DEF TypeOK
    <2>2. ASSUME NEW k \in Bufs, k # 1, k <= place(i) PROVE lru[k - 1] \in Bufs
        <3>1. k - 1 \in Bufs
            BY <2>2, <1>0, <1>1 DEF Bufs
        <3> QED BY <2>1, <3>1
    <2> QED BY <2>1, <2>2 DEF moved
<1>3. ASSUME NEW j \in Bufs PROVE \E k \in Bufs : moved(i)[k] = j
    <2>1. PICK k \in Bufs : lru[k] = j
        BY DEF TypeOK
    <2>2. CASE j = i
        BY <2>2, <1>0 DEF moved, Bufs
    <2>3. CASE j # i /\ k < place(i)
        <3>1. k + 1 \in Bufs /\ moved(i)[k + 1] = lru[k]
            BY <2>3, <1>0, <1>1 DEF moved, Bufs
        <3> QED BY <3>1, <2>1
    <2>4. CASE j # i /\ ~(k < place(i))
        <3>1. k # place(i)
            BY <2>1, <2>4, <1>1
        <3>2. moved(i)[k] = lru[k]
            BY <3>1, <2>4, <1>0, <1>1 DEF moved, Bufs
        <3> QED BY <3>2, <2>1
    <2> QED BY <2>2, <2>3, <2>4
<1> QED BY <1>2, <1>3

(***************************************************************************)
(* Counting the users of a buffer                                          *)
(***************************************************************************)
\* The users of a buffer are finitely many, and none exactly if refcnt is 0.
LEMMA UsersCounted ==
    ASSUME BInv, NEW i \in Bufs
    PROVE  /\ IsFiniteSet(Users(i))
           /\ refcnt[i] \in Nat
           /\ refcnt[i] = 0 <=> Users(i) = {}
<1>1. IsFiniteSet(Users(i))
    BY BcacheAssumption, FS_Subset DEF Users
<1>2. refcnt[i] = Cardinality(Users(i)) /\ refcnt[i] \in Nat
    BY DEF BInv, Counted, TypeOK
<1> QED BY <1>1, <1>2, FS_EmptySet

\* A buffer that nobody uses is locked by nobody.
LEMMA UnusedUnlocked ==
    ASSUME BInv, NEW i \in Bufs, refcnt[i] = 0
    PROVE  owner[i] = NoProc
<1>1. Users(i) = {}
    BY UsersCounted
<1>2. \A p \in Procs : ~(pc[p] \in Locking /\ buf[p] = i)
    BY <1>1 DEF Users, Locking
<1> QED BY <1>2 DEF BInv, Locked, TypeOK

\* A step that neither gets nor gives back a buffer leaves its users alone.
LEMMA SameUsers ==
    ASSUME buf' = buf,
           \A p \in Procs : pc'[p] \in {"idle", "panic"} <=> pc[p] \in {"idle", "panic"}
    PROVE  \A i \in Bufs : Users(i)' = Users(i)
BY DEF Users

\* A step that leaves the users, the counts and the blocks alone keeps Counted.
LEMMA CountedFrame ==
    ASSUME Counted, UNCHANGED <<buf, refcnt, blockno, want>>,
           \A p \in Procs : pc'[p] \in {"idle", "panic"} <=> pc[p] \in {"idle", "panic"}
    PROVE  Counted'
<1>1. \A i \in Bufs : Users(i)' = Users(i)
    BY SameUsers
<1> QED BY <1>1 DEF Counted

\* bget() adds its caller to the users of the buffer it returns, and to no other.
LEMMA UserAdded ==
    ASSUME BInv, NEW p \in Procs, pc[p] = "idle", NEW i \in Bufs,
           buf' = [buf EXCEPT ![p] = i], pc' = [pc EXCEPT ![p] = "acquiresleep"]
    PROVE  /\ Users(i)' = Users(i) \cup {p}
           /\ \A j \in Bufs : j # i => Users(j)' = Users(j)
           /\ Cardinality(Users(i)') = refcnt[i] + 1
<1>1. \A q \in Procs : q # p => buf'[q] = buf[q] /\ pc'[q] = pc[q]
    BY DEF BInv, TypeOK
<1>2. buf'[p] = i /\ pc'[p] = "acquiresleep"
    BY DEF BInv, TypeOK
<1>3. Users(i)' = Users(i) \cup {p} /\ p \notin Users(i)
    BY <1>1, <1>2 DEF Users
<1>4. \A j \in Bufs : j # i => Users(j)' = Users(j)
    BY <1>1, <1>2 DEF Users
<1>5. IsFiniteSet(Users(i)) /\ Cardinality(Users(i)) = refcnt[i]
    BY UsersCounted DEF BInv, Counted
<1>6. Cardinality(Users(i) \cup {p}) = Cardinality(Users(i)) + 1
    BY <1>3, <1>5, FS_AddElement, ZenonT(60)
<1> QED BY <1>3, <1>4, <1>5, <1>6

\* Whoever is not past acquiresleep() holds no sleep-lock.
LEMMA OutsideHoldsNone ==
    ASSUME BInv, NEW p \in Procs, pc[p] \notin Locking
    PROVE  \A i \in Bufs : owner[i] # p
<1>1. p # NoProc
    BY BcacheAssumption
<1>2. ASSUME NEW i \in Bufs, owner[i] = p PROVE FALSE
    BY <1>1, <1>2 DEF BInv, Locked
<1> QED BY <1>2

\* A step that lets nobody acquire or release a sleep-lock keeps Locked.
LEMMA LockedFrame ==
    ASSUME BInv, UNCHANGED owner,
           \A p \in Procs : pc'[p] \in Locking <=> pc[p] \in Locking,
           \A p \in Procs : pc[p] \in Locking => buf'[p] = buf[p]
    PROVE  Locked'
<1>1. ASSUME NEW p \in Procs, pc'[p] \in Locking PROVE owner'[buf'[p]] = p
    BY <1>1 DEF BInv, Locked
<1>2. ASSUME NEW i \in Bufs, owner'[i] # NoProc
      PROVE  pc'[owner'[i]] \in Locking /\ buf'[owner'[i]] = i
    <2>1. owner[i] \in Procs
        BY <1>2 DEF BInv, TypeOK
    <2> QED BY <1>2, <2>1 DEF BInv, Locked
<1> QED BY <1>1, <1>2 DEF Locked

\* The request that the drive works on has its process asleep in iderw(), which
\* holds the buffer: nobody else touches it.
LEMMA HeadWaits ==
    ASSUME BInv, idequeue # <<>>
    PROVE  /\ Head(idequeue) \in Bufs
           /\ owner[Head(idequeue)] \in Procs
           /\ pc[owner[Head(idequeue)]] = "io"
           /\ buf[owner[Head(idequeue)]] = Head(idequeue)
           /\ blockno[Head(idequeue)] \in Blocks
<1>1. Head(idequeue) = idequeue[1] /\ 1 \in 1..Len(idequeue) /\ idequeue[1] \in Bufs
    BY DEF BInv, TypeOK
<1>2. PICK p \in Procs : pc[p] = "io" /\ buf[p] = idequeue[1]
    BY <1>1 DEF BInv, Queued
<1>3. owner[idequeue[1]] = p
    BY <1>2 DEF BInv, Locked, Locking
<1>4. p \in Users(idequeue[1])
    BY <1>2 DEF Users
<1>5. blockno[idequeue[1]] \in Blocks
    BY <1>1, <1>4 DEF BInv, Counted
<1> QED BY <1>1, <1>2, <1>3, <1>5

\* What a step of bget() or brelse() by p leaves alone: the sleep-locks, the
\* queue, and whoever is asleep or has a buffer locked.
LEMMA BcacheLockFrame ==
    ASSUME BInv, NEW p \in Procs, pc[p] \in {"idle", "brelse"},
           NEW l \in {"idle", "acquiresleep", "panic"}, pc' = [pc EXCEPT ![p] = l],
           NEW i \in Bufs, buf' = [buf EXCEPT ![p] = i],
           UNCHANGED <<owner, idequeue>>
    PROVE  Locked' /\ Queued' /\ RequestsSound' /\ SleepersWait'
<1>1. /\ \A q \in Procs : q # p => pc'[q] = pc[q] /\ buf'[q] = buf[q]
      /\ pc'[p] = l /\ buf'[p] = i
    BY DEF BInv, TypeOK
<1>2. Locked'
    BY <1>1, LockedFrame DEF Locking
<1>3. Queued'
    <2>1. ASSUME NEW k \in 1..Len(idequeue)
          PROVE  \E q \in Procs : pc'[q] = "io" /\ buf'[q] = idequeue[k]
        <3>1. PICK q \in Procs : pc[q] = "io" /\ buf[q] = idequeue[k]
            BY DEF BInv, Queued
        <3> QED BY <1>1, <3>1
    <2> QED BY <2>1 DEF Queued
<1>4. RequestsSound'
    BY <1>1 DEF BInv, RequestsSound
<1>5. SleepersWait'
    BY <1>1 DEF BInv, SleepersWait
<1> QED BY <1>2, <1>3, <1>4, <1>5

(***************************************************************************)
(* Sleep-locks and the disk                                                *)
(***************************************************************************)
\* acquiresleep() preserves the invariant: the lock was free, so p is its one
\* owner now.
LEMMA AcquiresleepStep ==
    ASSUME BInv, NEW p \in Procs, acquiresleep(p)
    PROVE  BInv'
<1>0. /\ buf[p] \in Bufs /\ pc[p] = "acquiresleep" /\ NoProc \notin Procs
      /\ UNCHANGED <<lru, blockno, valid, dirty, refcnt, data, disk, idequeue, drive, want, buf>>
    BY BcacheAssumption DEF BInv, TypeOK, acquiresleep
<1>1. CASE owner[buf[p]] = NoProc
    <2>1. PICK l \in {"has", "iderw"} :
            /\ pc' = [pc EXCEPT ![p] = l]
            /\ owner' = [owner EXCEPT ![buf[p]] = p]
            /\ l = "has" <=> valid[buf[p]]
        BY <1>1 DEF acquiresleep, goto, Unlocked
    <2>2. TypeOK'
        BY <1>0, <2>1 DEF BInv, TypeOK
    <2>3. Counted'
        BY <1>0, <2>1, CountedFrame, SMTT(60) DEF BInv, TypeOK
    <2>4. Locked'
        <3>1. \A q \in Procs : pc[q] \in Locking => buf[q] # buf[p]
            BY <1>0, <1>1 DEF BInv, Locked
        <3>2. \A q \in Procs \ {p} : pc'[q] = pc[q] /\ buf[q] \in Bufs
            BY <2>1 DEF BInv, TypeOK
        <3>3. pc'[p] \in Locking /\ owner'[buf[p]] = p
            BY <1>0, <2>1 DEF BInv, TypeOK, Locking
        <3>4. \A i \in Bufs : i # buf[p] => owner'[i] = owner[i]
            BY <2>1 DEF BInv, TypeOK
        <3>5. \A i \in Bufs : owner[i] # p
            BY <1>0, OutsideHoldsNone DEF Locking
        <3>6. ASSUME NEW q \in Procs, pc'[q] \in Locking PROVE owner'[buf'[q]] = q
            <4>1. CASE q = p
                BY <4>1, <1>0, <3>3
            <4>2. CASE q # p
                BY <4>2, <3>6, <1>0, <3>1, <3>2, <3>4 DEF BInv, Locked
            <4> QED BY <4>1, <4>2
        <3>7. ASSUME NEW i \in Bufs, owner'[i] # NoProc
              PROVE  pc'[owner'[i]] \in Locking /\ buf'[owner'[i]] = i
            <4>1. CASE i = buf[p]
                BY <4>1, <1>0, <3>3
            <4>2. CASE i # buf[p]
                <5>1. owner'[i] = owner[i] /\ owner[i] \in Procs \ {p}
                    BY <4>2, <3>4, <3>5, <3>7, SMTT(60) DEF BInv, TypeOK
                <5> QED BY <5>1, <1>0, <3>2, <3>7 DEF BInv, Locked
            <4> QED BY <4>1, <4>2
        <3> QED BY <3>6, <3>7 DEF Locked
    <2>5. Pending'
        BY <1>0, <2>1, SMTT(60) DEF BInv, TypeOK, Pending
    <2>6. SleepersWait'
        BY <1>0, <2>1, ZenonT(60) DEF BInv, TypeOK, SleepersWait
    <2>7. Queued'
        BY <1>0, <2>1, ZenonT(60) DEF BInv, TypeOK, Queued
    <2>8. OneBuffer' /\ RequestsSound' /\ Stored'
        BY <1>0, <2>1 DEF BInv, TypeOK, OneBuffer, RequestsSound, Stored
    <2> QED BY <2>2, <2>3, <2>4, <2>5, <2>6, <2>7, <2>8 DEF BInv
<1>2. CASE owner[buf[p]] # NoProc
    <2>1. pc' = [pc EXCEPT ![p] = "asleep"] /\ owner' = owner
        BY <1>2 DEF acquiresleep, goto, Unlocked
    <2>2. TypeOK'
        BY <1>0, <2>1 DEF BInv, TypeOK
    <2>3. Counted'
        BY <1>0, <2>1, CountedFrame DEF BInv, TypeOK
    <2>4. Locked'
        BY <1>0, <2>1, LockedFrame DEF BInv, TypeOK, Locking
    <2>5. Pending'
        BY <1>0, <2>1, SMTT(60) DEF BInv, TypeOK, Pending
    <2>6. SleepersWait'
        <3>1. owner[buf[p]] # p
            BY <1>0, OutsideHoldsNone DEF Locking
        <3> QED BY <1>0, <1>2, <2>1, <3>1, ZenonT(60) DEF BInv, TypeOK, SleepersWait
    <2>7. Queued'
        BY <1>0, <2>1, ZenonT(60) DEF BInv, TypeOK, Queued
    <2>8. OneBuffer' /\ RequestsSound' /\ Stored'
        BY <1>0, <2>1, SMTT(60) DEF BInv, TypeOK, OneBuffer, RequestsSound, Stored
    <2> QED BY <2>2, <2>3, <2>4, <2>5, <2>6, <2>7, <2>8 DEF BInv
<1> QED BY <1>1, <1>2

\* releasesleep() preserves the invariant: whoever slept for the lock is awake
\* again.
LEMMA ReleasesleepStep ==
    ASSUME BInv, NEW p \in Procs, releasesleep(p)
    PROVE  BInv'
<1> USE DEF releasesleep, wakeup
<1>0. buf[p] \in Bufs /\ owner[buf[p]] = p /\ p # NoProc
    BY BcacheAssumption DEF BInv, TypeOK, Locked, Locking
<1>1. TypeOK'
    BY <1>0 DEF BInv, TypeOK
<1>2. Counted'
    BY <1>0, CountedFrame DEF BInv
<1>3. Locked'
    <2>1. /\ pc'[p] \notin Locking
          /\ \A q \in Procs : q # p => (pc'[q] \in Locking <=> pc[q] \in Locking)
        BY SMTT(60) DEF BInv, TypeOK, Locking
    <2>2. owner'[buf[p]] = NoProc /\ \A i \in Bufs : i # buf[p] => owner'[i] = owner[i]
        BY <1>0 DEF BInv, TypeOK
    <2>3. buf' = buf
        OBVIOUS
    <2> HIDE DEF releasesleep
    <2>4. ASSUME NEW q \in Procs, pc'[q] \in Locking PROVE owner'[buf'[q]] = q
        <3>1. q # p /\ owner[buf[q]] = q /\ buf[q] \in Bufs
            BY <2>1, <2>4, SMTT(60) DEF BInv, TypeOK, Locked
        <3>2. buf[q] # buf[p]
            BY <3>1, <1>0
        <3> QED BY <2>2, <2>3, <3>1, <3>2
    <2>5. ASSUME NEW i \in Bufs, owner'[i] # NoProc
          PROVE  pc'[owner'[i]] \in Locking /\ buf'[owner'[i]] = i
        <3>1. i # buf[p] /\ owner'[i] = owner[i] /\ owner[i] \in Procs
            BY <2>2, <2>5, SMTT(60) DEF BInv, TypeOK
        <3>2. pc[owner[i]] \in Locking /\ buf[owner[i]] = i
            BY <2>5, <3>1 DEF BInv, Locked
        <3>3. owner[i] # p
            BY <3>1, <3>2
        <3> QED BY <2>1, <2>3, <3>1, <3>2, <3>3
    <2> QED BY <2>4, <2>5 DEF Locked
<1>4. Pending'
    BY <1>0, SMTT(60) DEF BInv, TypeOK, Pending
<1>5. SleepersWait' /\ Queued'
    BY <1>0, ZenonT(60) DEF BInv, TypeOK, SleepersWait, Queued
<1>6. OneBuffer' /\ RequestsSound' /\ Stored'
    BY <1>0 DEF BInv, OneBuffer, RequestsSound, Stored
<1> QED BY <1>1, <1>2, <1>3, <1>4, <1>5, <1>6 DEF BInv

\* A change that log_write() marks B_DIRTY preserves the invariant.
LEMMA LogWriteStep ==
    ASSUME BInv, NEW p \in Procs, NEW v \in Data, log_write(p, v)
    PROVE  BInv'
<1> USE DEF log_write
<1>0. buf[p] \in Bufs /\ owner[buf[p]] = p /\ valid[buf[p]]
    BY DEF BInv, TypeOK, Locked, Locking, Pending
<1>1. TypeOK'
    BY <1>0 DEF BInv, TypeOK
<1>2. Counted'
    BY <1>0, CountedFrame DEF BInv
<1>3. Locked' /\ OneBuffer' /\ RequestsSound' /\ SleepersWait' /\ Queued'
    BY DEF BInv, Locked, OneBuffer, RequestsSound, SleepersWait, Queued
<1>4. Pending'
    BY <1>0, SMTT(60) DEF BInv, TypeOK, Pending
<1>5. Stored'
    BY <1>0, HeadWaits, ZenonT(60) DEF BInv, TypeOK, Stored
<1> QED BY <1>1, <1>2, <1>3, <1>4, <1>5 DEF BInv

\* bwrite() preserves the invariant: what it hands to iderw() is dirty.
LEMMA BwriteStep ==
    ASSUME BInv, NEW p \in Procs, NEW v \in Data, bwrite(p, v)
    PROVE  BInv'
<1> USE DEF bwrite, goto
<1>0. buf[p] \in Bufs /\ owner[buf[p]] = p /\ valid[buf[p]]
    BY DEF BInv, TypeOK, Locked, Locking, Pending
<1>1. TypeOK'
    BY <1>0, SMTT(60) DEF BInv, TypeOK
<1>2. Counted'
    BY <1>0, CountedFrame, SMTT(60) DEF BInv, TypeOK
<1>3. Locked'
    BY <1>0, LockedFrame, SMTT(60) DEF BInv, TypeOK, Locking
<1>7. SleepersWait'
    BY <1>0, SMTT(60) DEF BInv, TypeOK, SleepersWait
<1>8. Queued'
    BY <1>0, ZenonT(60) DEF BInv, TypeOK, Queued
<1>4. OneBuffer' /\ RequestsSound'
    BY DEF BInv, TypeOK, OneBuffer, RequestsSound
<1>5. Pending'
    BY <1>0, SMTT(60) DEF BInv, TypeOK, Pending
<1>6. Stored'
    BY <1>0, HeadWaits, ZenonT(60) DEF BInv, TypeOK, Stored
<1> QED BY <1>1, <1>2, <1>3, <1>4, <1>5, <1>6, <1>7, <1>8, SMTT(60) DEF BInv

\* iderw() preserves the invariant: the buffer was not in the queue, since its
\* owner waits for everything that is.
LEMMA IderwStep ==
    ASSUME BInv, NEW p \in Procs, iderw(p)
    PROVE  BInv'
<1> USE DEF iderw, goto, idestart
<1>0. buf[p] \in Bufs /\ owner[buf[p]] = p /\ (~valid[buf[p]] \/ dirty[buf[p]])
      /\ idequeue \in Seq(Bufs)
    BY SMTT(60) DEF BInv, TypeOK, Locked, Locking, Pending
<1>1. /\ idequeue' = Append(idequeue, buf[p])
      /\ drive' = IF idequeue = <<>> /\ dirty[buf[p]] THEN data[buf[p]] ELSE drive
      /\ pc' = [pc EXCEPT ![p] = "io"]
      /\ UNCHANGED <<lru, blockno, valid, dirty, refcnt, data, owner, disk, want, buf>>
    BY <1>0, SMTT(60)
<1> HIDE DEF iderw, goto, idestart
<1>2. TypeOK'
    <2>1. idequeue' \in Seq(Bufs)
        BY <1>0, <1>1
    <2>2. drive' \in Data
        BY <1>0, <1>1 DEF BInv, TypeOK
    <2>3. pc' \in [Procs -> {"idle", "acquiresleep", "asleep", "iderw", "io", "has",
                             "brelse", "panic", "iderw_panic"}]
        BY <1>1 DEF BInv, TypeOK
    <2> QED BY <1>1, <2>1, <2>2, <2>3, SMTT(60) DEF BInv, TypeOK
<1>3. Counted'
    BY <1>0, <1>1, CountedFrame DEF BInv, TypeOK, iderw
<1>4. Locked' /\ Pending' /\ OneBuffer'
    <2>1. pc[p] = "iderw" /\ pc'[p] = "io" /\ \A q \in Procs : q # p => pc'[q] = pc[q]
        BY <1>1 DEF BInv, TypeOK, iderw
    <2>2. Locked'
        BY <1>1, <2>1, LockedFrame, SMTT(60) DEF Locking
    <2>3. Pending'
        BY <1>1, <2>1 DEF BInv, Pending
    <2>4. OneBuffer'
        BY <1>1 DEF BInv, OneBuffer
    <2> QED BY <2>2, <2>3, <2>4
<1>5. \A k \in 1..Len(idequeue) : idequeue[k] # buf[p]
    <2>1. ASSUME NEW k \in 1..Len(idequeue), idequeue[k] = buf[p] PROVE FALSE
        <3>1. PICK q \in Procs : pc[q] = "io" /\ buf[q] = idequeue[k]
            BY DEF BInv, Queued
        <3> QED BY <1>0, <2>1, <3>1 DEF BInv, Locked, Locking, iderw
    <2> QED BY <2>1, SMTT(60)
<1>6. /\ Len(idequeue') = Len(idequeue) + 1
      /\ \A k \in 1..Len(idequeue) : idequeue'[k] = idequeue[k]
      /\ idequeue'[Len(idequeue) + 1] = buf[p]
      /\ Len(idequeue) \in Nat
    BY <1>0, <1>1
<1>7. RequestsSound'
    <2>1. \A q \in Procs : pc'[q] # "iderw_panic"
        BY <1>1, SMTT(60) DEF BInv, TypeOK, RequestsSound
    <2>2. ASSUME NEW j \in 1..Len(idequeue'), NEW k \in 1..Len(idequeue'),
                 idequeue'[j] = idequeue'[k]
          PROVE  j = k
        <3>1. \A m \in 1..Len(idequeue') : m \in 1..Len(idequeue) \/ m = Len(idequeue) + 1
            BY <1>6
        <3> QED BY <2>2, <3>1, <1>5, <1>6 DEF BInv, RequestsSound
    <2> QED BY <2>1, <2>2, SMTT(60) DEF RequestsSound
<1>8. Queued'
    <2>1. SUFFICES ASSUME NEW k \in 1..Len(idequeue')
                   PROVE  \E q \in Procs : pc'[q] = "io" /\ buf'[q] = idequeue'[k]
        BY DEF Queued
    <2>2. pc'[p] = "io" /\ \A q \in Procs : pc[q] = "io" => pc'[q] = "io"
        BY <1>1, SMTT(60) DEF BInv, TypeOK
    <2>3. CASE k = Len(idequeue) + 1
        BY <1>1, <1>6, <2>2, <2>3, SMTT(60)
    <2>4. CASE k \in 1..Len(idequeue)
        BY <1>1, <1>6, <2>2, <2>4, SMTT(60) DEF BInv, Queued
    <2> QED BY <1>6, <2>3, <2>4
<1>9. SleepersWait'
    <2>1. SUFFICES ASSUME NEW q \in Procs
                   PROVE  /\ pc'[q] = "asleep" => owner'[buf'[q]] \notin {q, NoProc}
                          /\ pc'[q] = "io" => \E k \in 1..Len(idequeue') : idequeue'[k] = buf'[q]
        BY DEF SleepersWait
    <2>2. pc'[q] = IF q = p THEN "io" ELSE pc[q]
        BY <1>1 DEF BInv, TypeOK
    <2>3. Len(idequeue) + 1 \in 1..Len(idequeue') /\ 1..Len(idequeue) \subseteq 1..Len(idequeue')
        BY <1>6, SMTT(60)
    <2>4. CASE q = p
        BY <1>1, <1>6, <2>2, <2>3, <2>4, SMTT(60)
    <2>5. CASE q # p
        BY <1>1, <1>6, <2>2, <2>3, <2>5, SMTT(60) DEF BInv, SleepersWait
    <2> QED BY <2>4, <2>5
<1>10. Stored'
    <2>1. idequeue # <<>> => Head(idequeue') = Head(idequeue)
        BY <1>0, <1>1
    <2>2. idequeue = <<>> => Head(idequeue') = buf[p]
        BY <1>0, <1>1, SMTT(60)
    <2> QED BY <1>0, <1>1, <2>1, <2>2, ZenonT(60) DEF BInv, TypeOK, Stored
<1> QED BY <1>2, <1>3, <1>4, <1>7, <1>8, <1>9, <1>10 DEF BInv

\* ideintr() preserves the invariant: the buffer that it takes off the queue
\* agrees with the disk, and its owner goes on.
LEMMA IdeintrStep ==
    ASSUME BInv, ideintr
    PROVE  BInv'
<1> DEFINE i == Head(idequeue)
<1>0. /\ idequeue # <<>> /\ idequeue \in Seq(Bufs)
      /\ i \in Bufs /\ owner[i] \in Procs /\ pc[owner[i]] = "io" /\ buf[owner[i]] = i
      /\ blockno[i] \in Blocks
    BY HeadWaits, SMTT(60) DEF ideintr, BInv, TypeOK
<1>1. /\ pc' = [q \in Procs |-> IF pc[q] = "io" /\ buf[q] = i THEN "has" ELSE pc[q]]
      /\ valid' = [valid EXCEPT ![i] = TRUE]
      /\ dirty' = [dirty EXCEPT ![i] = FALSE]
      /\ idequeue' = Tail(idequeue)
      /\ UNCHANGED <<lru, blockno, refcnt, owner, want, buf>>
    BY DEF ideintr, io_done
<1>2. /\ dirty[i] => disk' = [disk EXCEPT ![blockno[i]] = drive] /\ data' = data
      /\ ~dirty[i] => data' = [data EXCEPT ![i] = disk[blockno[i]]] /\ disk' = disk
    BY DEF ideintr
<1>3. drive' = IF Len(idequeue) > 1 /\ dirty[idequeue[2]] THEN data[idequeue[2]] ELSE drive
    BY DEF ideintr, idestart
<1>4. /\ Len(idequeue) \in Nat \ {0} /\ i = idequeue[1]
      /\ Len(idequeue') = Len(idequeue) - 1
      /\ \A k \in 1..Len(idequeue') : k + 1 \in 1..Len(idequeue) /\ idequeue'[k] = idequeue[k + 1]
      /\ \A k \in 1..Len(idequeue) : idequeue[k] \in Bufs
    BY <1>0, <1>1
<1>5. \A k \in 1..Len(idequeue') : idequeue'[k] # i
    <2>1. 1 \in 1..Len(idequeue) /\ \A k \in 1..Len(idequeue') : k + 1 # 1
        BY <1>4
    <2> QED BY <1>4, <2>1 DEF BInv, RequestsSound
<1>6. \A q \in Procs : pc[q] \in Locking /\ buf[q] = i => q = owner[i]
    BY SMTT(60) DEF BInv, Locked
<1> HIDE DEF i
<1>7. TypeOK'
    <2>1. idequeue' \in Seq(Bufs)
        BY <1>0, <1>1
    <2>2. drive' \in Data
        <3>1. Len(idequeue) > 1 => idequeue[2] \in Bufs
            BY <1>4
        <3> QED BY <1>3, <3>1 DEF BInv, TypeOK
    <2>3. pc' \in [Procs -> {"idle", "acquiresleep", "asleep", "iderw", "io", "has",
                             "brelse", "panic", "iderw_panic"}]
        BY <1>1 DEF BInv, TypeOK
    <2>4. disk' \in [Blocks -> Data] /\ data' \in [Bufs -> Data]
        <3>1. disk \in [Blocks -> Data] /\ data \in [Bufs -> Data] /\ drive \in Data
            BY DEF BInv, TypeOK
        <3>2. CASE dirty[i]
            BY <1>0, <1>2, <3>1, <3>2, SMTT(60)
        <3>3. CASE ~dirty[i]
            BY <1>0, <1>2, <3>1, <3>3, SMTT(60)
        <3> QED BY <3>2, <3>3
    <2> QED BY <1>0, <1>1, <2>1, <2>2, <2>3, <2>4, ZenonT(60) DEF BInv, TypeOK
<1>8. Counted'
    BY <1>0, <1>1, CountedFrame, SMTT(60) DEF BInv, TypeOK
<1>9. Locked'
    BY <1>1, LockedFrame DEF BInv, TypeOK, Locking
<1>10. OneBuffer'
    BY <1>1 DEF BInv, OneBuffer
<1>11. Pending'
    <2>1. SUFFICES ASSUME NEW q \in Procs
                   PROVE  /\ pc'[q] = "iderw" => ~valid'[buf[q]] \/ dirty'[buf[q]]
                          /\ pc'[q] = "has" => valid'[buf[q]]
        BY <1>1 DEF Pending
    <2>2. buf[q] \in Bufs
        BY DEF BInv, TypeOK
    <2>3. pc[q] = "iderw" => buf[q] # i
        BY <1>0, <1>6 DEF Locking
    <2> QED BY <1>0, <1>1, <2>2, <2>3, ZenonT(60) DEF BInv, TypeOK, Pending
<1>12. Queued'
    <2>1. SUFFICES ASSUME NEW k \in 1..Len(idequeue')
                   PROVE  \E q \in Procs : pc'[q] = "io" /\ buf[q] = idequeue'[k]
        BY <1>1 DEF Queued
    <2>2. PICK q \in Procs : pc[q] = "io" /\ buf[q] = idequeue'[k]
        BY <1>4 DEF BInv, Queued
    <2> QED BY <1>1, <1>5, <2>2, SMTT(60)
<1>13. RequestsSound'
    <2>1. \A q \in Procs : pc'[q] # "iderw_panic"
        BY <1>1 DEF BInv, RequestsSound
    <2>2. ASSUME NEW j \in 1..Len(idequeue'), NEW k \in 1..Len(idequeue'),
                 idequeue'[j] = idequeue'[k]
          PROVE  j = k
        <3>1. j + 1 = k + 1
            BY <1>4, <2>2 DEF BInv, RequestsSound
        <3> QED BY <3>1, <1>4
    <2> QED BY <2>1, <2>2 DEF RequestsSound
<1>14. SleepersWait'
    <2>1. ASSUME NEW q \in Procs, pc'[q] = "asleep" PROVE owner'[buf'[q]] \notin {q, NoProc}
        BY <1>1, <2>1 DEF BInv, SleepersWait
    <2>2. ASSUME NEW q \in Procs, pc'[q] = "io"
          PROVE  \E k \in 1..Len(idequeue') : idequeue'[k] = buf'[q]
        <3>1. pc[q] = "io" /\ buf[q] # i
            BY <1>1, <2>2
        <3>2. PICK k \in 1..Len(idequeue) : idequeue[k] = buf[q]
            BY <3>1 DEF BInv, SleepersWait
        <3>3. k # 1
            BY <1>4, <3>1, <3>2
        <3>4. k - 1 \in 1..Len(idequeue') /\ (k - 1) + 1 = k
            BY <1>4, <3>3
        <3>5. idequeue'[k - 1] = idequeue[k]
            BY <1>4, <3>4
        <3> QED BY <1>1, <3>2, <3>4, <3>5, ZenonT(60)
    <2> QED BY <2>1, <2>2, SMTT(60) DEF SleepersWait
<1>15. Stored'
    <2>1. ASSUME NEW j \in Bufs
          PROVE  /\ dirty'[j] => valid'[j]
                 /\ valid'[j] => blockno'[j] \in Blocks
                 /\ valid'[j] /\ ~dirty'[j] => data'[j] = disk'[blockno'[j]]
        <3>1. CASE j = i
            <4>1. dirty[i] => drive = data[i]
                BY <1>0 DEF BInv, Stored, i
            <4> QED BY <3>1, <4>1, <1>0, <1>1, <1>2, SMTT(60) DEF BInv, TypeOK
        <3>2. CASE j # i
            <4>1. valid[j] => blockno[j] # blockno[i] /\ blockno[j] \in Blocks
                BY <3>2, <1>0, BcacheAssumption, SMTT(60) DEF BInv, Stored, OneBuffer
            <4>2. valid'[j] = valid[j] /\ dirty'[j] = dirty[j] /\ data'[j] = data[j]
                BY <3>2, <1>0, <1>1, <1>2, ZenonT(60) DEF BInv, TypeOK
            <4>3. valid[j] => disk'[blockno[j]] = disk[blockno[j]]
                BY <4>1, <1>0, <1>2, ZenonT(60) DEF BInv, TypeOK
            <4> QED BY <1>1, <4>1, <4>2, <4>3, ZenonT(60) DEF BInv, Stored
        <3> QED BY <3>1, <3>2
    <2>2. ASSUME idequeue' # <<>>, dirty'[Head(idequeue')]
          PROVE  drive' = data'[Head(idequeue')]
        <3>1. 1 \in 1..Len(idequeue') /\ Head(idequeue') = idequeue'[1]
            BY <1>0, <1>1, <2>2
        <3>2. Len(idequeue) > 1 /\ Head(idequeue') = idequeue[2] /\ idequeue[2] # i /\ idequeue[2] \in Bufs
            BY <1>4, <1>5, <3>1
        <3>3. dirty'[idequeue[2]] = dirty[idequeue[2]] /\ data'[idequeue[2]] = data[idequeue[2]]
            BY <1>0, <1>1, <1>2, <3>2, ZenonT(60) DEF BInv, TypeOK
        <3> QED BY <1>3, <2>2, <3>2, <3>3
    <2> QED BY <2>1, <2>2, SMTT(60) DEF Stored
<1> QED BY <1>7, <1>8, <1>9, <1>10, <1>11, <1>12, <1>13, <1>14, <1>15, SMTT(60) DEF BInv
=============================================================================
