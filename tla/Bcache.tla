------------------------------- MODULE Bcache -------------------------------
(***************************************************************************)
(* The buffer cache of bio.c, the sleep-locks of its buffers (sleeplock.c) *)
(* and the disk driver of ide.c.                                           *)
(*                                                                         *)
(* A critical section under bcache.lock, idelock or the spinlock of a      *)
(* sleep-lock is one step.  Between them anything may happen: bget() gives *)
(* up bcache.lock before it asks for the sleep-lock, and brelse() gives up *)
(* the sleep-lock before it acquires bcache.lock.                          *)
(***************************************************************************)
EXTENDS Integers, Sequences, FiniteSets

CONSTANTS
    Procs, NoProc,
    Blocks, NoBlock,    \* block numbers, and what binit() leaves in a buffer
    Data,
    NBUF

ASSUME BcacheAssumption ==
    /\ IsFiniteSet(Procs) /\ NoProc \notin Procs
    /\ NoBlock \notin Blocks
    /\ NBUF \in Nat \ {0}

Bufs == 1..NBUF

VARIABLES
    lru,            \* the list of all buffers, most recently used first
    blockno, valid, dirty, refcnt, data,    \* struct buf
    owner,          \* who holds its sleep-lock
    disk,
    idequeue,       \* the requests; the drive works on the first
    drive,          \* what outsl() gave the drive to write
    pc,             \* where each process is
    want,           \* the block it asked for
    buf             \* the buffer bget() found for it

vars == <<lru, blockno, valid, dirty, refcnt, data, owner, disk, idequeue,
          drive, pc, want, buf>>

Init ==
    /\ lru = [i \in Bufs |-> NBUF + 1 - i]
    /\ blockno = [i \in Bufs |-> NoBlock]
    /\ valid = [i \in Bufs |-> FALSE]
    /\ dirty = [i \in Bufs |-> FALSE]
    /\ refcnt = [i \in Bufs |-> 0]
    /\ \E d \in Data : data = [i \in Bufs |-> d] /\ drive = d
    /\ owner = [i \in Bufs |-> NoProc]
    /\ disk \in [Blocks -> Data]
    /\ idequeue = <<>>
    /\ pc = [p \in Procs |-> "idle"]
    /\ want = [p \in Procs |-> NoBlock]
    /\ buf = [p \in Procs |-> 1]

goto(p, l) == pc' = [pc EXCEPT ![p] = l]

\* Nobody has called panic() inside bget(), with bcache.lock held.
BcacheLockFree == \A p \in Procs : pc[p] # "panic"

(***************************************************************************)
(* bget()                                                                  *)
(***************************************************************************)
\* The buffers that hold block b.
Cached_used(b) == {i \in Bufs : blockno[i] = b /\ refcnt[i] > 0}
Cached(b) == {i \in Bufs : blockno[i] = b}

\* The buffers that may be recycled: not in use, and not waiting for a commit.
Free_held == {i \in Bufs : ~dirty[i]}
Free_dirty == {i \in Bufs : refcnt[i] = 0}
Free == {i \in Bufs : refcnt[i] = 0 /\ ~dirty[i]}

\* The one that the backward scan of the list meets first.
LeastRecent == LET ks == {k \in Bufs : lru[k] \in Free}
               IN  lru[CHOOSE k \in ks : \A j \in ks : j <= k]

found(p, b, i) ==
    /\ i \in Cached(b)
    /\ refcnt' = [refcnt EXCEPT ![i] = @ + 1]
    /\ buf' = [buf EXCEPT ![p] = i]
    /\ goto(p, "acquiresleep")
    /\ UNCHANGED <<blockno, valid, dirty>>

recycle(p, b) ==
    /\ Cached(b) = {}
    /\ Free # {}
    /\ LET i == LeastRecent
       IN  /\ blockno' = [blockno EXCEPT ![i] = b]
           /\ valid' = [valid EXCEPT ![i] = FALSE]
           /\ dirty' = [dirty EXCEPT ![i] = FALSE]
           /\ refcnt' = [refcnt EXCEPT ![i] = 1]
           /\ buf' = [buf EXCEPT ![p] = i]
    /\ goto(p, "acquiresleep")

no_buffers(p, b) ==
    /\ Cached(b) = {}
    /\ Free = {}
    /\ goto(p, "panic")
    /\ UNCHANGED <<blockno, valid, dirty, refcnt, buf>>

bget(p, b) ==
    /\ pc[p] = "idle"
    /\ BcacheLockFree
    /\ (\E i \in Bufs : found(p, b, i)) \/ recycle(p, b) \/ no_buffers(p, b)
    /\ want' = [want EXCEPT ![p] = b]
    /\ UNCHANGED <<lru, data, owner, disk, idequeue, drive>>

(***************************************************************************)
(* Sleep-locks                                                             *)
(***************************************************************************)
Unlocked_any(i) == TRUE
Unlocked(i) == owner[i] = NoProc

\* acquiresleep() up to its end or to sleep(); when it has the lock, bread()
\* looks whether the buffer is valid.
acquiresleep(p) ==
    /\ pc[p] = "acquiresleep"
    /\ LET i == buf[p]
       IN  \/ /\ Unlocked(i)
              /\ owner' = [owner EXCEPT ![i] = p]
              /\ goto(p, IF valid[i] THEN "has" ELSE "iderw")
           \/ ~Unlocked(i) /\ goto(p, "asleep") /\ UNCHANGED owner
    /\ UNCHANGED <<lru, blockno, valid, dirty, refcnt, data, disk, idequeue,
                   drive, want, buf>>

\* wakeup(lk): all that sleep in acquiresleep() for buffer i.
wakeup_none(i) == pc
wakeup(i) == [q \in Procs |-> IF pc[q] = "asleep" /\ buf[q] = i THEN "acquiresleep" ELSE pc[q]]

\* brelse() up to the end of releasesleep().  The panic of brelse(), like that of
\* bwrite(), is for a caller that does not hold the buffer: GetsItsBlock.
releasesleep(p) ==
    /\ pc[p] = "has"
    /\ owner' = [owner EXCEPT ![buf[p]] = NoProc]
    /\ pc' = [wakeup(buf[p]) EXCEPT ![p] = "brelse"]
    /\ UNCHANGED <<lru, blockno, valid, dirty, refcnt, data, disk, idequeue,
                   drive, want, buf>>

\* The list with buffer i moved to its head: what was before it moves down.
place(i) == CHOOSE k \in Bufs : lru[k] = i
moved(i) == [k \in Bufs |-> IF k = 1 THEN i
                            ELSE IF k <= place(i) THEN lru[k - 1] ELSE lru[k]]

\* The rest of brelse(): the last one to let go moves the buffer to the head.
brelse(p) ==
    /\ pc[p] = "brelse"
    /\ BcacheLockFree
    /\ LET i == buf[p]
       IN  /\ refcnt' = [refcnt EXCEPT ![i] = @ - 1]
           /\ lru' = IF refcnt'[i] = 0 THEN moved(i) ELSE lru
    /\ goto(p, "idle")
    /\ want' = [want EXCEPT ![p] = NoBlock]
    /\ buf' = [buf EXCEPT ![p] = 1]
    /\ UNCHANGED <<blockno, valid, dirty, data, owner, disk, idequeue, drive>>

(***************************************************************************)
(* What the holder of a buffer does with it                                *)
(***************************************************************************)
\* It changes the data and calls log_write(), which only marks the buffer.
log_write(p, v) ==
    /\ pc[p] = "has"
    /\ data' = [data EXCEPT ![buf[p]] = v]
    /\ dirty' = [dirty EXCEPT ![buf[p]] = TRUE]
    /\ UNCHANGED <<lru, blockno, valid, refcnt, owner, disk, idequeue, drive,
                   pc, want, buf>>

\* It changes the data and calls bwrite().
bwrite(p, v) ==
    /\ pc[p] = "has"
    /\ data' = [data EXCEPT ![buf[p]] = v]
    /\ dirty' = [dirty EXCEPT ![buf[p]] = TRUE]
    /\ goto(p, "iderw")
    /\ UNCHANGED <<lru, blockno, valid, refcnt, owner, disk, idequeue, drive,
                   want, buf>>

(***************************************************************************)
(* The disk driver                                                         *)
(***************************************************************************)
\* idestart(): for a write the drive is given the data.
idestart(i) == drive' = IF dirty[i] THEN data[i] ELSE drive

\* iderw() up to sleep(), with its tests of the caller.
iderw(p) ==
    /\ pc[p] = "iderw"
    /\ LET i == buf[p]
       IN  IF owner[i] # p \/ (valid[i] /\ ~dirty[i])
           THEN goto(p, "iderw_panic") /\ UNCHANGED <<idequeue, drive>>
           ELSE /\ idequeue' = Append(idequeue, i)
                /\ IF idequeue = <<>> THEN idestart(i) ELSE UNCHANGED drive
                /\ goto(p, "io")
    /\ UNCHANGED <<lru, blockno, valid, dirty, refcnt, data, owner, disk, want, buf>>

\* wakeup(b) at the end of a request: the loop of iderw() is over.
io_done_none(i) == pc
io_done(i) == [q \in Procs |-> IF pc[q] = "io" /\ buf[q] = i THEN "has" ELSE pc[q]]

\* The drive has done the first request.
ideintr ==
    /\ idequeue # <<>>
    /\ LET i == Head(idequeue)
       IN  /\ IF dirty[i]
              THEN disk' = [disk EXCEPT ![blockno[i]] = drive] /\ UNCHANGED data
              ELSE data' = [data EXCEPT ![i] = disk[blockno[i]]] /\ UNCHANGED disk
           /\ valid' = [valid EXCEPT ![i] = TRUE]
           /\ dirty' = [dirty EXCEPT ![i] = FALSE]
           /\ pc' = io_done(i)
    /\ idequeue' = Tail(idequeue)
    /\ IF Len(idequeue) > 1 THEN idestart(idequeue[2]) ELSE UNCHANGED drive
    /\ UNCHANGED <<lru, blockno, refcnt, owner, want, buf>>

Next ==
    \/ \E p \in Procs :
        acquiresleep(p) \/ releasesleep(p) \/ brelse(p) \/ iderw(p)
    \/ \E p \in Procs, b \in Blocks : bget(p, b)
    \/ \E p \in Procs, v \in Data : log_write(p, v) \/ bwrite(p, v)
    \/ ideintr

Spec == Init /\ [][Next]_vars

\* The drive answers every request it is given.
LiveSpec == Spec /\ WF_vars(ideintr)

(***************************************************************************)
(* Properties                                                              *)
(***************************************************************************)
\* struct buf, the list of buffers, the queue and the processes have their types.
TypeOK ==
    /\ lru \in [Bufs -> Bufs] /\ \A i \in Bufs : \E k \in Bufs : lru[k] = i
    /\ blockno \in [Bufs -> Blocks \cup {NoBlock}]
    /\ valid \in [Bufs -> BOOLEAN] /\ dirty \in [Bufs -> BOOLEAN]
    /\ refcnt \in [Bufs -> Nat]
    /\ data \in [Bufs -> Data]
    /\ owner \in [Bufs -> Procs \cup {NoProc}]
    /\ disk \in [Blocks -> Data] /\ drive \in Data
    /\ idequeue \in Seq(Bufs)
    /\ pc \in [Procs -> {"idle", "acquiresleep", "asleep", "iderw", "io", "has",
                         "brelse", "panic", "iderw_panic"}]
    /\ want \in [Procs -> Blocks \cup {NoBlock}]
    /\ buf \in [Procs -> Bufs]

\* A block is in one buffer only, whatever bget() recycles while others read,
\* write and release; otherwise two processes would change two copies of it.
OneBuffer ==
    \A i, j \in Bufs : blockno[i] = blockno[j] /\ blockno[i] # NoBlock => i = j

\* The buffer bread() returns is locked by the caller, holds the block it asked
\* for, and is valid, although bget() was done with bcache.lock long before.
GetsItsBlock ==
    \A p \in Procs : pc[p] = "has" =>
        /\ owner[buf[p]] = p
        /\ blockno[buf[p]] = want[p]
        /\ valid[buf[p]]

\* iderw() never panics: its caller holds the buffer and there is something to
\* do; and no buffer is in the queue twice, which would cut the list short.
RequestsSound ==
    /\ \A p \in Procs : pc[p] # "iderw_panic"
    /\ \A j, k \in 1..Len(idequeue) : idequeue[j] = idequeue[k] => j = k

\* Who sleeps will be woken: for a sleep-lock that somebody holds, or for a
\* request that is in the queue.
SleepersWait ==
    \A p \in Procs :
        /\ pc[p] = "asleep" => owner[buf[p]] \notin {p, NoProc}
        /\ pc[p] = "io" => \E k \in 1..Len(idequeue) : idequeue[k] = buf[p]

(***************************************************************************)
(* The inductive invariant                                                 *)
(***************************************************************************)
\* Who has a buffer from bget() that it has not given back, and who has it locked.
Users(i) == {p \in Procs : pc[p] \notin {"idle", "panic"} /\ buf[p] = i}
Locking == {"iderw", "io", "has", "iderw_panic"}

\* refcnt counts the users, and a buffer in use keeps its block.
Counted ==
    /\ \A i \in Bufs : refcnt[i] = Cardinality(Users(i))
    /\ \A i \in Bufs : \A p \in Users(i) : blockno[i] = want[p] /\ want[p] \in Blocks

\* The owner of a sleep-lock is the one process that is past acquiresleep().
Locked ==
    /\ \A p \in Procs : pc[p] \in Locking => owner[buf[p]] = p
    /\ \A i \in Bufs : owner[i] # NoProc => pc[owner[i]] \in Locking /\ buf[owner[i]] = i

\* What iderw() is called for is not done; what bread() returns is.
Pending ==
    \A p \in Procs :
        /\ pc[p] = "iderw" => ~valid[buf[p]] \/ dirty[buf[p]]
        /\ pc[p] = "has" => valid[buf[p]]

\* Everything in the queue has a process that waits for it.
Queued ==
    \A k \in 1..Len(idequeue) : \E p \in Procs : pc[p] = "io" /\ buf[p] = idequeue[k]

\* Only a dirty buffer differs from the disk, and the drive was given what it has.
Stored ==
    /\ \A i \in Bufs :
        /\ dirty[i] => valid[i]
        /\ valid[i] => blockno[i] \in Blocks
        /\ valid[i] /\ ~dirty[i] => data[i] = disk[blockno[i]]
    /\ idequeue # <<>> /\ dirty[Head(idequeue)] => drive = data[Head(idequeue)]

BInv ==
    /\ TypeOK /\ OneBuffer /\ Counted /\ Locked /\ Pending /\ Queued
    /\ RequestsSound /\ SleepersWait /\ Stored

\* A block's current value and who has it locked, as far as it is cached.
Home(b) == CHOOSE i \in Bufs : blockno[i] = b
Value == [b \in Blocks |-> IF Cached(b) # {} /\ valid[Home(b)]
                           THEN data[Home(b)] ELSE disk[b]]
Holder == [b \in Blocks |-> IF Cached(b) # {} THEN owner[Home(b)] ELSE NoProc]

\* The cache and the disk together behave as one store of blocks with a lock
\* each: no update is lost when a buffer is recycled, read or written back.
S == INSTANCE BlockStore WITH value <- Value, holder <- Holder

Coherent == S!Spec

\* Every request is served: the queue is first-in first-out and the handler
\* starts the next one.
Served == \A p \in Procs : pc[p] = "io" ~> pc[p] # "io"
=============================================================================
