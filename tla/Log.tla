-------------------------------- MODULE Log --------------------------------
(***************************************************************************)
(* The file-system log of log.c, over the buffer cache and a disk that     *)
(* writes one block at a time and may lose power between any two writes.   *)
(*                                                                         *)
(* A system call is begin_op(), any number of rounds of bread(), a change  *)
(* to the buffer, log_write() and brelse(), and end_op().  log_write()     *)
(* tests the size of the transaction before it acquires log.lock, so the   *)
(* test and the recording of the block are two steps.                      *)
(***************************************************************************)
EXTENDS Integers, FiniteSets

CONSTANTS
    Procs,          \* processes that make file-system calls
    Blocks,         \* block numbers outside the log
    Data,           \* contents of a block
    NoBlock, NotCached,
    MAXOPBLOCKS,    \* most blocks a system call writes
    LOGSIZE,        \* size of logheader.block
    nlog,           \* log.size, from the superblock: header and data blocks
    MaxCrashes      \* bound on the number of crashes

ASSUME LogAssumption ==
    /\ IsFiniteSet(Procs)
    /\ IsFiniteSet(Blocks)
    /\ NoBlock \notin Blocks
    /\ NotCached \notin Data
    /\ MAXOPBLOCKS \in Nat \ {0}
    /\ LOGSIZE \in Nat
    /\ MAXOPBLOCKS <= LOGSIZE
    /\ nlog \in Nat
    /\ MaxCrashes \in Nat

Slots == 1..LOGSIZE

VARIABLES
    \* On disk.
    home,           \* contents of the blocks
    dlog,           \* contents of the log's data blocks
    dhead,          \* the header block
    \* In memory.
    cache, dirty,   \* buffer cache: contents, and the blocks marked B_DIRTY
    lh,             \* log.lh
    outstanding, committing,
    \* Control.
    phase,          \* where commit() or recover_from_log() is; "run" outside them
    tail,           \* the loop variable of write_log() and install_trans()
    pc,             \* where each process is
    wb,             \* the buffer it has changed and still holds locked
    wrote,          \* the blocks its system call has logged
    crashes

disks == <<home, dlog, dhead>>
vars == <<home, dlog, dhead, cache, dirty, lh, outstanding, committing, phase,
          tail, pc, wb, wrote, crashes>>

logheader == [n : 0..LOGSIZE, block : [Slots -> Blocks \cup {NoBlock}]]
zeroed == [n |-> 0, block |-> [i \in Slots |-> NoBlock]]

Phases == {"run", "write_log", "write_head", "install_trans", "clear", "finish", "read_head"}

\* What bread() returns: the cached contents, or what it reads from the disk.
Contents(b) == IF cache[b] = NotCached THEN home[b] ELSE cache[b]

\* Memory after power-on: main() and forkret() run before any other process.
Booting ==
    /\ cache' = [b \in Blocks |-> NotCached]
    /\ dirty' = {}
    /\ lh' = zeroed
    /\ outstanding' = 0
    /\ committing' = FALSE
    /\ phase' = "read_head"
    /\ tail' = 1
    /\ pc' = [p \in Procs |-> "idle"]
    /\ wb' = [p \in Procs |-> NoBlock]
    /\ wrote' = [p \in Procs |-> {}]

\* A disk made by mkfs, just booted.
Init ==
    /\ home \in [Blocks -> Data]
    /\ \E d \in Data : dlog = [i \in Slots |-> d]
    /\ dhead = zeroed
    /\ cache = [b \in Blocks |-> NotCached]
    /\ dirty = {}
    /\ lh = zeroed
    /\ outstanding = 0
    /\ committing = FALSE
    /\ phase = "read_head"
    /\ tail = 1
    /\ pc = [p \in Procs |-> "idle"]
    /\ wb = [p \in Procs |-> NoBlock]
    /\ wrote = [p \in Procs |-> {}]
    /\ crashes = 0

crash ==
    /\ crashes < MaxCrashes
    /\ crashes' = crashes + 1
    /\ Booting
    /\ UNCHANGED disks

(***************************************************************************)
(* The buffer cache, as the log uses it                                    *)
(***************************************************************************)
Running == phase \in {"run", "write_log", "write_head", "finish"} \/ committing

\* Some process reads a block.
bread(b) ==
    /\ Running
    /\ cache[b] = NotCached
    /\ cache' = [cache EXCEPT ![b] = home[b]]
    /\ UNCHANGED <<home, dlog, dhead, dirty, lh, outstanding, committing, phase,
                   tail, pc, wb, wrote, crashes>>

\* bget() recycles a buffer that nobody holds and that is not B_DIRTY.
bget_recycle(b) ==
    /\ cache[b] # NotCached
    /\ b \notin dirty
    /\ \A p \in Procs : wb[p] # b
    /\ cache' = [cache EXCEPT ![b] = NotCached]
    /\ UNCHANGED <<home, dlog, dhead, dirty, lh, outstanding, committing, phase,
                   tail, pc, wb, wrote, crashes>>

(***************************************************************************)
(* begin_op() and end_op()                                                 *)
(***************************************************************************)
\* wakeup(&log)
wakeup_missing(f) == f
wakeup(f) == [p \in Procs |-> IF f[p] = "asleep" THEN "begin_op" ELSE f[p]]

MustWait == committing \/ lh.n + (outstanding + 1) * MAXOPBLOCKS > LOGSIZE

\* log.outstanding += 1
admitted == outstanding + 1

begin_op(p) ==
    /\ Running
    /\ pc[p] \in {"idle", "begin_op"}
    /\ \/ /\ MustWait
          /\ pc' = [pc EXCEPT ![p] = "asleep"]
          /\ UNCHANGED <<outstanding, wrote>>
       \/ /\ ~MustWait
          /\ pc' = [pc EXCEPT ![p] = "op"]
          /\ outstanding' = admitted
          /\ wrote' = [wrote EXCEPT ![p] = {}]
    /\ UNCHANGED <<home, dlog, dhead, cache, dirty, lh, committing, phase, tail,
                   wb, crashes>>

end_op(p) ==
    /\ pc[p] = "op"
    /\ outstanding' = outstanding - 1
    /\ IF committing THEN
           /\ pc' = [pc EXCEPT ![p] = "panic"]
           /\ UNCHANGED <<committing, phase, tail>>
       ELSE IF outstanding' = 0 THEN
           /\ pc' = [pc EXCEPT ![p] = "commit"]
           /\ committing' = TRUE
           /\ phase' = IF lh.n > 0 THEN "write_log" ELSE "finish"
           /\ tail' = 1
       ELSE
           /\ pc' = wakeup([pc EXCEPT ![p] = "idle"])
           /\ UNCHANGED <<committing, phase, tail>>
    /\ UNCHANGED <<home, dlog, dhead, cache, dirty, lh, wb, wrote, crashes>>

\* The end of end_op(), after commit().
finish(p) ==
    /\ pc[p] = "commit"
    /\ phase = "finish"
    /\ committing' = FALSE
    /\ phase' = "run"
    /\ pc' = wakeup([pc EXCEPT ![p] = "idle"])
    /\ UNCHANGED <<home, dlog, dhead, cache, dirty, lh, outstanding, tail, wb,
                   wrote, crashes>>

(***************************************************************************)
(* log_write()                                                             *)
(***************************************************************************)
\* The caller has the buffer locked and changes it; log_write() tests the size
\* of the transaction without log.lock.
modify(p, b, v) ==
    /\ pc[p] = "op"
    /\ \A q \in Procs : wb[q] # b
    /\ b \in wrote[p] \/ Cardinality(wrote[p]) < MAXOPBLOCKS
    /\ cache' = [cache EXCEPT ![b] = v]
    /\ wb' = [wb EXCEPT ![p] = b]
    /\ pc' = [pc EXCEPT ![p] = IF \/ lh.n >= LOGSIZE
                                  \/ lh.n >= nlog - 1
                                  \/ outstanding < 1
                               THEN "panic" ELSE "log_write"]
    /\ UNCHANGED <<home, dlog, dhead, dirty, lh, outstanding, committing, phase,
                   tail, wrote, crashes>>

\* Log absorption: the loop that looks the block up stops at lh.n.
Logged_short(b) == \E i \in 1..lh.n - 1 : lh.block[i] = b
Logged(b) == \E i \in 1..lh.n : lh.block[i] = b

\* Under log.lock: record the block unless it is recorded already, and mark
\* the buffer B_DIRTY; then the caller releases the buffer.
log_write(p) ==
    /\ pc[p] = "log_write"
    /\ lh' = IF Logged(wb[p]) THEN lh
             ELSE [n |-> lh.n + 1, block |-> [lh.block EXCEPT ![lh.n + 1] = wb[p]]]
    /\ dirty' = dirty \cup {wb[p]}
    /\ wrote' = [wrote EXCEPT ![p] = @ \cup {wb[p]}]
    /\ wb' = [wb EXCEPT ![p] = NoBlock]
    /\ pc' = [pc EXCEPT ![p] = "op"]
    /\ UNCHANGED <<home, dlog, dhead, cache, outstanding, committing, phase,
                   tail, crashes>>

(***************************************************************************)
(* commit() and recover_from_log(), one disk write at a time               *)
(***************************************************************************)
\* tail++, tail < log.lh.n: this round of the loop is the last.
LastRound_early == tail + 1 >= lh.n
LastRound == tail = lh.n

\* One round of write_log(): copy a block from the cache to the log.
write_log ==
    /\ phase = "write_log"
    /\ LET b == lh.block[tail]
       IN  /\ dlog' = [dlog EXCEPT ![tail] = Contents(b)]
           /\ cache' = [cache EXCEPT ![b] = Contents(b)]
    /\ tail' = tail + 1
    /\ phase' = IF LastRound THEN "write_head" ELSE "write_log"
    /\ UNCHANGED <<home, dhead, dirty, lh, outstanding, committing, pc, wb,
                   wrote, crashes>>

\* The header block that write_head() writes.
Header_short(h) ==
    [n |-> IF h.n > 0 THEN h.n - 1 ELSE 0,
     block |-> [i \in Slots |-> IF i < h.n THEN h.block[i] ELSE dhead.block[i]]]
Header(h) ==
    [n |-> h.n, block |-> [i \in Slots |-> IF i <= h.n THEN h.block[i] ELSE dhead.block[i]]]

\* write_head() in commit(): the commit point.
write_head ==
    /\ phase = "write_head"
    /\ dhead' = Header(lh)
    /\ phase' = "install_trans"
    /\ tail' = 1
    /\ UNCHANGED <<home, dlog, cache, dirty, lh, outstanding, committing, pc,
                   wb, wrote, crashes>>

\* One round of install_trans(): copy a block from the log to its home.  The
\* disk clears B_DIRTY when the write is done.
install_trans ==
    /\ phase = "install_trans"
    /\ LET b == lh.block[tail]
       IN  /\ home' = [home EXCEPT ![b] = dlog[tail]]
           /\ cache' = [cache EXCEPT ![b] = dlog[tail]]
           /\ dirty' = dirty \ {b}
    /\ tail' = tail + 1
    /\ phase' = IF LastRound THEN "clear" ELSE "install_trans"
    /\ UNCHANGED <<dlog, dhead, lh, outstanding, committing, pc, wb, wrote, crashes>>

\* log.lh.n = 0 and write_head(): the end of commit() and of recover_from_log().
clear ==
    /\ phase = "clear"
    /\ lh' = [lh EXCEPT !.n = 0]
    /\ dhead' = Header(lh')
    /\ phase' = IF committing THEN "finish" ELSE "run"
    /\ UNCHANGED <<home, dlog, cache, dirty, outstanding, committing, tail, pc,
                   wb, wrote, crashes>>

\* initlog(): recover_from_log() starts with read_head().
read_head ==
    /\ phase = "read_head"
    /\ lh' = [n |-> dhead.n,
              block |-> [i \in Slots |-> IF i <= dhead.n THEN dhead.block[i] ELSE lh.block[i]]]
    /\ tail' = 1
    /\ phase' = IF dhead.n > 0 THEN "install_trans" ELSE "clear"
    /\ UNCHANGED <<home, dlog, dhead, cache, dirty, outstanding, committing, pc,
                   wb, wrote, crashes>>

(***************************************************************************)
(* The specification                                                       *)
(***************************************************************************)
commit == write_log \/ write_head \/ install_trans \/ clear

Next ==
    \/ \E p \in Procs : begin_op(p) \/ end_op(p) \/ finish(p) \/ log_write(p)
    \/ \E p \in Procs, b \in Blocks, v \in Data : modify(p, b, v)
    \/ \E b \in Blocks : bread(b) \/ bget_recycle(b)
    \/ commit
    \/ read_head
    \/ crash

Spec == Init /\ [][Next]_vars

(***************************************************************************)
(* Properties                                                              *)
(***************************************************************************)
Active == {p \in Procs : pc[p] \in {"op", "log_write", "panic"}}

\* The blocks as recover_from_log() would leave them after a crash now.
Recovered ==
    [b \in Blocks |->
        IF \E i \in 1..dhead.n : dhead.block[i] = b
        THEN dlog[CHOOSE i \in 1..dhead.n : dhead.block[i] = b]
        ELSE home[b]]

\* The blocks as system calls see them; after a crash, as they will see them.
Visible == IF Running THEN [b \in Blocks |-> Contents(b)] ELSE Recovered

\* The log implements atomic transactions: what a crash leaves is all the
\* updates of the system calls that were committed together, and none of any
\* later one, wherever the crash hits commit() or the recovery itself.
T == INSTANCE Transactions WITH disk <- Recovered, mem <- Visible, active <- Active

Atomic == T!Spec

\* When the last end_op() has returned, every update is on the disk.
Durable == phase = "run" /\ outstanding = 0 => Recovered = Visible

\* Space that begin_op() reserved is there: with the blocks that the active
\* system calls may still log, the transaction fits into logheader.block.
Tickets == {t \in Procs \X (1..MAXOPBLOCKS) :
                t[1] \in Active /\ t[2] > Cardinality(wrote[t[1]])}
Reserved == lh.n + Cardinality(Tickets) <= LOGSIZE

\* A process asleep in begin_op() really has to wait, and for someone who will
\* wake it up: a commit in progress or a system call that is not over.
NoLostWakeup ==
    \A p \in Procs : pc[p] = "asleep" => MustWait /\ (committing \/ outstanding > 0)

(***************************************************************************)
(* The inductive invariant                                                 *)
(***************************************************************************)
TypeOK ==
    /\ home \in [Blocks -> Data] /\ dlog \in [Slots -> Data] /\ dhead \in logheader
    /\ cache \in [Blocks -> Data \cup {NotCached}] /\ dirty \subseteq Blocks
    /\ lh \in logheader
    /\ outstanding \in Nat /\ committing \in BOOLEAN
    /\ phase \in Phases /\ tail \in 1..LOGSIZE + 1
    /\ pc \in [Procs -> {"idle", "begin_op", "asleep", "op", "log_write", "commit", "panic"}]
    /\ wb \in [Procs -> Blocks \cup {NoBlock}]
    /\ wrote \in [Procs -> SUBSET Blocks]
    /\ crashes \in Nat

\* Which phases commit() and recover_from_log() go through, and that no system
\* call is active during either.
Control ==
    /\ outstanding = Cardinality(Active)
    /\ committing => /\ Active = {}
                     /\ phase \notin {"run", "read_head"}
    /\ ~committing => /\ phase \in {"run", "install_trans", "clear", "read_head"}
                      /\ phase # "run" => \A p \in Procs : pc[p] = "idle"
    /\ phase \in {"write_log", "install_trans"} => tail \in 1..lh.n
    /\ phase = "write_head" => lh.n > 0
    /\ phase = "finish" \/ (phase = "run" /\ Active = {}) => lh.n = 0

\* Who holds a changed buffer, and what an active system call has logged.
Writing ==
    \A p \in Procs :
        /\ wb[p] \in Blocks <=> pc[p] \in {"log_write", "panic"}
        /\ wb[p] \in Blocks => cache[wb[p]] # NotCached
        /\ pc[p] = "log_write" => wb[p] \in wrote[p] \/ Cardinality(wrote[p]) < MAXOPBLOCKS
        /\ p \in Active => \A b \in wrote[p] : Logged(b)

\* No block is in a header twice, and the header on the disk is empty outside
\* the window between the commit point and the end of install_trans().
HeaderSound(h) ==
    \A i \in 1..h.n : h.block[i] \in Blocks /\ \A j \in 1..h.n : h.block[i] = h.block[j] => i = j

Headers ==
    /\ HeaderSound(lh) /\ HeaderSound(dhead)
    /\ phase \in {"run", "write_log", "write_head", "finish"} => dhead.n = 0
    /\ phase \in {"install_trans", "clear"} =>
        dhead.n = lh.n /\ \A i \in 1..lh.n : dhead.block[i] = lh.block[i]

\* The places of the transaction whose blocks have not reached their homes.
Uninstalled ==
    IF phase \in {"run", "write_log", "write_head"} THEN 1..lh.n
    ELSE IF phase = "install_trans" /\ committing THEN tail..lh.n
    ELSE {}

\* Exactly these are B_DIRTY, so bget() cannot recycle them; every other buffer
\* is equal to the disk unless a system call is changing it.
Buffers ==
    /\ dirty = {lh.block[i] : i \in Uninstalled}
    /\ \A b \in dirty : cache[b] # NotCached
    /\ \A b \in Blocks : b \notin dirty /\ (\A p \in Procs : wb[p] # b) =>
        cache[b] \in {NotCached, home[b]}

\* How far the copies to the log and from the log have come.
Copies ==
    /\ phase = "write_log" => \A i \in 1..tail - 1 : dlog[i] = cache[lh.block[i]]
    /\ phase = "write_head" \/ (phase = "install_trans" /\ committing) =>
        \A i \in Uninstalled : dlog[i] = cache[lh.block[i]]
    /\ phase = "install_trans" => \A i \in 1..tail - 1 : home[lh.block[i]] = dlog[i]
    /\ phase = "clear" => \A i \in 1..lh.n : home[lh.block[i]] = dlog[i]

LInv ==
    /\ TypeOK /\ Control /\ Writing /\ Headers /\ Buffers /\ Copies
    /\ Reserved /\ NoLostWakeup
=============================================================================
