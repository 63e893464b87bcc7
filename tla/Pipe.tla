-------------------------------- MODULE Pipe --------------------------------
(***************************************************************************)
(* A pipe of pipe.c between processes that share its two ends.             *)
(*                                                                         *)
(* What a process does between acquire(&p->lock) and release() or sleep()  *)
(* is one step, because everything else in the pipe is only touched under  *)
(* that lock.  The exception is killed, which kill() sets under another    *)
(* lock: the test of killed is one step and sleep() the next, and p->lock  *)
(* is held in between.                                                     *)
(***************************************************************************)
EXTENDS Integers, Sequences, FiniteSetsExt

CONSTANTS
    Readers, Writers,   \* processes that start with the read or the write end
    Killable,           \* processes that kill() may be called for
    Bytes,
    PIPESIZE,
    UINT,               \* the values of a uint: nread and nwrite wrap around here
    MaxN                \* longest read or write

ASSUME PipeAssumption ==
    /\ PIPESIZE \in Nat \ {0}
    /\ UINT \in Nat
    /\ UINT > PIPESIZE
    /\ UINT % PIPESIZE = 0
    /\ MaxN \in Nat
    /\ Readers \cap Writers = {}
    /\ Readers # {} /\ Writers # {}      \* pipealloc() returns both ends open

Procs == Readers \cup Writers

VARIABLES
    data, nread, nwrite, readopen, writeopen,   \* struct pipe
    freed,      \* kfree() was called for it
    fd,         \* the processes that still have their end open
    pc,         \* where each process is
    left,       \* how much of its n bytes a writer has left, or n for a reader
    killed,
    out         \* what the last piperead() copied out

vars == <<data, nread, nwrite, readopen, writeopen, freed, fd, pc, left, killed, out>>

pipe == <<data, nread, nwrite, readopen, writeopen, freed>>

pipealloc ==
    /\ data \in [0..PIPESIZE - 1 -> Bytes]
    /\ nread = 0 /\ nwrite = 0
    /\ readopen = TRUE /\ writeopen = TRUE
    /\ freed = FALSE

Init ==
    /\ pipealloc
    /\ fd = Procs
    /\ pc = [p \in Procs |-> "user"]
    /\ left = [p \in Procs |-> 0]
    /\ killed = [p \in Procs |-> FALSE]
    /\ out = <<>>

\* Unsigned addition to a counter, the bytes in the pipe, and the room in it:
\* pipewrite() stops at nwrite == nread + PIPESIZE.
plus(x, m) == (x + m) % UINT
Used == (nwrite - nread) % UINT
Space_over == PIPESIZE + 1 - Used
Space == PIPESIZE - Used
Full == nwrite = plus(nread, PIPESIZE)

\* p->lock is held between the test of killed and the release() in sleep().
LockFree == \A p \in Procs : pc[p] # "sleep"

\* wakeup() of everyone asleep at the given end.  They have to acquire p->lock
\* again before they look at the pipe.
wakeup_one(f, end) ==
    IF \E p \in end : f[p] = "asleep"
    THEN [f EXCEPT ![CHOOSE p \in end : f[p] = "asleep"] = "loop"] ELSE f
wakeup_none(f, end) == f
wakeup(f, end) == [p \in Procs |-> IF p \in end /\ f[p] = "asleep" THEN "loop" ELSE f[p]]

\* read() and write() with n bytes; trap() has tested killed.
call(p, n) ==
    /\ p \in fd
    /\ pc[p] = "user"
    /\ ~killed[p]
    /\ pc' = [pc EXCEPT ![p] = "loop"]
    /\ left' = [left EXCEPT ![p] = n]
    /\ UNCHANGED <<pipe, fd, killed, out>>

return(f, p) == [f EXCEPT ![p] = "user"]

\* pipewrite() from acquire(), or from the return of sleep(), to release() or
\* to the next sleep().
pipewrite(p) ==
    /\ p \in Writers
    /\ pc[p] = "loop"
    /\ LockFree
    /\ LET m == Min({left[p], Space})
       IN  /\ \E s \in [1..m -> Bytes] :
                data' = [i \in DOMAIN data |->
                            IF \E k \in 1..m : (nwrite + k - 1) % PIPESIZE = i
                            THEN s[CHOOSE k \in 1..m : (nwrite + k - 1) % PIPESIZE = i]
                            ELSE data[i]]
           /\ nwrite' = plus(nwrite, m)
           /\ \/ /\ left[p] = m
                 /\ pc' = wakeup(return(pc, p), Readers)
                 /\ left' = [left EXCEPT ![p] = 0]
              \/ /\ left[p] > m
                 /\ ~readopen \/ killed[p]
                 /\ pc' = return(pc, p)
                 /\ left' = [left EXCEPT ![p] = 0]
              \/ /\ left[p] > m
                 /\ readopen /\ ~killed[p]
                 /\ pc' = wakeup([pc EXCEPT ![p] = "sleep"], Readers)
                 /\ left' = [left EXCEPT ![p] = @ - m]
    /\ UNCHANGED <<nread, readopen, writeopen, freed, fd, killed, out>>

\* piperead(), the loop: wait while the pipe is empty.
piperead_wait(p) ==
    /\ p \in Readers
    /\ pc[p] = "loop"
    /\ LockFree
    /\ nread = nwrite /\ writeopen
    /\ \/ killed[p] /\ pc' = return(pc, p) /\ left' = [left EXCEPT ![p] = 0]
       \/ ~killed[p] /\ pc' = [pc EXCEPT ![p] = "sleep"] /\ UNCHANGED left
    /\ UNCHANGED <<pipe, fd, killed, out>>

\* piperead(), the rest: copy what there is, at most n bytes.
piperead_copy(p) ==
    /\ p \in Readers
    /\ pc[p] = "loop"
    /\ LockFree
    /\ ~(nread = nwrite /\ writeopen)
    /\ LET m == Min({left[p], Used})
       IN  /\ out' = [k \in 1..m |-> data[(nread + k - 1) % PIPESIZE]]
           /\ nread' = plus(nread, m)
    /\ pc' = wakeup(return(pc, p), Writers)
    /\ left' = [left EXCEPT ![p] = 0]
    /\ UNCHANGED <<data, nwrite, readopen, writeopen, freed, fd, killed>>

\* sleep(&p->nread, &p->lock) or sleep(&p->nwrite, &p->lock)
sleep(p) ==
    /\ pc[p] = "sleep"
    /\ pc' = [pc EXCEPT ![p] = "asleep"]
    /\ UNCHANGED <<pipe, fd, left, killed, out>>

\* Neither end is open any more.
unused_either(r, w) == ~r \/ ~w
unused(r, w) == ~r /\ ~w

\* close(), or exit(): fileclose() calls pipeclose() for the last reference to
\* the end.
pipeclose(p) ==
    /\ p \in fd
    /\ pc[p] = "user"
    /\ fd' = fd \ {p}
    /\ \/ /\ fd' \cap Readers # {} \/ p \in Writers
          /\ fd' \cap Writers # {} \/ p \in Readers
          /\ UNCHANGED <<readopen, writeopen, freed, pc>>
       \/ /\ fd' \cap Readers = {} /\ p \in Readers
          /\ LockFree
          /\ readopen' = FALSE
          /\ freed' = unused(FALSE, writeopen)
          /\ pc' = wakeup(pc, Writers)
          /\ UNCHANGED writeopen
       \/ /\ fd' \cap Writers = {} /\ p \in Writers
          /\ LockFree
          /\ writeopen' = FALSE
          /\ freed' = unused(readopen, FALSE)
          /\ pc' = wakeup(pc, Readers)
          /\ UNCHANGED readopen
    /\ UNCHANGED <<data, nread, nwrite, left, killed, out>>

\* kill() from outside: mark the process and wake it from sleep if necessary.
kill(p) ==
    /\ p \in Killable \cap fd
    /\ killed' = [killed EXCEPT ![p] = TRUE]
    /\ pc' = [pc EXCEPT ![p] = IF @ = "asleep" THEN "loop" ELSE @]
    /\ UNCHANGED <<pipe, fd, left, out>>

\* Every process has closed its end: the story of this pipe is over.
Done == fd = {} /\ UNCHANGED vars

Next ==
    \/ \E p \in Procs :
        \/ pipewrite(p) \/ piperead_wait(p) \/ piperead_copy(p)
        \/ sleep(p) \/ pipeclose(p) \/ kill(p)
    \/ \E p \in Procs, n \in 0..MaxN : call(p, n)
    \/ Done

Spec == Init /\ [][Next]_vars

\* A process in the kernel goes on, and every process closes its end in the
\* end, by itself or by exiting.
Fairness ==
    \A p \in Procs :
        /\ WF_vars(sleep(p))
        /\ WF_vars(pipewrite(p) \/ piperead_wait(p) \/ piperead_copy(p))
        /\ SF_vars(pipeclose(p))

LiveSpec == Spec /\ Fairness

(***************************************************************************)
(* Properties                                                              *)
(***************************************************************************)
\* The ring buffer with its wrapping counters is a queue of at most PIPESIZE
\* bytes: each byte is delivered once, in order, whatever readers and writers
\* interleave, and what was written before the write end closed is delivered.
Queue == [k \in 1..Used |-> data[(nread + k - 1) % PIPESIZE]]

F == INSTANCE Fifo WITH
        Capacity <- PIPESIZE,
        q <- Queue,
        ropen <- readopen, wopen <- writeopen

FifoQueue == F!Spec

\* Nobody is inside piperead() or pipewrite() of a pipe that was freed, and it
\* is freed exactly when both ends have been closed.
NoUseAfterFree ==
    /\ freed => \A p \in Procs : pc[p] = "user"
    /\ freed <=> fd = {}

\* Nobody sleeps on a condition that does not hold.  A writer asleep has a full
\* pipe before it and a reader behind it.  A reader asleep has a writer behind
\* it and, unless a writer was killed, an empty pipe before it: a killed writer
\* returns from a full pipe without the wakeup() for what it has written since
\* its last one.
WriterWaits == \A p \in Writers : pc[p] = "asleep" => Full /\ readopen

ReaderWaits ==
    \A p \in Readers : pc[p] = "asleep" =>
        writeopen /\ (nread = nwrite \/ \E w \in Writers : killed[w])
SleepersWait == WriterWaits /\ ReaderWaits

\* Nobody waits for ever: once the processes are done they get to close their
\* ends, and the pipe is freed.
Freed == <>freed

(***************************************************************************)
(* The inductive invariant                                                 *)
(***************************************************************************)
TypeOK ==
    /\ data \in [0..PIPESIZE - 1 -> Bytes]
    /\ nread \in 0..UINT - 1 /\ nwrite \in 0..UINT - 1
    /\ readopen \in BOOLEAN /\ writeopen \in BOOLEAN /\ freed \in BOOLEAN
    /\ fd \subseteq Procs
    /\ pc \in [Procs -> {"user", "loop", "sleep", "asleep"}]
    /\ left \in [Procs -> 0..MaxN]
    /\ killed \in [Procs -> BOOLEAN]

\* The counters never run further apart than the ring is long.
Bounded == Used <= PIPESIZE

\* The flags of struct pipe follow the references to its two ends, and who is
\* inside piperead() or pipewrite() has one.
Ends ==
    /\ readopen <=> fd \cap Readers # {}
    /\ writeopen <=> fd \cap Writers # {}
    /\ freed <=> fd = {}
    /\ \A p \in Procs \ fd : pc[p] = "user"

\* One process holds p->lock, and what is true of a process that sleeps was
\* true already when it went to sleep().
OneHolder == \A p, q \in Procs : pc[p] = "sleep" /\ pc[q] = "sleep" => p = q

Sleepy(p) == pc[p] \in {"sleep", "asleep"}

Waiting ==
    /\ \A p \in Writers : Sleepy(p) => Full /\ readopen
    /\ \A p \in Readers : Sleepy(p) =>
            writeopen /\ (nread = nwrite \/ \E w \in Writers : killed[w])

PInv == TypeOK /\ Bounded /\ Ends /\ OneHolder /\ Waiting
=============================================================================
