# TLA+ specifications of xv6

Specifications of this xv6 (the x86 teaching kernel with a priority scheduler,
`nice`, `cps` and a few devices added) and of its shell and user allocator, their
TLC instances, and TLAPS proofs about the process table, the buffer cache, the log,
pipes and the console.
`PROJECT.json` maps every definition to the lines it models and lists runs,
mutants, hazards and theorems; this file explains them.

## 1. The system

| Part | State | Operations | Interacts with |
|---|---|---|---|
| Process table, scheduler (`proc.c`) | `ptable` under `ptable.lock`, `c->proc` | `allocproc fork exit wait sleep wakeup yield sched scheduler kill nice cps procdump` | everything that sleeps |
| Traps, system calls (`trap.c syscall.c sysproc.c`) | `ticks`, `killed` | `trap`, `syscall`, `sys_sleep` | process table |
| Log (`log.c`) | `log.lh`, `outstanding`, `committing`; header and data blocks on disk | `begin_op end_op log_write commit recover_from_log` | buffer cache, every file-system call |
| Buffer cache (`bio.c`), sleep-locks (`sleeplock.c`), disk (`ide.c`) | LRU list, buffers, `idequeue` | `bget bread bwrite brelse`, `acquiresleep releasesleep`, `iderw ideintr` | log, inodes |
| Pipes (`pipe.c`) | ring with `nread`, `nwrite`, open flags | `pipealloc piperead pipewrite pipeclose` | files, sleep/wakeup, kill |
| Console (`console.c kbd.c uart.c`) | ring with `r`, `w`, `e`; `cons.lock` | `consoleintr consoleread consolewrite cprintf` | sleep/wakeup, `cps`, `procdump` |
| Spin locks (`spinlock.c`) | `locked`, `ncli`, `intena` | `acquire release pushcli popcli` | all |
| Files, descriptors (`file.c sysfile.c`) | `ftable`, `ofile` | `filealloc filedup fileclose fileread filewrite`, the file calls | pipes, inodes, log |
| Inodes, directories (`fs.c`) | inode cache, block bitmap, directories | `iget iput ilock bmap itrunc balloc dirlink namex` | buffer cache, log |
| Memory (`kalloc.c vm.c`), `exec.c` | free list, page tables | `kalloc kfree allocuvm copyuvm`, `exec` | process table |
| Devices `dNull dZero dTicks dHello` | `ticks` | read and write | files |
| Shell (`sh.c`) | the command tree, its processes and descriptors | `parsecmd runcmd main` | fork, wait, pipes |
| User allocator (`umalloc.c`) | the circular free list | `malloc free morecore` | `sbrk` |
| Boot and interrupt controllers, other user programs, `mkfs` | – | – | – |

What is hard to get right in it, and hard to test:

- a process is made RUNNABLE or SLEEPING while it still executes on its kernel
  stack; only the hand-over of `ptable.lock` through `swtch()` keeps another CPU
  from running it;
- the tests that decide to sleep (in `wait`, `begin_op`, `piperead`,
  `consoleread`, `acquiresleep`) against the wakeups;
- `exit` of parents and children in any order, with init inheriting zombies;
- failures half way: `fork` without memory, a writer killed in a full pipe;
- the priority scan of `scheduler()`, a double loop that moves its own index;
- power failure between any two disk writes of a commit or of a recovery;
- counters that wrap around, rings and queues that are full;
- locks that nest: `cons.lock` and `ptable.lock`, the sleep-locks of a directory
  and of an inode in it;
- counts that several structures share: references to inodes and files, links and
  names, pages and page tables, blocks and the bitmap;
- a cached inode or buffer that is reused while somebody still has it.

## 2. Modules

Common to all: what the code does between acquiring and releasing a spinlock is
one step. Where the lock itself matters (it is handed over, or it nests) its
holder is a variable. What the code does outside a lock is a step of its own.

| Module | Models | Abstract specification |
|---|---|---|
| `Proc` | `proc.c`, the `killed` tests and timer of `trap.c`, `sys_sleep`, `exec`'s reset of the priority | – |
| `ProcSteps ProcProofs` | theorems about `Proc` | – |
| `Log` | `log.c` over a cache and a disk that can crash | `Transactions` |
| `LogSteps LogProofs` | theorems about `Log` | – |
| `Pipe` | `pipe.c` | `Fifo` |
| `PipeProofs` | theorems about `Pipe` | – |
| `Console` | input ring of `console.c`, and its locks with `cps`/`procdump` | `Tty` |
| `ConsoleProofs` | theorems about `Console` | – |
| `Bcache` | `bio.c`, `sleeplock.c`, `ide.c` | `BlockStore` |
| `BcacheLocks BcacheProofs` | theorems about `Bcache` | – |
| `Icache` | the inode cache, inodes on disk and directories of `fs.c`, as operators | – |
| `Sysfile` | the calls of `sysfile.c` on names and descriptors, `file.c`, over `Icache` | – |
| `Inode` | the blocks of files in `fs.c`, `fileread` and `filewrite` of `file.c` | `FileStore` |
| `Vm` | `kalloc.c`, `vm.c`, `exec.c`, `growproc`, the memory side of `fork`, `exit`, `wait` | `Spaces` |
| `Sh` | `sh.c` | `ShGrammar` (the parser) |
| `Umalloc` | `umalloc.c` | – |
| `MCProc MCLog MCPipe MCConsole MCBcache MCSysfile MCInode MCVm MCUser` | instances for TLC | – |

**Proc.** One function per field of `struct proc`. `cproc[c]` is `c->proc`;
`scan[c]` holds the locals of `scheduler()` on CPU `c`: `p`, where the outer loop
goes on, `highP`, and `p1`, where the inner loop is; `pc[p]` is where the kernel thread of `p` is, and `back[p]` the call of `sched()` it returns
from when it is switched to. The double loop runs slot by slot: `sched_found` is
the outer loop reaching a RUNNABLE process, `sched_compare` one round of the inner
loop, `sched_swtch` the switch; `NextSlot` is `p = highP` followed by `p++`. The
scan is under `ptable.lock`, but what other CPUs do without the lock can come
between two of its rounds. `allocproc` is split where it
drops the lock: `allocproc`, `alloc_kstack`, `fork_copy`, `fork_run`, the middle
two with a failing outcome. `exit`, the three outcomes of `wait`, `kill` and
`nice` are one critical section each. The user side is `trap_entry`, `trap_fault`
and `trap_return`: any process may make any call of `Calls`. Memory images, open
files and names are left out (`Vm` and `Sysfile` have them). Ticks are abstracted: a sleeper in `sys_sleep`
that is woken goes on or sleeps again. `exit_init` is init exiting, a panic.

**Log.** Disk: `home`, `dlog`, `dhead`. Memory: `cache`, `dirty`, `lh`,
`outstanding`, `committing`. `phase` and `tail` are the program counter of
`commit()` or `recover_from_log()`, which write one block per step. `modify` is
the caller's change of a locked buffer and the unlocked size test of
`log_write()`; `log_write` is its critical section. `crash` keeps the disk and
starts `read_head`. The cache is reduced to what the log relies on: a buffer that
is B_DIRTY or held is not recycled. (`Bcache` has the cache in full.)

**Pipe.** `nread` and `nwrite` are taken modulo `UINT`. A call is `call`, then
rounds from `acquire` or the return of `sleep` to `release` or the next `sleep`.
The test of `killed` and `sleep` are two steps, with `p->lock` held in between,
because `kill` does not take that lock. Each end is shared by a set of
processes, and the last to close it calls `pipeclose`.

**Console.** Actors on different CPUs: the interrupt handler, readers, writers,
callers of `cps`. `cons` and `ptable` are the holders of the two locks.
Characters are letters, end keys (newline, `^D`), editing keys (`^U`, `^H`), `^P`
and NUL. Output is not modelled beyond its locking: `cprintf` needs `cons.lock`
to be free.

**Bcache.** `lru` is the list from the most recently used; `owner` the holder of
a buffer's sleep-lock; `drive` the data that `outsl` gave the drive when a write
was started. `bget`'s critical section, `acquiresleep`, `releasesleep`, the rest
of `brelse`, `iderw` and `ideintr` are steps. A process holds one buffer at a
time. The drive makes no errors. `bget: no buffers` leaves `bcache.lock` held
for ever, as the code does.

**Icache, Sysfile.** `fs` is a record: the inodes on disk (`dinode`), the entries
of each directory (`ents`), the cache (`icache`, named by inode number: `iget`
makes one entry per number), the sleep-locks (`lock`), and `committed`, what a
crash goes back to. The operators of `Icache` are the functions of `fs.c` on that
record; the actions of `Sysfile` call them in the order of the code. A step runs
from one `acquiresleep` to the next. `iput` is two steps, because the code drops
the reference after `releasesleep`. `l[p]` holds the local variables `ip`, `dp`,
the inode being put and the rest of the path, so that the pointers that `ref`
counts can be counted. The log is used as `Transactions` describes it: calls that
overlap commit together, at most `MaxGroup` of them.

**Inode.** `s` is the disk seen through log and cache, with the bitmap, blocks
that hold bytes or addresses, and inodes on disk and in core. `readi` and
`writei` run under the inode's lock, so each is a step; `filewrite` is one step
per piece. `s.log` is the set of blocks that the current call has written.

**Vm.** A page table is a record of its directory, its page tables and its
user mappings; `mem` has how often each page is on the free list and what it
holds. A step runs from one `kalloc` to the next, except that `setupkvm`, whose
failure gives everything back at once, is one step. The contents of a page are one of
junk, zero, program, arguments and written by the user. Every call returns: `ret`
is whether the last `sbrk`, `exec` or `fork` of a process succeeded. `Spaces` has
the same variable, so that `PrivateMemory` distinguishes a call that failed, which
must have changed nothing (`Fail`), from one that did its work. The one call that
fails and has changed something, `sbrk` of everything, has an action of its own
(`GiveBack`).

**Sh, ShGrammar.** A line is a sequence of tokens. The parser's functions return a
set: the tree and the place reached, or nothing for `panic`. `ShGrammar` says by
cutting at operators what the tree should be. A process of the shell has a
command, descriptors and a parent; `runcmd` is one action per kind of command and
one per `wait`. A program ends when it likes; it is only obliged to at the end
of its input. `init` leaves seven descriptors open, as `init.c` does.

**Umalloc.** Headers, the free pointer and the break, in units of a header; the
program may also call `sbrk` itself, so that the heap has gaps.

## 3. Runs

| Run | Checks | Bounds |
|---|---|---|
| `proc` | no process on two CPUs; no kernel stack freed in use or leaked; no lost wakeup of `wait`; no orphan; the inductive invariant; the process that the scheduler's loops end with has the smallest priority number of all that are RUNNABLE | 3 slots, 2 CPUs, 2 priorities, pids to 3, all calls but `kill` |
| `proc_live` | with equal priorities everyone gets a turn; what init inherits is reaped | 3 slots, 1 CPU, 1 priority |
| `proc_kill` | whoever is killed, or faults, exits | 2 slots, 2 CPUs, all calls but `nice` |
| `log` | committed means on disk; the reservation suffices; nobody sleeps in `begin_op` without reason; `Log` implements `Transactions` | 2 calls, 2 blocks, 2 contents, 2 crashes |
| `pipe` | freed exactly when unused; sleepers have a reason; `Pipe` implements `Fifo`; freed in the end | 1 reader, 2 writers, 2 bytes of room, reads and writes up to 2, counters modulo 4 |
| `console` | a full ring is a finished line; no reader misses its wakeup; `Console` implements `Tty` | 1 reader, 1 writer, 1 `cps`, ring of 3, indices modulo 6 |
| `bcache` | one buffer per block; `bread` returns the block asked for, locked and valid; requests are sound; sleepers have a reason; `Bcache` implements `BlockStore`; requests are served | 2 processes, 3 blocks, 2 buffers |
| `sysfile` | references to inodes and files are counted; a cached inode is what the disk has; names and link counts agree on what a crash goes back to | 2 processes, 3 inodes and cache entries, 2 descriptors, 1 file, groups of 2 calls, 1 crash |
| `sysfile_deadlock` (violation) | nobody waits for ever for each other's inodes | 2 processes, creating and unlinking one name |
| `vm` | a page has one owner; what is below `sz` is mapped and nothing else; nobody changes another's memory and a call that fails has changed nothing, but for one (`Vm` implements `Spaces`) | 3 processes, 17 pages of 2 units, 4 user pages in 2 page tables, 4 calls that ask for memory |
| `inode` | a block has one owner, also after a crash; a piece fits into `MAXOPBLOCKS`; `readi` returns what is there; `Inode` implements `FileStore` | 2 processes, 2 files, blocks of 2 bytes, 1 direct and 2 indirect blocks, 5 blocks, 2 writes of 1 or 3 bytes, 1 crash |
| `user` | the parser agrees with the grammar; only what `&` started is left to init; the heap is disjoint and coalesced; the shell prompts again | all lines of up to 4 tokens with one pipe at most, 4 longer ones and a second line, 5 processes; a heap of 12 units, 3 request sizes |

Why the bounds are enough to be interesting: three slots are init, a parent and a
child, the smallest table in which `exit` hands a child to init, and with pids to
3 slots are reused after failures; two CPUs race for the table. (That `exit`
wakes init for an inherited zombie matters only from four slots on, when the
process that exits is not init's own child; there `NoLostWait` rests on the
proof.) Two crashes are one in a commit and one in the recovery. The pipe's
writers find it partly full and sleep in the middle of a write, once or several
times; every ring is filled and its counters wrap around. Three blocks do not
fit into two buffers, so `bget` recycles. In `sysfile` one process makes, links
into and removes a directory that is the other's current one, and inode numbers are
reused while old entries are still held. Seventeen pages hold three processes only while
nobody grows, so that `fork`, `exec` and `sbrk` run out of memory at each of their
allocations. In `inode` writes of one and three bytes cross block boundaries and
the step to the indirect block, blocks are freed and reused and run out, and
`BPB = 1` gives every block a bitmap block of its own, the worst case of
`WriteFits`. In `user` the long lines nest a background pipeline in a pipe, and
use up the processes, so that `fork1` fails; `pipe` and `open` fail at will.

Deadlock is checked in `proc`, `proc_live`, `proc_kill`, `log` and `pipe`. In the
others the system really may stop: `console` contains the two-lock deadlock
described below and `bcache` the panic of `bget`; `sysfile` contains the deadlock
that `sysfile_deadlock` shows; `vm`, `inode` and `user` stop when their bounds
(`MaxCalls`, `MaxWrites`, the typed lines) are used up or at a panic. The safety
properties hold up to that point and after it, but for `RefsCounted`, `BlocksOwned`
and `ReadsBack`, which speak of a system that has not panicked (out of inodes or
of blocks, which both instances reach).

### What the violation shows

`create()` ends with `iunlockput(dp)` while it holds the new inode. That releases
the directory, and `iput` then acquires its lock once more (`fs.c:334`). If
another process has started `unlink` of the new name in between, it holds the
directory and waits for the inode (`sysfile.c:208`), and neither can go on.
`usertests.c:855` has a test that is there "to look for deadlocks".

### Observations without a run

These follow from the models as they stand, and from the lines named; no property
of a run states the opposite.

- `proc.c:378`: the inner loop of `scheduler()` finds the lowest slot of the best
  priority and `p = highP` moves the outer loop back to it. While a process of a
  worse priority is RUNNABLE in a slot between two of the best one, the first of
  these is chosen each time and the second never. `RoundRobin` therefore supposes
  that those that are RUNNABLE come to have one priority (`EqualPriorities`), and
  `proc_live` has one priority only: with two, init can starve, and then
  `OrphansReaped` does not hold.
- `proc.c:523`: `kill` compares pids only. A free slot has pid 0 or, after a failed
  `fork`, a pid that is out of use; `killed` stays set and the next process in the
  slot dies.
- `log.c:218`: `begin_op` counts `LOGSIZE` data blocks, `log_write` allows
  `log.size - 1`, and `mkfs` sets `log.size = LOGSIZE`, so that calls within
  `MAXOPBLOCKS` can panic. The test is outside `log.lock`, so two calls can both
  pass it. (`log` takes both numbers as they are, 4 and 4, with two blocks in
  use, which stays below the panic.)
- `proc.c:601`: `cps` prints while it holds `ptable.lock`; `consoleintr` and
  `consoleread` need `ptable.lock` while they hold `cons.lock`.
- `pipe.c:88`: a writer killed in a full pipe returns without waking the reader
  (`Pipe!ReaderWaits` names the exception).
- `fs.c:336`: two `iput`s of one inode that overlap can both see two references;
  an unlinked inode then stays allocated. A crash while an unlinked file is open
  does the same.
- `fs.c:560`: `link(x, ".")` waits for the lock that it holds itself. `fs.c:310`:
  `..` of a directory that was removed under somebody may be free, and `ilock`
  panics.
- `proc.c:189`: `sbrk(-sz)` frees all pages, returns -1 and leaves `sz`
  (`Spaces!GiveBack` names the exception). `exec.c:52` takes a 0 from `allocuvm`
  for a failure in the same way, when the first segment of a program is empty and at 0.
- `sh.c`: when `fork1` fails in `main`, the shell exits. Of two redirections of one
  descriptor the first one is opened last and wins.

## 4. Fairness

- `Proc!TurnFairness`: each CPU goes on with what it is doing (weak fairness of
  its scheduler, of returning from `sched()`, of the timer's `yield`).
- `Proc!Fairness` adds: the timer ticks whenever interrupts keep being on; a
  process in the kernel that gets turn after turn makes progress (strong, because
  it may be preempted in between); `sys_sleep` waits for finitely many ticks;
  init keeps calling `wait`, as the loop of `init.c` does. Nothing obliges another
  process in user space to do anything.
- `Pipe!Fairness`: a process in the kernel goes on, and every process closes its
  end some time, by itself or by exiting.
- `Bcache!LiveSpec`: the drive answers. Nothing is claimed about who gets a
  sleep-lock first: `releasesleep` wakes all, and the code has no queue.
- `Sh!Fairness`: weak fairness of `main` and of every process of the shell, which
  `RoundRobin` justifies as long as nobody calls `nice` (`fork` and `exec`
  both set priority 0); a program is obliged to end only at the end of its
  input, and a user need not type.

## 5. Proofs

`ProcProofs` proves, for any number of slots, CPUs, priorities and pids (from
`ProcAssumption` only: `NPROC` and `MaxPid` are positive, `NoCpu` is no CPU,
priorities are integers):

| Theorem | States |
|---|---|
| `Invariance` | `Spec => []IInv` |
| `TypeCorrect` | `Spec => []TypeOK` |
| `MutualExclusion` | `Spec => []OneCpuEach` |
| `StacksOwned` | `Spec => []StackOwned` |
| `NoWaitLost` | `Spec => []NoLostWait` |
| `NoOrphans` | `Spec => []NoOrphan` |
| `UniquePids` | `Spec => []PidsUnique` |
| `PriorityRespected` | `Spec => PriorityOrder` |

None of the properties is inductive alone. `OneCpuEach` needs to know who holds
`ptable.lock` during a switch (`LockHandover`) and that what is off the CPU
returns from `sched()` (`OffCpu`). `StackOwned` needs that a half-made child
belongs to one `fork` only (`ForkOwns`), since its failure paths touch the slot
without the lock. `NoOrphan` and `NoLostWait` need that a parent is another,
live process and that init has none (`ParentAlive`): otherwise `exit` could wake
the wrong process. `PidsUnique` needs that `nextpid` is ahead of all pids
(`PidsFresh`). `TableInv` is their conjunction. `IInv` adds `Scanned`, which is the
loop invariant of the inner loop of `scheduler()`: it has `ptable.lock`, `highP` is
RUNNABLE, and no RUNNABLE process in a slot below `p1` has a smaller priority
number. There is one lemma per action
(`Step_...`); two frame lemmas serve the actions that leave most of the table
alone (`WaitFrame` for the parts about `wait`, `QuietStep` for steps that only
move a program counter). `Scanned` has lemmas of its own: the loop establishes and
keeps it (`Scanned_scheduler`), and what a process does meanwhile on another CPU
makes nobody RUNNABLE and changes the priority of nobody who is
(`ScanUndisturbed`, `Scanned_process`). `PriorityRespected` follows from it at the
end of the inner loop, since only `sched_swtch` puts a process on a CPU
(`OnlySwtch`).

`BcacheProofs` proves, for any number of buffers, any finite set
of processes and any blocks and contents (from `BcacheAssumption` only):

| Theorem | States |
|---|---|
| `BcacheInvariance` | `Spec => []BInv` |
| `OneBufferAlways` | `Spec => []OneBuffer` |
| `BreadGetsItsBlock` | `Spec => []GetsItsBlock` |
| `RequestsAlwaysSound` | `Spec => []RequestsSound` |
| `SleepersAlwaysWait` | `Spec => []SleepersWait` |
| `CacheIsCoherent` | `Spec => Coherent`, the refinement of `BlockStore` |

`OneBuffer` is not inductive alone, and neither is any other: a buffer may only
be recycled because `refcnt` counts exactly the processes that have it from
`bget` (`Counted`, which needs the cardinality of a set of processes); what
`bread` returns is right because a counted buffer keeps its block and the owner of
a sleep-lock is the one process past `acquiresleep` (`Locked`); `iderw` never
panics because whoever calls it has something to do (`Pending`), and a buffer is in
the queue once because its owner waits for it there (`Queued`). `BInv` is their
conjunction with `Stored`: a buffer that is valid and not dirty agrees with the
disk, and the drive was given what the first buffer of the queue holds. `Stored` is
what the refinement needs: recycling, reading and writing back leave every block's
value as it was. `BcacheLocks` has facts on the list and on cardinalities, and one
lemma for each action on a buffer that `bget` returned and for the driver's;
`BcacheProofs` has `bget`, `brelse` and the theorems.

`LogProofs` proves, for any finite sets of processes and blocks,
any contents, any size of the log and any number of crashes (from `LogAssumption`
only: one system call's `MAXOPBLOCKS` fit into the log, and the values that stand
for "no block" and "not cached" are none):

| Theorem | States |
|---|---|
| `LogInvariance` | `Spec => []LInv` |
| `ReservedAlways` | `Spec => []Reserved` |
| `BeginOpWoken` | `Spec => []NoLostWakeup` |
| `DurableAlways` | `Spec => []Durable` |
| `LogIsAtomic` | `Spec => Atomic`, the refinement of `Transactions` |

`Durable` says nothing about the middle of a commit, so it is far from inductive.
`Headers` says when the header on the disk counts: it is empty but for the window
from the commit point to the end of `install_trans`, where it is the one in
memory. `Copies` says how far the log and the home blocks have been written in
each phase, and `Buffers` that exactly the blocks still to be installed are
B_DIRTY, so that `bget` cannot lose them, while every other buffer agrees with
the disk. `Control` keeps system calls out of a commit, and `Writing` says that
what an active call wrote is in the header. `Reserved` is an argument about the
cardinality of the set of tickets (a process and the number of a block that it
may still log): `begin_op` adds `MAXOPBLOCKS` of them, `log_write` uses one up or
absorbs (`TicketUsed`, `TicketKept`). It needs no assumption on `log.size`: the
panic of `log_write` is an outcome of the model. For the refinement, the disk of
`Transactions` is what recovery would find (`Recovered`). Only `write_head`
changes it, which is the commit; every other disk write, and a crash between any
two of them, leaves each block as it was (`RecoveredBlock`). `LogSteps` has the
counting, the steps of system calls and of the cache and `commit` up to the write
of the header; `LogProofs` has the rest of `commit`, recovery, the crash and the
refinement.

`PipeProofs` proves, for any sets of readers and writers, any bytes and any ring
whose size divides the range of the counters (from `PipeAssumption` only; 512
divides 2^32, and `pipealloc` returns with both ends open, so neither set is empty):

| Theorem | States |
|---|---|
| `PipeInvariance` | `Spec => []PInv` |
| `PipeFreedOnce` | `Spec => []NoUseAfterFree` |
| `PipeSleepersWait` | `Spec => []SleepersWait` |
| `PipeIsFifo` | `Spec => FifoQueue`, the refinement of `Fifo` |

`SleepersWait` has to hold already between the test of `killed` and `sleep`
(`Waiting`), which it does because only one process is there at a time
(`OneHolder`). `NoUseAfterFree` follows once the open flags are tied to the
processes that have the ends (`Ends`). `Bounded`, that the counters are never
further apart than the ring is long, is what makes cells distinct. The refinement
then rests on arithmetic: `nread` and `nwrite` wrap at `UINT` and index modulo
`PIPESIZE`, and a turn of the counter is a whole number of turns of the ring
(`SameCell`), so that what is written to or taken from the ring is appended to or
taken from the queue (`WriteAppends`, `ReadTakes`). Without
`UINT % PIPESIZE = 0` it is false.

`ConsoleProofs` proves, for any readers, writers and callers of `cps`, and any
buffer whose size divides the range of the indices (from `ConsoleAssumption` only;
the keyboard's handler is none of the processes):

| Theorem | States |
|---|---|
| `ConsoleInvariance` | `Spec => []CInv` |
| `ConsoleNeverStuck` | `Spec => []FullIsFinished` |
| `ConsoleReaderWoken` | `Spec => []ReaderWaits` |
| `ConsoleIsTty` | `Spec => Lines`, the refinement of `Tty` |

`ReaderWaits` needs that who is about to sleep has seen an empty buffer under
`cons.lock` (`GoesToSleep`, `ConsHeld`). `FullIsFinished` needs that the three
indices are in order and at most a buffer apart although they wrap around
(`Ordered`): each editing key moves `e` back no further than `w`. `Editing`, that
the line in progress has no newline, is what makes the loop of `^U`, which stops
at one, erase all of the line.

### Model-checked only

- Liveness: `RoundRobin`, `OrphansReaped`, `KilledExits`, `Freed`, `Served` and
  `Prompt`. Fairness and ENABLED are beyond the proof system.
- What recursive definitions compute: `ParsesGrammar`, `Attended` and `HeapIntact`
  of `Sh` and `Umalloc`. They would need induction over data, and the provers do
  not work in a module with a RECURSIVE operator.
- The invariants and refinements of `Sysfile`, `Inode` and `Vm`
  (`RefsCounted`, `WriteThrough`, `NamesLinked`, `BlocksOwned`, `WriteFits`,
  `ReadsBack`, `FilesAreBytes`, `PagesOwned`, `Mapped`, `PrivateMemory`): no
  inductive invariant has been worked out for them. `RefsCounted` sums references
  over several structures, and `readi` and `writei` are folds.

## 6. Not modelled, and why

Limits of the modules: `nextpid` is bounded instead of wrapping around; drive
errors, `panic` freezing other CPUs, and processes that hold several buffers at
once are left out. The modules are checked separately, each with what another
promises: `Sysfile` and `Inode` use the log as `Transactions` has it and the cache
as `BlockStore` has it. `Bcache` leaves out the panics of `bwrite` and `brelse` for a
caller that does not hold the buffer (`bio.c:112`, `bio.c:123`), which
`GetsItsBlock` excludes, and `Inode` the test `off + n < off` of `readi` and `writei`
(`fs.c:464`, `fs.c:493`): its offsets stay far below the width of an integer.
`Sysfile` leaves out what files contain and `Inode` leaves
out names; that a transaction's buffers fit into `NBUF` (`bio.c:92`) falls between
them and is not shown. `Sh` abstracts characters to tokens and leaves out the
built-in `cd`.

- `proc_nice` (`proc.c:23`): nobody calls it, and its loop never runs (`0 > status` with
  `status` 0).
- Spin locks: a critical section is one step; the nesting of `pushcli` and `popcli`
  would only restate that assumption.
- Devices null, zero, ticks and hello: functions that return at once and keep no state.
- Boot, interrupt controllers, assembly glue (`swtch` is the hand-over in `Proc`), the
  keyboard map and the screen: hardware set-up and tables.
- The other user programs and the library: sequential clients (`Proc` and `Sysfile` let any
  process make any of their calls), tests, and functions on characters, which the models
  abstract.
