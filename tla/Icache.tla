------------------------------- MODULE Icache -------------------------------
(***************************************************************************)
(* The inode and directory layers of fs.c: the inode cache with its        *)
(* reference counts and sleep-locks, the inodes and the directories on     *)
(* disk, as operators on the state s of the file system.  The system calls *)
(* of Sysfile call them in the order of the code.                          *)
(*                                                                         *)
(* A cache entry is named by the inode number it holds: iget() never makes *)
(* a second entry for a number that has one, and it always starts a new    *)
(* entry with valid = 0.  What an inode holds is kept for directories      *)
(* only; the blocks are the subject of Inode.                              *)
(***************************************************************************)
EXTENDS Integers, Sequences, FiniteSets

CONSTANTS
    Procs,
    ninodes,    \* sb.ninodes: inodes 1..ninodes - 1, 0 is no inode
    NINODE,     \* entries of the inode cache
    Names,      \* of directory entries, "." and ".." included
    None        \* nobody holds the lock

ASSUME IcacheAssumption ==
    /\ ninodes \in Nat \ {0, 1}
    /\ NINODE \in Nat \ {0}
    /\ {".", ".."} \subseteq Names
    /\ None \notin Procs

Inums == 1..ninodes - 1
ROOTINO == 1
Types == {"none", "T_DIR", "T_FILE", "T_DEV"}

\* panic(): every CPU stops.
panic(s) == [s EXCEPT !.panicked = TRUE]

\* Find the cache entry of inode i, or start one.
InUse(s) == {i \in Inums : s.icache[i].ref > 0}
iget(s, i) ==
    IF i \in InUse(s) THEN [s EXCEPT !.icache[i].ref = @ + 1]
    ELSE IF Cardinality(InUse(s)) = NINODE THEN panic(s)
    ELSE [s EXCEPT !.icache[i].ref = 1, !.icache[i].valid = FALSE]

idup(s, i) == [s EXCEPT !.icache[i].ref = @ + 1]

\* acquiresleep() returns when the lock is free.
Unlocked(s, i) == s.lock[i] = None

\* ilock(), once the lock is free: read the inode if the entry has no copy.
ilock(s, p, i) ==
    IF s.icache[i].valid THEN [s EXCEPT !.lock[i] = p]
    ELSE IF s.dinode[i].type = "none" THEN panic(s)
    ELSE [s EXCEPT !.lock[i] = p, !.icache[i].valid = TRUE,
                   !.icache[i].type = s.dinode[i].type, !.icache[i].nlink = s.dinode[i].nlink]

iunlock(s, i) == [s EXCEPT !.lock[i] = None]

\* Write the copy back through the log.
iupdate(s, i) ==
    [s EXCEPT !.dinode[i] = [type |-> s.icache[i].type, nlink |-> s.icache[i].nlink]]

\* Change the link count and write it back.
links(s, i, d) == iupdate([s EXCEPT !.icache[i].nlink = @ + d], i)

NoEntries == [n \in Names |-> 0]

\* Discard the contents.
itrunc(s, i) == [s EXCEPT !.ents[i] = NoEntries]

\* iput() up to releasesleep(): free the inode if this is the last reference
\* and no link is left.
LastUse_linked(s, i) == s.icache[i].valid /\ s.icache[i].ref = 1
LastUse(s, i) == s.icache[i].valid /\ s.icache[i].nlink = 0 /\ s.icache[i].ref = 1
invalidate_kept(s, i) == s
invalidate(s, i) == [s EXCEPT !.icache[i].valid = FALSE]
ifree(s, i) ==
    IF LastUse(s, i)
    THEN invalidate(iupdate([itrunc(s, i) EXCEPT !.icache[i].type = "none"], i), i)
    ELSE s

\* iput(), the rest.  Nothing reads the other fields of an unused entry before
\* iget() resets it.
Unused == [ref |-> 0, valid |-> FALSE, type |-> "none", nlink |-> 0]
idrop(s, i) ==
    [s EXCEPT !.icache[i] = IF @.ref = 1 THEN Unused ELSE [@ EXCEPT !.ref = @ - 1]]

\* Claim the first free inode on disk for a file of the given type.
FreeInums(s) == {i \in Inums : s.dinode[i].type = "none"}
FirstFree(s) == CHOOSE i \in FreeInums(s) : \A j \in FreeInums(s) : i <= j
ialloc(s, type) ==
    IF FreeInums(s) = {} THEN panic(s)
    ELSE iget([s EXCEPT !.dinode[FirstFree(s)] = [type |-> type, nlink |-> 0]], FirstFree(s))

\* The inode a directory has under a name, or 0; a new entry; no entry.
dirlookup(s, dp, n) == s.ents[dp][n]
dirlink(s, dp, n, i) == [s EXCEPT !.ents[dp][n] = i]
direrase(s, dp, n) == [s EXCEPT !.ents[dp][n] = 0]

isdirempty(s, dp) == \A n \in Names \ {".", ".."} : s.ents[dp][n] = 0

\* Where a path starts.
namexStart(s, path, cwd) == IF path.abs THEN iget(s, ROOTINO) ELSE idup(s, cwd)
StartOf(path, cwd) == IF path.abs THEN ROOTINO ELSE cwd

\* The image on disk after a crash: what the last group commit wrote.
Image(s) == [dinode |-> s.dinode, ents |-> s.ents]
commit(s) == [s EXCEPT !.committed = Image(s), !.joined = 0]

\* An empty cache over an image: iinit() after a restart.
iinit(image) ==
    [dinode |-> image.dinode, ents |-> image.ents, committed |-> image, joined |-> 0,
     icache |-> [i \in Inums |-> Unused],
     lock |-> [i \in Inums |-> None],
     panicked |-> FALSE]
=============================================================================
