------------------------------ MODULE Sysfile -------------------------------
(***************************************************************************)
(* The system calls of sysfile.c that work on names and on file            *)
(* descriptors, by several processes at once, on top of the inode layer.   *)
(*                                                                         *)
(* A step runs from one acquiresleep() to the next: what it touches is     *)
(* under the locks it holds, but for one access to the reference counts.   *)
(* So iput() takes two steps, its locked part and the decrement, which the *)
(* code does after releasesleep().  The log is used through what Log shows *)
(* of it: the calls that overlap commit together when the last one ends,   *)
(* and a crash goes back to the last commit.                               *)
(***************************************************************************)
EXTENDS Icache

CONSTANTS
    Calls,      \* the calls with a path that each process makes
    Others,     \* which of close, dup, fork and exit they make
    NOFILE, NFILE,
    MaxGroup,   \* calls that fit into the log before it has to commit
    MaxCrashes,
    mkfs        \* the image that the system boots from

VARIABLES
    fs,         \* the file system: disk, inode cache, locks
    l,          \* where each process is in its call, and its local variables
    cwd,        \* its current directory, 0 for a process that does not exist
    ofile,      \* its descriptors: a file, or 0
    ftable,     \* the files: [ref, ip]
    crashes

vars == <<fs, l, cwd, ofile, ftable, crashes>>
fdvars == <<cwd, ofile, ftable>>

Fds == 0..NOFILE - 1
Files == 1..NFILE
Ops == {"link", "unlink", "open", "create", "mkdir", "mknod", "chdir"}

NoCall == [op |-> "none"]
User == [pc |-> "user", call |-> NoCall, path |-> <<>>,
         wp |-> 0, ip |-> 0, dp |-> 0, put |-> 0, ret |-> "user"]

\* Only init is there after a boot, in the root directory.
initproc == CHOOSE p \in Procs : TRUE
Idle == [p \in Procs |-> User]
BootCwd == [p \in Procs |-> IF p = initproc THEN ROOTINO ELSE 0]
NoFiles == [p \in Procs |-> [fd \in Fds |-> 0]]
Closed == [ref |-> 0, ip |-> 0]

Init ==
    /\ fs = iget(iinit(mkfs), ROOTINO)
    /\ l = Idle
    /\ cwd = BootCwd
    /\ ofile = NoFiles
    /\ ftable = [f \in Files |-> Closed]
    /\ crashes = 0

\* After a panic() nothing runs.
At(p, pc) == l[p].pc = pc /\ ~fs.panicked
Step(p, s, me) == fs' = s /\ l' = [l EXCEPT ![p] = me] /\ UNCHANGED <<fdvars, crashes>>

\* iput(i), then go on at ret.
Put(me, i, ret) == [me EXCEPT !.pc = "iput", !.put = i, !.ret = ret]

\* nameiparent() instead of namei(), where the call goes on when namex()
\* finds the inode, and when it does not.
Parent(me) == me.call.op \in {"unlink", "create", "mkdir", "mknod"} \/ me.ip # 0
Found(me) ==
    CASE me.call.op = "link" -> IF me.ip = 0 THEN "link" ELSE "dirlink"
      [] me.call.op \in {"create", "mkdir", "mknod"} -> "create"
      [] OTHER -> me.call.op
NotFound(me) == IF me.ip # 0 THEN "bad" ELSE "end"

\* begin_op(): wait while the log may be too full for one more call.
Admitted == fs.joined < MaxGroup
begin_op(s) == [s EXCEPT !.joined = @ + 1]

\* A call with a path: begin_op() and the start of namex().
syscall(p, c) ==
    /\ At(p, "user") /\ cwd[p] # 0 /\ Admitted
    /\ Step(p, namexStart(begin_op(fs), c.path, cwd[p]),
            [User EXCEPT !.pc = "namex", !.call = c, !.path = c.path.elems,
                         !.wp = StartOf(c.path, cwd[p])])

\* namex() when no element of the path is left.
namex_done(me, i) ==
    IF Parent(me) THEN Put(me, i, NotFound(me))
    ELSE [me EXCEPT !.ip = i, !.pc = Found(me)]
namex_end(p) ==
    /\ At(p, "namex") /\ l[p].path = <<>>
    /\ Step(p, fs, namex_done([l[p] EXCEPT !.wp = 0], l[p].wp))

\* One round of the loop of namex().
namex_elem(p) ==
    /\ At(p, "namex") /\ l[p].path # <<>>
    /\ Unlocked(fs, l[p].wp)
    /\ LET i  == l[p].wp
           me == [l[p] EXCEPT !.wp = 0]
           s  == ilock(fs, p, i)
           u  == iunlock(s, i)
           n  == dirlookup(s, i, Head(me.path))
       IN  IF s.panicked THEN Step(p, s, me)
           ELSE IF s.icache[i].type # "T_DIR" THEN Step(p, u, Put(me, i, NotFound(me)))
           ELSE IF Parent(me) /\ Len(me.path) = 1
                THEN Step(p, u, [me EXCEPT !.dp = i, !.pc = Found(me)])
           ELSE IF n = 0 THEN Step(p, u, Put(me, i, NotFound(me)))
           ELSE IF Len(me.path) = 1
                THEN Step(p, iget(u, n), Put([me EXCEPT !.ip = n, !.path = <<>>], i, Found(me)))
           ELSE Step(p, iget(u, n), Put([me EXCEPT !.wp = n, !.path = Tail(@)], i, "namex"))

\* end_op(): the last call of the group commits it.
InOp(p) == l[p].pc \notin {"user", "exit", "closing"}
EndGroup(p, s) == IF \E q \in Procs \ {p} : InOp(q) THEN s ELSE commit(s)
end_op(p, s) ==
    Step(p, EndGroup(p, s),
         IF l[p].call.op = "exit" /\ cwd[p] # 0
         THEN [User EXCEPT !.pc = "exit", !.call = l[p].call] ELSE User)

\* iput(): what it does under the inode's lock, and the decrement.
iput(p) ==
    /\ At(p, "iput")
    /\ Unlocked(fs, l[p].put)
    /\ Step(p, ifree(fs, l[p].put), [l[p] EXCEPT !.pc = "idrop"])
iput_drop(p) ==
    /\ At(p, "idrop")
    /\ LET s == idrop(fs, l[p].put)
       IN  IF l[p].ret = "end" THEN end_op(p, s)
           ELSE Step(p, s, [l[p] EXCEPT !.pc = l[p].ret, !.put = 0])

\* sys_link(): count the link first, then look up the new name.
sys_link(p) ==
    /\ At(p, "link") /\ Unlocked(fs, l[p].ip)
    /\ LET me  == l[p]
           s   == ilock(fs, p, me.ip)
           new == me.call.new
       IN  IF s.panicked THEN Step(p, s, me)
           ELSE IF s.icache[me.ip].type = "T_DIR"
                THEN Step(p, iunlock(s, me.ip), Put([me EXCEPT !.ip = 0], me.ip, "end"))
           ELSE Step(p, namexStart(iunlock(links(s, me.ip, 1), me.ip), new, cwd[p]),
                     [me EXCEPT !.pc = "namex", !.path = new.elems, !.wp = StartOf(new, cwd[p])])

\* The entry in the new directory.  If the name is taken, dirlink() drops what
\* it found with the directory still locked.
link_found(s, e) == iget(s, e)
link_dirlink(p) ==
    /\ At(p, "dirlink") /\ Unlocked(fs, l[p].dp)
    /\ LET me == l[p]
           s  == ilock(fs, p, me.dp)
           n  == Head(me.path)
           e  == dirlookup(s, me.dp, n)
       IN  IF s.panicked THEN Step(p, s, me)
           ELSE IF e # 0 THEN Step(p, link_found(s, e), Put(me, e, "taken"))
           ELSE Step(p, iunlock(dirlink(s, me.dp, n, me.ip), me.dp),
                     Put([me EXCEPT !.dp = 0], me.dp, "linked"))
link_taken(p) ==
    /\ At(p, "taken")
    /\ Step(p, iunlock(fs, l[p].dp), Put([l[p] EXCEPT !.dp = 0], l[p].dp, "bad"))
link_done(p) ==
    /\ At(p, "linked")
    /\ Step(p, fs, Put([l[p] EXCEPT !.ip = 0], l[p].ip, "end"))
link_bad(p) ==
    /\ At(p, "bad") /\ Unlocked(fs, l[p].ip)
    /\ LET s == ilock(fs, p, l[p].ip)
       IN  Step(p, iunlock(links(s, l[p].ip, -1), l[p].ip),
                Put([l[p] EXCEPT !.ip = 0], l[p].ip, "end"))

\* sys_unlink(): lock the parent and find the inode ...
sys_unlink(p) ==
    /\ At(p, "unlink") /\ Unlocked(fs, l[p].dp)
    /\ LET me == l[p]
           s  == ilock(fs, p, me.dp)
           n  == Head(me.path)
           e  == dirlookup(s, me.dp, n)
       IN  IF s.panicked THEN Step(p, s, me)
           ELSE IF n \in {".", ".."} \/ e = 0
                THEN Step(p, iunlock(s, me.dp), Put([me EXCEPT !.dp = 0], me.dp, "end"))
           ELSE Step(p, iget(s, e), [me EXCEPT !.ip = e, !.pc = "unlink_ip"])

\* ... lock it too, and erase the entry.
unlink_ip(p) ==
    /\ At(p, "unlink_ip") /\ Unlocked(fs, l[p].ip)
    /\ LET me == l[p]
           s  == ilock(fs, p, me.ip)
           c  == s.icache[me.ip]
           t  == direrase(s, me.dp, Head(me.path))
       IN  IF s.panicked \/ c.nlink < 1 THEN Step(p, panic(s), me)
           ELSE IF c.type = "T_DIR" /\ ~isdirempty(s, me.ip)
                THEN Step(p, iunlock(s, me.ip), Put([me EXCEPT !.ip = 0], me.ip, "unlink_bad"))
           ELSE Step(p, iunlock(IF c.type = "T_DIR" THEN links(t, me.dp, -1) ELSE t, me.dp),
                     Put([me EXCEPT !.dp = 0], me.dp, "unlinked"))
unlink_bad(p) ==
    /\ At(p, "unlink_bad")
    /\ Step(p, iunlock(fs, l[p].dp), Put([l[p] EXCEPT !.dp = 0], l[p].dp, "end"))

\* iunlockput(dp) has returned; the inode is still locked.
unlink_done(p) ==
    /\ At(p, "unlinked")
    /\ Step(p, iunlock(links(fs, l[p].ip, -1), l[p].ip),
            Put([l[p] EXCEPT !.ip = 0], l[p].ip, "end"))

\* create(): the name exists, or a new inode is linked under it.  A directory
\* gets its "." and ".." before anybody can find it.  Nobody holds the lock of
\* a free inode: ilock() panics on one.
TypeFor(me) == CASE me.call.op = "mkdir" -> "T_DIR" [] me.call.op = "mknod" -> "T_DEV" [] OTHER -> "T_FILE"
dots(s, i, dp) == dirlink(dirlink(links(s, dp, 1), i, ".", i), i, "..", dp)
create(p) ==
    /\ At(p, "create") /\ Unlocked(fs, l[p].dp)
    /\ LET me == l[p]
           s  == ilock(fs, p, me.dp)
           n  == Head(me.path)
           e  == dirlookup(s, me.dp, n)
           i  == FirstFree(s)
           t  == links(ilock(ialloc(s, TypeFor(me)), p, i), i, 1)
           u  == IF TypeFor(me) = "T_DIR" THEN dots(t, i, me.dp) ELSE t
       IN  IF s.panicked THEN Step(p, s, me)
           ELSE IF e # 0
                THEN Step(p, iunlock(iget(s, e), me.dp), Put([me EXCEPT !.ip = e, !.dp = 0], me.dp, "exists"))
           ELSE IF FreeInums(s) = {} THEN Step(p, panic(s), me)
           ELSE Step(p, iunlock(dirlink(u, me.dp, n, i), me.dp),
                     Put([me EXCEPT !.ip = i, !.dp = 0], me.dp, "created"))
create_exists(p) ==
    /\ At(p, "exists") /\ Unlocked(fs, l[p].ip)
    /\ LET me == l[p]
           s  == ilock(fs, p, me.ip)
       IN  IF s.panicked THEN Step(p, s, me)
           ELSE IF me.call.op = "create" /\ s.icache[me.ip].type = "T_FILE"
                THEN Step(p, s, [me EXCEPT !.pc = "created"])
           ELSE Step(p, iunlock(s, me.ip), Put([me EXCEPT !.ip = 0], me.ip, "end"))

\* sys_mkdir() and sys_mknod() drop the new inode.
create_put(p) ==
    /\ At(p, "created") /\ l[p].call.op # "create"
    /\ Step(p, iunlock(fs, l[p].ip), Put([l[p] EXCEPT !.ip = 0], l[p].ip, "end"))

\* filealloc() and fdalloc(): the first free file and descriptor.
FreeFiles == {f \in Files : ftable[f].ref = 0}
FreeFds(p) == {fd \in Fds : ofile[p][fd] = 0}
First(S) == CHOOSE x \in S : \A y \in S : x <= y

\* The end of sys_open(), with the inode locked.
opened(p, s) ==
    LET me == l[p]
        f  == First(FreeFiles)
        u  == iunlock(s, me.ip)
    IN  IF FreeFiles = {} \/ FreeFds(p) = {}
        THEN Step(p, u, Put([me EXCEPT !.ip = 0], me.ip, "end"))
        ELSE /\ fs' = EndGroup(p, u)
             /\ l' = [l EXCEPT ![p] = User]
             /\ ftable' = [ftable EXCEPT ![f] = [ref |-> 1, ip |-> me.ip]]
             /\ ofile' = [ofile EXCEPT ![p][First(FreeFds(p))] = f]
             /\ UNCHANGED <<cwd, crashes>>
open_created(p) ==
    /\ At(p, "created") /\ l[p].call.op = "create"
    /\ opened(p, fs)
sys_open(p) ==
    /\ At(p, "open") /\ Unlocked(fs, l[p].ip)
    /\ LET me == l[p]
           s  == ilock(fs, p, me.ip)
       IN  IF s.panicked THEN Step(p, s, me)
           ELSE IF s.icache[me.ip].type = "T_DIR" /\ ~me.call.rdonly
                THEN Step(p, iunlock(s, me.ip), Put([me EXCEPT !.ip = 0], me.ip, "end"))
           ELSE opened(p, s)

\* sys_chdir().  Nobody but p looks at cwd[p], so it can take its new value
\* before the old directory is dropped.
sys_chdir(p) ==
    /\ At(p, "chdir") /\ Unlocked(fs, l[p].ip)
    /\ LET me == [l[p] EXCEPT !.ip = 0]
           i  == l[p].ip
           s  == ilock(fs, p, i)
       IN  IF s.panicked THEN Step(p, s, me)
           ELSE IF s.icache[i].type # "T_DIR" THEN Step(p, iunlock(s, i), Put(me, i, "end"))
           ELSE /\ fs' = iunlock(s, i)
                /\ l' = [l EXCEPT ![p] = Put(me, cwd[p], "end")]
                /\ cwd' = [cwd EXCEPT ![p] = i]
                /\ UNCHANGED <<ofile, ftable, crashes>>

\* fileclose(): the last reference frees the file, then gives up the inode in a
\* transaction, for which it may have to wait.
lastclose_early(f) == TRUE
lastclose(f) == ftable[f].ref = 1
fileclose(p, fd) ==
    LET f == ofile[p][fd]
    IN  /\ f # 0
        /\ ofile' = [ofile EXCEPT ![p][fd] = 0]
        /\ IF lastclose(f)
           THEN /\ ftable' = [ftable EXCEPT ![f] = Closed]
                /\ l' = [l EXCEPT ![p] = [Put(@, ftable[f].ip, "end") EXCEPT !.pc = "closing"]]
           ELSE /\ ftable' = [ftable EXCEPT ![f].ref = @ - 1]
                /\ UNCHANGED l
        /\ UNCHANGED <<fs, cwd, crashes>>
fileclose_iput(p) ==
    /\ At(p, "closing") /\ Admitted
    /\ Step(p, begin_op(fs), [l[p] EXCEPT !.pc = "iput"])
sys_close(p) == "close" \in Others /\ At(p, "user") /\ \E fd \in Fds : fileclose(p, fd)

sys_dup(p) ==
    /\ "dup" \in Others /\ At(p, "user") /\ FreeFds(p) # {}
    /\ \E fd \in Fds :
        /\ ofile[p][fd] # 0
        /\ ofile' = [ofile EXCEPT ![p][First(FreeFds(p))] = ofile[p][fd]]
        /\ ftable' = [ftable EXCEPT ![ofile[p][fd]].ref = @ + 1]
    /\ UNCHANGED <<fs, l, cwd, crashes>>

\* fork(): the child q has the files and the directory of p.
fork(p, q) ==
    /\ "fork" \in Others /\ At(p, "user") /\ cwd[p] # 0 /\ At(q, "user") /\ cwd[q] = 0
    /\ fs' = idup(fs, cwd[p])
    /\ cwd' = [cwd EXCEPT ![q] = cwd[p]]
    /\ ofile' = [ofile EXCEPT ![q] = ofile[p]]
    /\ ftable' = [f \in Files |-> [ftable[f] EXCEPT !.ref = @ + Cardinality({fd \in Fds : ofile[p][fd] = f})]]
    /\ UNCHANGED <<l, crashes>>

\* exit(): close every file, then give up the directory.
exit(p) ==
    /\ "exit" \in Others /\ At(p, "user") /\ cwd[p] # 0 /\ p # initproc
    /\ Step(p, fs, [User EXCEPT !.pc = "exit", !.call = [op |-> "exit"]])
exit_close(p) ==
    /\ At(p, "exit")
    /\ \E fd \in Fds : fileclose(p, fd) /\ \A g \in 0..fd - 1 : ofile[p][g] = 0
exit_cwd(p) ==
    /\ At(p, "exit") /\ Admitted /\ \A fd \in Fds : ofile[p][fd] = 0
    /\ fs' = begin_op(fs)
    /\ l' = [l EXCEPT ![p] = Put(l[p], cwd[p], "end")]
    /\ cwd' = [cwd EXCEPT ![p] = 0]
    /\ UNCHANGED <<ofile, ftable, crashes>>

\* Power fails, and the system boots from what was committed.
crash ==
    /\ crashes < MaxCrashes
    /\ crashes' = crashes + 1
    /\ fs' = iget(iinit(fs.committed), ROOTINO)
    /\ l' = Idle
    /\ cwd' = BootCwd
    /\ ofile' = NoFiles
    /\ ftable' = [f \in Files |-> Closed]

call(p) ==
    \/ namex_end(p) \/ namex_elem(p) \/ iput(p) \/ iput_drop(p)
    \/ sys_link(p) \/ link_dirlink(p) \/ link_taken(p) \/ link_done(p) \/ link_bad(p)
    \/ sys_unlink(p) \/ unlink_ip(p) \/ unlink_bad(p) \/ unlink_done(p)
    \/ create(p) \/ create_exists(p) \/ create_put(p) \/ open_created(p) \/ sys_open(p)
    \/ sys_chdir(p) \/ fileclose_iput(p) \/ exit_close(p) \/ exit_cwd(p)

Next ==
    \/ \E p \in Procs :
        \/ \E c \in Calls[p] : syscall(p, c)
        \/ call(p)
        \/ sys_close(p) \/ sys_dup(p) \/ exit(p)
        \/ \E q \in Procs : fork(p, q)
    \/ crash

Spec == Init /\ [][Next]_vars

-----------------------------------------------------------------------------

\* The inode whose lock p's next step takes, or 0.
Wants(p) ==
    LET me == l[p]
    IN  CASE me.pc = "namex" /\ me.path # <<>> -> me.wp
          [] me.pc = "iput" -> me.put
          [] me.pc \in {"dirlink", "unlink", "create"} -> me.dp
          [] me.pc \in {"link", "bad", "unlink_ip", "exists", "open", "chdir"} -> me.ip
          [] OTHER -> 0

\* No processes wait for each other's inodes for ever: what the concurrent
\* link/unlink/create test of usertests.c looks for.
NoDeadlock ==
    \A S \in SUBSET Procs \ {{}} :
        \E p \in S : Wants(p) = 0 \/ fs.lock[Wants(p)] \notin S

\* Pointers to an inode: current directories, files, and the variables of the
\* calls in progress.
Pointers(i) ==
    Cardinality({p \in Procs : cwd[p] = i}) + Cardinality({f \in Files : ftable[f].ip = i})
    + Cardinality({<<p, v>> \in Procs \X {"wp", "ip", "dp", "put"} : l[p][v] = i})

\* "ip->ref tracks the number of in-memory pointers to the entry" (fs.c), and a
\* file's ref the number of descriptors that share it: on every path through
\* every call, the failing ones included, so that an entry is neither recycled
\* under somebody nor lost to the cache.
RefsCounted ==
    ~fs.panicked =>
        /\ \A i \in Inums : fs.icache[i].ref = Pointers(i)
        /\ \A f \in Files : ftable[f].ref = Cardinality({<<p, fd>> \in Procs \X Fds : ofile[p][fd] = f})

\* "i-node cache is write-through": whoever locks an inode next finds a copy
\* that says what the disk says, also when the number was freed and used again
\* while somebody still held the old entry.
WriteThrough ==
    \A i \in Inums :
        fs.icache[i].ref > 0 /\ fs.icache[i].valid =>
            /\ fs.icache[i].type = fs.dinode[i].type
            /\ fs.icache[i].nlink = fs.dinode[i].nlink
            /\ fs.icache[i].type # "none"

\* The directories of an image that a path from the root leads to.
Subdirs(m, D) == D \cup {i \in Inums : m.dinode[i].type = "T_DIR" /\ \E d \in D, n \in Names \ {"..", "."} : m.ents[d][n] = i}
Tree(m) == LET T[k \in 0..ninodes] == IF k = 0 THEN {ROOTINO} ELSE Subdirs(m, T[k - 1]) IN T[ninodes]

\* Every name for inode i in an image, the ".." of the directories in it too.
NamesFor(m, i) ==
    {<<d, n>> \in Inums \X Names :
        /\ m.dinode[d].type = "T_DIR" /\ m.ents[d][n] = i
        /\ n # "." /\ (n = ".." => d \in Tree(m) \ {ROOTINO})}

\* In what a crash goes back to, no name leads to a free inode, and an inode
\* has at least as many links as names: unlinking one name never frees the
\* file under another.
NamesLinked ==
    LET m == fs.committed
    IN  \A i \in Inums : NamesFor(m, i) # {} =>
            /\ m.dinode[i].type # "none"
            /\ m.dinode[i].nlink >= Cardinality(NamesFor(m, i))
=============================================================================
