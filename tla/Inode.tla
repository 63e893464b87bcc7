------------------------------- MODULE Inode --------------------------------
(***************************************************************************)
(* The contents of files: the block bitmap, the direct blocks and the      *)
(* indirect block of fs.c, and fileread() and filewrite() of file.c, by    *)
(* processes that share open files.                                        *)
(*                                                                         *)
(* s is the disk as the log and the buffer cache show it, with the inodes  *)
(* in core.  The inode lock is held from readi() or writei() to the end,   *)
(* so each of them is one step; filewrite() is one step for each piece it  *)
(* cuts its bytes into.                                                    *)
(***************************************************************************)
EXTENDS Integers, Sequences, SequencesExt, FiniteSetsExt

CONSTANTS
    Procs,
    Inums,
    Files, ip,          \* the open files, and the inode of each
    BSIZE, NDIRECT, NINDIRECT,
    BPB,                \* blocks that one block of the bitmap covers
    nblocks,            \* data blocks 1..nblocks, 0 is no block
    MAXOPBLOCKS,
    Sizes,              \* how many bytes the processes write
    MaxWrites, MaxCrashes

ASSUME InodeAssumption ==
    /\ {BSIZE, NDIRECT, NINDIRECT, BPB, nblocks} \subseteq Nat \ {0}
    /\ MAXOPBLOCKS >= 6
    /\ ip \in [Files -> Inums]
    /\ BSIZE = NINDIRECT    \* a block holds BSIZE bytes, or as many addresses

VARIABLES
    s,          \* [used, block, dinode, inode, log, panicked]
    committed,  \* [used, block, dinode] of the last group commit
    off,        \* f->off of each open file
    todo,       \* what is left of each process's write: [f, n]
    writes, crashes

vars == <<s, committed, off, todo, writes, crashes>>

Blocks == 1..nblocks
MAXFILE == NDIRECT + NINDIRECT
Zeros == [x \in 0..BSIZE - 1 |-> 0]
NoInode == [size |-> 0, addrs |-> [n \in 0..NDIRECT |-> 0]]
Idle == [f |-> CHOOSE f \in Files : TRUE, n |-> 0]

\* An empty file system, and one that is read back from the disk.
mkfs == [used |-> [b \in Blocks |-> FALSE], block |-> [b \in Blocks |-> Zeros],
         dinode |-> [i \in Inums |-> NoInode]]
Boot(d) == [used |-> d.used, block |-> d.block, dinode |-> d.dinode, inode |-> d.dinode,
            log |-> {}, panicked |-> FALSE]
Image(t) == [used |-> t.used, block |-> t.block, dinode |-> t.dinode]

-----------------------------------------------------------------------------
(* The operators on the state t.  t.log is the set of blocks that the call  *)
(* has written to the log.                                                  *)

log_write(t, kind, n) == [t EXCEPT !.log = @ \cup {<<kind, n>>}]
panic(t) == [t EXCEPT !.panicked = TRUE]

\* Operators that return a block b too.
At(t, b) == [s |-> t, b |-> b]

\* balloc(): mark the first free block and zero it.
bzero(t, b) == log_write([t EXCEPT !.block[b] = Zeros], "data", b)
Free(t) == {b \in Blocks : ~t.used[b]}
balloc(t) ==
    LET b == Min(Free(t))
    IN  IF Free(t) = {} THEN At(panic(t), 1)
        ELSE At(bzero(log_write([t EXCEPT !.used[b] = TRUE], "bitmap", b \div BPB), b), b)

bfree(t, b) ==
    IF ~t.used[b] THEN panic(t)
    ELSE log_write([t EXCEPT !.used[b] = FALSE], "bitmap", b \div BPB)

\* iupdate(): the inode as it is in core goes to the disk.
iupdate(t, i) == log_write([t EXCEPT !.dinode[i] = t.inode[i]], "inode", i)

\* bmap(): the block that holds block bn of the file, allocated if need be.
addr(t, i, n) ==
    LET a == balloc(t)
    IN  IF t.inode[i].addrs[n] # 0 THEN At(t, t.inode[i].addrs[n])
        ELSE At([a.s EXCEPT !.inode[i].addrs[n] = a.b], a.b)
bmap(t, i, bn) ==
    LET ind == addr(t, i, NDIRECT)
        x   == bn - NDIRECT
        a   == balloc(ind.s)
    IN  IF bn < NDIRECT THEN addr(t, i, bn)
        ELSE IF ind.s.block[ind.b][x] # 0 THEN At(ind.s, ind.s.block[ind.b][x])
        ELSE At(log_write([a.s EXCEPT !.block[ind.b][x] = a.b], "data", ind.b), a.b)

\* itrunc(): free the direct blocks, what the indirect block lists, and the
\* indirect block.
listed_direct(t, i) == <<>>
listed(t, i) ==
    LET ind == t.inode[i].addrs[NDIRECT]
    IN  IF ind = 0 THEN <<>> ELSE [x \in 1..NINDIRECT |-> t.block[ind][x - 1]]
itrunc(t, i) ==
    LET all == [n \in 1..NDIRECT |-> t.inode[i].addrs[n - 1]] \o listed(t, i)
               \o <<t.inode[i].addrs[NDIRECT]>>
    IN  iupdate([FoldLeft(bfree, t, SelectSeq(all, LAMBDA b : b # 0)) EXCEPT !.inode[i] = NoInode], i)

\* The blocks of a file that bytes o to o + n - 1 are in, and which of the
\* bytes of block bn they are.
Span(o, n) ==
    IF n = 0 THEN <<>>
    ELSE [k \in 1..((o + n - 1) \div BSIZE) - (o \div BSIZE) + 1 |-> (o \div BSIZE) + k - 1]
Part_through(bn, o, n) == {x \in 0..BSIZE - 1 : o <= bn * BSIZE + x /\ bn * BSIZE + x <= o + n}
Part(bn, o, n) == {x \in 0..BSIZE - 1 : o <= bn * BSIZE + x /\ bn * BSIZE + x < o + n}

\* readi(): bytes o to o + n - 1, as far as there are any.  Offsets are too small
\* for o + n to overflow, here and in writei().
readi(t, i, o, n) ==
    LET n1 == IF o + n > t.inode[i].size THEN t.inode[i].size - o ELSE n
        Rd(r, bn) ==
            LET m == bmap(r.s, i, bn)
                P == Part(bn, o, n1)
            IN  [s |-> m.s, data |-> r.data \o [k \in 1..Cardinality(P) |-> m.s.block[m.b][Min(P) + k - 1]]]
    IN  IF o > t.inode[i].size THEN [s |-> t, data |-> <<>>]
        ELSE FoldLeft(Rd, [s |-> t, data |-> <<>>], Span(o, n1))

\* writei(): n times the byte c at o, unless that leaves a hole or is too long.
\* The inode goes to the disk when the file has grown.
writei_ok(t, i, o, n) == o <= t.inode[i].size /\ o + n <= MAXFILE * BSIZE
writei(t, i, o, n, c) ==
    LET Wr(r, bn) ==
            LET m == bmap(r, i, bn)
            IN  log_write([m.s EXCEPT !.block[m.b] = [x \in DOMAIN @ |-> IF x \in Part(bn, o, n) THEN c ELSE @[x]]],
                          "data", m.b)
        w == FoldLeft(Wr, t, Span(o, n))
    IN  IF n > 0 /\ o + n > t.inode[i].size
        THEN iupdate([w EXCEPT !.inode[i].size = o + n], i) ELSE w

-----------------------------------------------------------------------------

Init ==
    /\ s = Boot(mkfs)
    /\ committed = mkfs
    /\ off = [f \in Files |-> 0]
    /\ todo = [p \in Procs |-> Idle]
    /\ writes = 0 /\ crashes = 0

begin_op == [s EXCEPT !.log = {}]
Running == ~s.panicked

\* filewrite(): cut the bytes into pieces that fit into a transaction.
filewrite(p, f, n) ==
    /\ Running /\ todo[p].n = 0 /\ writes < MaxWrites
    /\ todo' = [todo EXCEPT ![p] = [f |-> f, n |-> n]]
    /\ writes' = writes + 1
    /\ UNCHANGED <<s, committed, off, crashes>>
advance_not(o, n) == o
advance(o, n) == o + n
max_slack == ((MAXOPBLOCKS - 1 - 1) \div 2) * BSIZE
max == ((MAXOPBLOCKS - 1 - 1 - 2) \div 2) * BSIZE
filewrite_piece(p) ==
    /\ Running /\ todo[p].n > 0
    /\ LET f  == todo[p].f
           n1 == Min({todo[p].n, max})
       IN  IF ~writei_ok(s, ip[f], off[f], n1)
           THEN todo' = [todo EXCEPT ![p] = Idle] /\ UNCHANGED <<s, off>>
           ELSE IF writei(begin_op, ip[f], off[f], n1, p).panicked
           THEN s' = panic(s) /\ UNCHANGED <<off, todo>>
           ELSE /\ s' = writei(begin_op, ip[f], off[f], n1, p)
                /\ off' = [off EXCEPT ![f] = advance(@, n1)]
                /\ todo' = [todo EXCEPT ![p] = IF @.n = n1 THEN Idle ELSE [@ EXCEPT !.n = @ - n1]]
    /\ UNCHANGED <<committed, writes, crashes>>

fileread(f, n) ==
    /\ Running
    /\ LET r == readi(s, ip[f], off[f], n)
       IN  /\ s' = r.s
           /\ off' = [off EXCEPT ![f] = @ + Len(r.data)]
    /\ UNCHANGED <<committed, todo, writes, crashes>>

\* Close and open again.
reopen(f) ==
    /\ Running /\ \A p \in Procs : todo[p].n > 0 => todo[p].f # f
    /\ off' = [off EXCEPT ![f] = 0]
    /\ UNCHANGED <<s, committed, todo, writes, crashes>>

\* The last reference to an unlinked file goes: iput() frees it, and its inode
\* is used again.
remove(i) ==
    /\ Running /\ \A p \in Procs : todo[p].n > 0 => ip[todo[p].f] # i
    /\ s' = itrunc(begin_op, i)
    /\ off' = [f \in Files |-> IF ip[f] = i THEN 0 ELSE off[f]]
    /\ UNCHANGED <<committed, todo, writes, crashes>>

\* end_op() of the last call of a group, and a crash.
commit ==
    /\ Running
    /\ committed' = Image(s)
    /\ UNCHANGED <<s, off, todo, writes, crashes>>
crash ==
    /\ crashes < MaxCrashes
    /\ s' = Boot(committed)
    /\ off' = [f \in Files |-> 0]
    /\ todo' = [p \in Procs |-> Idle]
    /\ crashes' = crashes + 1
    /\ UNCHANGED <<committed, writes>>

Next ==
    \/ \E p \in Procs :
        \/ \E f \in Files, n \in Sizes : filewrite(p, f, n)
        \/ filewrite_piece(p)
    \/ \E f \in Files : reopen(f) \/ \E n \in Sizes : fileread(f, n)
    \/ \E i \in Inums : remove(i)
    \/ commit
    \/ crash

Spec == Init /\ [][Next]_vars

-----------------------------------------------------------------------------

\* How often an image uses a block.
Uses(d, b) ==
    Cardinality({<<i, n>> \in Inums \X (0..NDIRECT) : d.dinode[i].addrs[n] = b})
    + Cardinality({<<i, x>> \in Inums \X (0..NINDIRECT - 1) :
                    d.dinode[i].addrs[NDIRECT] # 0 /\ d.block[d.dinode[i].addrs[NDIRECT]][x] = b})

\* What the bitmap marks is used by one file, and what it does not by none,
\* now and after a crash: the addresses that writei() allocates are on the disk
\* when it ends, though it only writes the inode if the file has grown, and no
\* read allocates.
BlocksOwned ==
    \A d \in {Image(s), committed} :
        ~s.panicked => \A b \in Blocks : Uses(d, b) = IF d.used[b] THEN 1 ELSE 0

\* No call writes more blocks than begin_op() reserves for it: data, bitmap,
\* indirect block and inode, however its bytes lie across blocks.
WriteFits == Cardinality(s.log) <= MAXOPBLOCKS

\* The bytes of a file, by its addresses.
Block(d, i, bn) ==
    LET a == d.dinode[i].addrs
    IN  IF bn < NDIRECT THEN a[bn] ELSE d.block[a[NDIRECT]][bn - NDIRECT]
Contents(d, i) ==
    [k \in 1..d.dinode[i].size |-> d.block[Block(d, i, (k - 1) \div BSIZE)][(k - 1) % BSIZE]]

\* readi() finds every byte below the size of the file, in order and up to the
\* end of the file, and allocates nothing on its way.
ReadsBack ==
    ~s.panicked => \A i \in Inums, o \in 0..MAXFILE * BSIZE, n \in Sizes :
        readi(s, i, o, n) = [s |-> s, data |-> SubSeq(Contents(s, i), o + 1, Min({o + n, s.inode[i].size}))]

\* Files are sequences of bytes: nobody's bytes are lost or mixed up by two
\* writers who share an offset, no block shows what an earlier file left in it,
\* and a crash goes back to whole pieces.
Store == INSTANCE FileStore WITH
    Bytes <- Procs, MaxSize <- MAXFILE * BSIZE,
    file <- [i \in Inums |-> Contents(s, i)],
    durable <- [i \in Inums |-> Contents(committed, i)]
FilesAreBytes == Store!Spec
=============================================================================
