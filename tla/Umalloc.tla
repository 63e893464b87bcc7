------------------------------ MODULE Umalloc -------------------------------
(***************************************************************************)
(* The allocator of user programs: malloc() and free() of umalloc.c, which *)
(* keep a circular list of free blocks in the order of their addresses,    *)
(* and get more memory from sbrk().  Addresses and sizes are counted in    *)
(* headers, the unit of the allocator; base, in the data segment, is 0,    *)
(* below the heap.                                                         *)
(***************************************************************************)
EXTENDS Integers, Sequences, FiniteSets

CONSTANTS
    MinUnits,       \* the least that morecore() asks for
    HeapMax,        \* sbrk() fails above it
    HeaderSize,     \* bytes in a header
    Requests,       \* how many bytes the program asks for
    MaxOwn          \* how often the program calls sbrk(1) itself

VARIABLES
    heap,       \* [hdr, freep]: the headers [ptr, size], and the free pointer
    brk,        \* the end of the heap
    live,       \* blocks that malloc() has returned
    own         \* units that the program got from sbrk() itself

vars == <<heap, brk, live, own>>

Addrs == 0..HeapMax - 1
NoHdr == [ptr |-> 0, size |-> 0]
base == 0

\* freep is 0 until the first call, which makes a list of base alone; with base
\* at address 0 that is the list there is.
Init ==
    /\ heap = [hdr |-> [a \in Addrs |-> NoHdr], freep |-> base]
    /\ brk = 1 /\ live = {} /\ own = {}

next(h, p) == h.hdr[p].ptr
size(h, p) == h.hdr[p].size

\* The free block after which bp belongs: in between two, or at either end.
after(h, p, bp) ==
    \/ bp > p /\ bp < next(h, p)
    \/ p >= next(h, p) /\ (bp > p \/ bp < next(h, p))
RECURSIVE place(_, _, _)
place(h, p, bp) == IF after(h, p, bp) THEN p ELSE place(h, next(h, p), bp)

\* free(): join bp to the block above it and to the one below it.  The header
\* of a block that was joined to another is not used any more.
joins_up_not(h, bp, p) == FALSE
joins_up(h, bp, p) == bp + size(h, bp) = next(h, p)
joins_down(h, bp, p) == p + size(h, p) = bp
free_at(h, bp, p) ==
    LET n  == next(h, p)
        up == IF joins_up(h, bp, p)
              THEN [h EXCEPT !.hdr[bp] = [ptr |-> next(h, n), size |-> size(h, bp) + size(h, n)]]
              ELSE [h EXCEPT !.hdr[bp].ptr = n]
        cl == IF joins_up(h, bp, p) THEN [up EXCEPT !.hdr[n] = NoHdr] ELSE up
    IN  [IF joins_down(h, bp, p)
         THEN [cl EXCEPT !.hdr[p] = [ptr |-> next(cl, bp), size |-> @.size + size(cl, bp)], !.hdr[bp] = NoHdr]
         ELSE [cl EXCEPT !.hdr[p].ptr = bp]
         EXCEPT !.freep = p]
free(h, bp) == free_at(h, bp, place(h, h.freep, bp))

\* malloc(): the first block that is large enough, from the free pointer on.
\* Its upper end is taken, or all of it.
nunits(nbytes) == ((nbytes + HeaderSize - 1) \div HeaderSize) + 1
fits(h, p, n) == size(h, p) >= n
RECURSIVE search(_, _, _)
search(h, prevp, n) ==
    LET p == next(h, prevp)
    IN  IF fits(h, p, n) THEN prevp
        ELSE IF p = h.freep THEN -1
        ELSE search(h, p, n)
take(h, prevp, n) ==
    LET p    == next(h, prevp)
        rest == size(h, p) - n
    IN  IF rest = 0
        THEN [h |-> [h EXCEPT !.hdr[prevp].ptr = next(h, p), !.hdr[p].ptr = 0, !.freep = prevp], p |-> p]
        ELSE [h |-> [h EXCEPT !.hdr[p].size = rest, !.hdr[p + rest] = [ptr |-> 0, size |-> n], !.freep = prevp],
              p |-> p + rest]

\* morecore(): a new block at the end of the heap is freed.
core(n) == IF n < MinUnits THEN MinUnits ELSE n
morecore(h, n) == free([h EXCEPT !.hdr[brk] = [ptr |-> 0, size |-> core(n)]], brk)

malloc(nbytes) ==
    LET n    == nunits(nbytes)
        here == search(heap, heap.freep, n)
        more == morecore(heap, n)
        r    == IF here >= 0 THEN take(heap, here, n)
                ELSE take(more, search(more, more.freep, n), n)
    IN  /\ here >= 0 \/ brk + core(n) <= HeapMax
        /\ heap' = r.h
        /\ live' = live \cup {r.p}
        /\ brk' = IF here >= 0 THEN brk ELSE brk + core(n)
        /\ UNCHANGED own

free_call(a) ==
    /\ heap' = free(heap, a)
    /\ live' = live \ {a}
    /\ UNCHANGED <<brk, own>>

\* The program may move the end of the heap too.
sbrk ==
    /\ brk < HeapMax /\ Cardinality(own) < MaxOwn
    /\ own' = own \cup {brk}
    /\ brk' = brk + 1
    /\ UNCHANGED <<heap, live>>

Next ==
    \/ \E n \in Requests : malloc(n)
    \/ \E a \in live : free_call(a)
    \/ sbrk

Spec == Init /\ [][Next]_vars

-----------------------------------------------------------------------------

\* The blocks of the free list, in its order from base on.
RECURSIVE From(_, _)
From(h, p) == IF next(h, p) = base THEN <<p>> ELSE <<p>> \o From(h, next(h, p))
FreeList == From(heap, base)
Extent(p) == p..p + size(heap, p) - 1

\* Every unit of the heap is in one free block, in one live block, or is the
\* program's own: nothing is handed out twice and nothing is lost, after any
\* mallocs and frees.  The list is in the order of addresses and no two free
\* blocks touch, so that what was split is whole again when it is freed.
HeapIntact ==
    LET list == FreeList
        free_blocks == {list[k] : k \in 2..Len(list)}
    IN  /\ \A k \in 1..Len(list) - 1 : list[k] + size(heap, list[k]) < list[k + 1]
        /\ \A a \in 1..brk - 1 :
            Cardinality({b \in free_blocks \cup live : a \in Extent(b)}) + (IF a \in own THEN 1 ELSE 0) = 1
        /\ free_blocks \cap live = {}
        /\ heap.freep \in free_blocks \cup {base}
=============================================================================
