--------------------------- MODULE ConsoleProofs ---------------------------
(***************************************************************************)
(* Proofs about the console, for every number of readers, writers and      *)
(* callers of cps(), every size of the buffer and every width of its       *)
(* indices: CInv is inductive, so the safety properties hold, and the      *)
(* buffer with its three indices implements Tty.                           *)
(***************************************************************************)
EXTENDS Console, SequenceTheorems, TLAPS

(***************************************************************************)
(* Indices that wrap around, and cells of the buffer                       *)
(***************************************************************************)
\* Unsigned arithmetic on one index is off by at most one turn of it.
LEMMA Wraps ==
    ASSUME NEW x \in Int, NEW U \in Nat, U > 0
    PROVE  /\ x % U \in 0..U - 1
           /\ 0 <= x /\ x < U => x % U = x
           /\ U <= x /\ x < 2 * U => x % U = x - U
           /\ -U <= x /\ x < 0 => x % U = x + U
OBVIOUS

\* Division with remainder: there is one quotient and one remainder.
LEMMA Quotient ==
    ASSUME NEW P \in Nat, P > 0, NEW a \in Int
    PROVE  \E q \in Int : a = P * q + (a % P) /\ a % P \in 0..P - 1
<1>1. a \div P \in Int
    OBVIOUS
<1>2. a % P \in 0..P - 1
    OBVIOUS
<1>3. a = P * (a \div P) + (a % P)
    OBVIOUS
<1> QED BY <1>1, <1>2, <1>3, ZenonT(60)

\* What has a remainder has only this one.
LEMMA Remainder ==
    ASSUME NEW P \in Nat, P > 0, NEW q \in Int, NEW m \in 0..P - 1
    PROVE  (P * q + m) % P = m
OBVIOUS

\* A turn of the index is a whole number of turns of the buffer.
LEMMA SameCell ==
    ASSUME NEW U \in Nat, NEW P \in Nat, P > 0, U % P = 0, NEW x \in Int
    PROVE  (x - U) % P = x % P
<1>1. PICK k \in Int : U = P * k
    BY Quotient
<1>2. PICK q \in Int : x = P * q + (x % P) /\ x % P \in 0..P - 1
    BY Quotient, ZenonT(60)
<1>3. q - k \in Int /\ x - U = P * (q - k) + (x % P)
    BY <1>1, <1>2
<1>4. (P * (q - k) + (x % P)) % P = x % P
    BY <1>2, <1>3, Remainder, ZenonT(60)
<1> QED BY <1>3, <1>4

\* Characters less than a buffer apart are in different cells.
LEMMA DistinctCells ==
    ASSUME NEW P \in Nat, P > 0, NEW a \in Int, NEW b \in Int, a < b, b < a + P
    PROVE  a % P # b % P
<1> SUFFICES ASSUME a % P = b % P PROVE FALSE
    OBVIOUS
<1>1. PICK q \in Int : a = P * q + (a % P) /\ a % P \in 0..P - 1
    BY Quotient, ZenonT(60)
<1>2. PICK k \in Int : b = P * k + (b % P) /\ b % P \in 0..P - 1
    BY Quotient, ZenonT(60)
<1>3. b - a = P * (k - q)
    BY <1>1, <1>2
<1>4. k - q <= 0 => P * (k - q) <= 0
    OBVIOUS
<1>5. k - q >= 1 => P * (k - q) >= P
    OBVIOUS
<1> QED BY <1>3, <1>4, <1>5

\* The values of an index.
Index == 0..UINT - 1

\* The distance from one index to another.
LEMMA Minus ==
    ASSUME NEW x \in Index, NEW y \in Index
    PROVE  /\ minus(y, x) \in Index
           /\ x <= y => minus(y, x) = y - x
           /\ x > y => minus(y, x) = y - x + UINT
           /\ minus(y, x) = 0 <=> x = y
<1>1. UINT \in Nat /\ UINT > 0
    BY ConsoleAssumption
<1>2. /\ minus(y, x) \in Index
      /\ x <= y => minus(y, x) = y - x
      /\ x > y => minus(y, x) = y - x + UINT
    BY <1>1, Wraps DEF minus, Index
<1> QED BY <1>1, <1>2 DEF Index

\* An index moved by less than a turn, forwards and backwards.
LEMMA Plus ==
    ASSUME NEW x \in Index, NEW m \in Index
    PROVE  /\ plus(x, m) \in Index
           /\ x + m < UINT => plus(x, m) = x + m
           /\ x + m >= UINT => plus(x, m) = x + m - UINT
           /\ minus(plus(x, m), x) = m
<1>1. UINT \in Nat /\ UINT > 0
    BY ConsoleAssumption
<1>2. /\ plus(x, m) \in Index
      /\ x + m < UINT => plus(x, m) = x + m
      /\ x + m >= UINT => plus(x, m) = x + m - UINT
    BY <1>1, Wraps DEF plus, Index
<1>3. minus(plus(x, m), x) = m
    <2>1. CASE x + m < UINT
        <3>1. x <= plus(x, m) /\ plus(x, m) - x = m
            BY <1>1, <1>2, <2>1 DEF Index
        <3> QED BY <1>2, <3>1, Minus
    <2>2. CASE x + m >= UINT
        <3>1. x > plus(x, m) /\ plus(x, m) - x + UINT = m
            BY <1>1, <1>2, <2>2 DEF Index
        <3> QED BY <1>2, <3>1, Minus
    <2> QED BY <1>1, <2>1, <2>2 DEF Index
<1> QED BY <1>2, <1>3

\* A cell is in the buffer, and the cell of a moved index is the one so many
\* cells further on.
LEMMA PlusCell ==
    ASSUME NEW x \in Index, NEW m \in Index
    PROVE  /\ cell(plus(x, m)) = (x + m) % INPUT_BUF
           /\ cell(plus(x, m)) \in 0..INPUT_BUF - 1
<1>1. /\ UINT \in Nat /\ INPUT_BUF \in Nat /\ INPUT_BUF > 0 /\ UINT % INPUT_BUF = 0
      /\ x + m \in Int
    BY ConsoleAssumption DEF Index
<1>2. (x + m) % INPUT_BUF \in 0..INPUT_BUF - 1
    BY <1>1, Wraps
<1>3. CASE x + m < UINT
    BY <1>2, <1>3, Plus DEF cell
<1>4. CASE x + m >= UINT
    <2>1. \A y \in Int : (y - UINT) % INPUT_BUF = y % INPUT_BUF
        BY <1>1, SameCell, ZenonT(60)
    <2>2. ((x + m) - UINT) % INPUT_BUF = (x + m) % INPUT_BUF
        BY <1>1, <2>1
    <2>3. plus(x, m) = (x + m) - UINT
        BY <1>1, <1>4, Plus DEF Index
    <2> QED BY <1>2, <2>2, <2>3 DEF cell
<1> QED BY <1>1, <1>3, <1>4

(***************************************************************************)
(* Steps that leave the buffer alone                                       *)
(***************************************************************************)
\* What is left of CInv when the indices and the buffer stay as they are.
LEMMA SameInput ==
    ASSUME CInv, UNCHANGED <<buf, r, w, e>>
    PROVE  /\ Ordered' /\ Editing' /\ FullIsFinished'
           /\ pc' \in [Actors -> {"out", "getc", "wakeup", "procdump", "lock", "read", "sleep",
                                  "asleep", "write", "heading", "rows", "cps_done"}] => TypeOK'
BY DEF CInv, TypeOK, Ordered, Editing, FullIsFinished, minus, plus, cell

\* What becomes of who waits when the program counters change.
LEMMA WaitersStep ==
    ASSUME CInv, UNCHANGED <<buf, r, w, e>>,
           pc' \in [Actors -> {"out", "getc", "wakeup", "procdump", "lock", "read", "sleep",
                               "asleep", "write", "heading", "rows", "cps_done"}],
           ConsHeld',
           \A p \in Readers : pc'[p] = "sleep" => pc[p] = "sleep" \/ r = w,
           \A p \in Readers : pc'[p] = "asleep" => pc[p] \in {"sleep", "asleep"},
           pc[kbd] = "wakeup" => pc'[kbd] = "wakeup" \/ \A p \in Readers : pc'[p] # "asleep"
    PROVE  CInv'
<1>1. TypeOK' /\ Ordered' /\ Editing' /\ FullIsFinished'
    BY SameInput
<1>2. GoesToSleep'
    BY DEF CInv, GoesToSleep
<1>3. ReaderWaits'
    BY DEF CInv, GoesToSleep, ReaderWaits
<1> QED BY <1>1, <1>2, <1>3 DEF CInv

\* acquire(&cons.lock) of the handler, of readers and of writers.
LEMMA LockStep ==
    ASSUME CInv, NEW a \in Actors, NEW l, l \in {"getc", "read", "write"},
           lock_cons(a), goto(a, l), UNCHANGED <<buf, r, w, e>>,
           pc[a] \in {"out", "lock"}
    PROVE  CInv'
<1>1. cons = NoOne /\ cons' = a /\ pc' = [pc EXCEPT ![a] = l] /\ NoOne \notin Actors
    BY ConsoleAssumption DEF lock_cons, goto
<1>2. kbd \in Actors /\ Readers \subseteq Actors
    BY DEF Actors
<1>3. pc' \in [Actors -> {"out", "getc", "wakeup", "procdump", "lock", "read", "sleep",
                          "asleep", "write", "heading", "rows", "cps_done"}]
    BY <1>1 DEF CInv, TypeOK
<1>4. \A b \in Actors : pc'[b] = IF b = a THEN l ELSE pc[b]
    BY <1>1 DEF CInv, TypeOK
<1>5. ConsHeld'
    BY <1>1, <1>4 DEF CInv, ConsHeld, InCons
<1> QED BY <1>2, <1>3, <1>4, <1>5, WaitersStep

\* release(&cons.lock) by who holds it, and steps outside of cons.lock.
LEMMA ReleaseStep ==
    ASSUME CInv, NEW a \in Actors, NEW l,
           l \in {"out", "lock", "procdump", "asleep", "heading", "rows", "cps_done"},
           goto(a, l), UNCHANGED <<buf, r, w, e>>,
           cons' = cons \/ (cons' = NoOne /\ InCons(a)),
           l = "asleep" => pc[a] = "sleep",
           pc[kbd] = "wakeup" => a # kbd
    PROVE  CInv'
<1>1. pc' = [pc EXCEPT ![a] = l]
    BY DEF goto
<1>2. kbd \in Actors /\ Readers \subseteq Actors
    BY DEF Actors
<1>3. pc' \in [Actors -> {"out", "getc", "wakeup", "procdump", "lock", "read", "sleep",
                          "asleep", "write", "heading", "rows", "cps_done"}]
    BY <1>1 DEF CInv, TypeOK
<1>4. \A b \in Actors : pc'[b] = IF b = a THEN l ELSE pc[b]
    BY <1>1 DEF CInv, TypeOK
<1>5. ConsHeld'
    BY <1>4 DEF CInv, ConsHeld, InCons
<1> QED BY <1>2, <1>3, <1>4, <1>5, WaitersStep

\* wakeup(&input.r) of the handler: nobody is left asleep.
LEMMA WakeupStep ==
    ASSUME CInv, intr_wakeup
    PROVE  CInv'
<1>1. /\ pc[kbd] = "wakeup" /\ pc' = wakeup([pc EXCEPT ![kbd] = "getc"])
      /\ UNCHANGED <<buf, r, w, e, cons>>
    BY DEF intr_wakeup, input
<1>2. kbd \in Actors /\ Readers \subseteq Actors
    BY DEF Actors
<1>3. pc' \in [Actors -> {"out", "getc", "wakeup", "procdump", "lock", "read", "sleep",
                          "asleep", "write", "heading", "rows", "cps_done"}]
    BY <1>1 DEF CInv, TypeOK, wakeup
<1>4. \A b \in Actors : /\ pc'[b] # "asleep"
                        /\ pc'[b] = "sleep" => pc[b] = "sleep"
                        /\ InCons(b)' => InCons(b)
    BY <1>1, <1>2 DEF CInv, TypeOK, wakeup, InCons
<1>5. ConsHeld'
    BY <1>1, <1>4 DEF CInv, ConsHeld
<1> QED BY <1>1, <1>2, <1>3, <1>4, <1>5, WaitersStep, ZenonT(60)

\* The other steps of the handler that leave the buffer alone.
LEMMA HandlerStep ==
    ASSUME CInv, consoleintr \/ intr_done \/ procdump
    PROVE  CInv'
<1>1. kbd \in Actors
    BY DEF Actors
<1>2. CASE consoleintr
    BY <1>1, <1>2, LockStep DEF consoleintr, input
<1>3. CASE intr_done
    <2>1. PICK l \in {"procdump", "out"} : goto(kbd, l)
        BY <1>3 DEF intr_done
    <2> QED BY <1>1, <1>3, <2>1, ReleaseStep DEF intr_done, input, InCons
<1>4. CASE procdump
    BY <1>1, <1>4, ReleaseStep DEF procdump, input
<1> QED BY <1>2, <1>3, <1>4

\* The steps of consoleread() that leave the buffer alone.
LEMMA ReadStep ==
    ASSUME CInv, NEW p \in Readers,
           \/ \E n \in 0..MaxN : read(p, n)
           \/ read_lock(p) \/ read_wait(p) \/ sleep(p) \/ read_done(p)
    PROVE  CInv'
<1>1. p \in Actors /\ p # kbd
    BY ConsoleAssumption DEF Actors
<1>2. CASE \E n \in 0..MaxN : read(p, n)
    BY <1>1, <1>2, ReleaseStep DEF read, input
<1>3. CASE read_lock(p)
    BY <1>1, <1>3, LockStep DEF read_lock, input
<1>4. CASE sleep(p)
    BY <1>1, <1>4, ReleaseStep DEF sleep, input, InCons
<1>5. CASE read_done(p)
    BY <1>1, <1>5, ReleaseStep DEF read_done, read_return, input, InCons
<1>6. CASE read_wait(p)
    <2>1. CASE killed[p] /\ read_return(p)
        BY <1>1, <1>6, <2>1, ReleaseStep DEF read_wait, read_return, input, InCons
    <2>2. CASE goto(p, "sleep") /\ UNCHANGED cons
        <3>1. /\ pc[p] = "read" /\ r = w /\ pc' = [pc EXCEPT ![p] = "sleep"]
              /\ UNCHANGED <<buf, r, w, e, cons>>
            BY <1>6, <2>2 DEF read_wait, goto, input
        <3>2. pc' \in [Actors -> {"out", "getc", "wakeup", "procdump", "lock", "read", "sleep",
                                  "asleep", "write", "heading", "rows", "cps_done"}]
            BY <3>1, ZenonT(60) DEF CInv, TypeOK
        <3>3. \A b \in Actors : pc'[b] = IF b = p THEN "sleep" ELSE pc[b]
            BY <3>1 DEF CInv, TypeOK
        <3>4. ConsHeld'
            BY <3>1, <3>3 DEF CInv, ConsHeld, InCons
        <3>5. kbd \in Actors /\ Readers \subseteq Actors
            BY DEF Actors
        <3> QED BY <1>1, <3>1, <3>2, <3>3, <3>4, <3>5, WaitersStep
    <2> QED BY <1>6, <2>1, <2>2 DEF read_wait
<1> QED BY <1>2, <1>3, <1>4, <1>5, <1>6

\* kill() of a reader, consolewrite() and cps().
LEMMA OtherStep ==
    ASSUME CInv,
           \/ \E p \in Readers : kill(p)
           \/ \E p \in Writers : consolewrite(p)
           \/ \E p \in Listers : cps(p)
    PROVE  CInv'
<1>1. ASSUME NEW p \in Readers, kill(p) PROVE CInv'
    <2>1. p \in Actors /\ kbd \in Actors /\ Readers \subseteq Actors
        BY DEF Actors
    <2>2. /\ pc' = [pc EXCEPT ![p] = IF @ = "asleep" THEN "lock" ELSE @]
          /\ UNCHANGED <<buf, r, w, e, cons>>
        BY <1>1 DEF kill, input
    <2>3. pc' \in [Actors -> {"out", "getc", "wakeup", "procdump", "lock", "read", "sleep",
                              "asleep", "write", "heading", "rows", "cps_done"}]
        BY <2>2, ZenonT(60) DEF CInv, TypeOK
    <2>4. \A b \in Actors : pc'[b] = IF b = p /\ pc[b] = "asleep" THEN "lock" ELSE pc[b]
        BY <2>2 DEF CInv, TypeOK
    <2>5. ConsHeld'
        BY <2>2, <2>4 DEF CInv, ConsHeld, InCons
    <2> QED BY <2>1, <2>2, <2>3, <2>4, <2>5, WaitersStep
<1>2. ASSUME NEW p \in Writers, consolewrite(p) PROVE CInv'
    <2>1. p \in Actors /\ p # kbd
        BY ConsoleAssumption DEF Actors
    <2>2. CASE pc[p] = "out" /\ lock_cons(p) /\ goto(p, "write")
        BY <1>2, <2>1, <2>2, LockStep DEF consolewrite, input
    <2>3. CASE pc[p] = "write" /\ cons' = NoOne /\ goto(p, "out")
        BY <1>2, <2>1, <2>3, ReleaseStep DEF consolewrite, input, InCons
    <2> QED BY <1>2, <2>2, <2>3 DEF consolewrite
<1>3. ASSUME NEW p \in Listers, cps(p) PROVE CInv'
    <2>1. p \in Actors /\ p # kbd
        BY ConsoleAssumption DEF Actors
    <2>2. PICK l \in {"heading", "rows", "cps_done", "out"} : goto(p, l)
        BY <1>3 DEF cps
    <2> QED BY <1>3, <2>1, <2>2, ReleaseStep DEF cps, input
<1> QED BY <1>1, <1>2, <1>3

(***************************************************************************)
(* Steps that change the buffer                                            *)
(***************************************************************************)
\* The indices and their distances.
LEMMA Distances ==
    ASSUME CInv
    PROVE  /\ r \in Index /\ w \in Index /\ e \in Index
           /\ UINT \in Nat /\ INPUT_BUF \in Nat /\ INPUT_BUF > 0 /\ UINT > INPUT_BUF
           /\ 1 \in Index /\ 0 \in Index /\ INPUT_BUF \in Index
           /\ minus(w, r) \in Nat /\ minus(e, w) \in Nat /\ minus(e, r) \in Nat
           /\ minus(w, r) + minus(e, w) = minus(e, r) /\ minus(e, r) <= INPUT_BUF
           /\ minus(e, r) = INPUT_BUF => w = e
<1>1. /\ r \in Index /\ w \in Index /\ e \in Index
      /\ UINT \in Nat /\ INPUT_BUF \in Nat /\ INPUT_BUF > 0 /\ UINT > INPUT_BUF
    BY ConsoleAssumption DEF CInv, TypeOK, Index
<1>2. minus(w, r) \in Nat /\ minus(e, w) \in Nat /\ minus(e, r) \in Nat
    <2>1. minus(w, r) \in Index /\ minus(e, w) \in Index /\ minus(e, r) \in Index
        BY <1>1, Minus
    <2> QED BY <1>1, <2>1 DEF Index
<1> QED BY <1>1, <1>2 DEF CInv, Ordered, FullIsFinished, Index

\* An index is as many cells from another as its distance says, forwards ...
LEMMA AheadCell ==
    ASSUME NEW x \in Index, NEW y \in Index
    PROVE  y = plus(x, minus(y, x))
<1> DEFINE d == minus(y, x)
<1>1. /\ UINT \in Nat /\ d \in Index
      /\ x <= y => d = y - x
      /\ x > y => d = y - x + UINT
    BY Minus, ConsoleAssumption
<1> HIDE DEF d
<1>2. /\ x + d < UINT => plus(x, d) = x + d
      /\ x + d >= UINT => plus(x, d) = x + d - UINT
    BY <1>1, Plus
<1>3. y = plus(x, d)
    BY <1>1, <1>2 DEF Index
<1> QED BY <1>3 DEF d

\* ... and backwards.
LEMMA BackIndex ==
    ASSUME NEW x \in Index, NEW y \in Index, NEW k \in 0..minus(y, x)
    PROVE  /\ minus(y, k) \in Index
           /\ minus(minus(y, k), x) = minus(y, x) - k
<1>1. /\ UINT \in Nat /\ minus(y, x) \in Index /\ k \in Index
    BY Minus, ConsoleAssumption DEF Index
<1>2. /\ minus(y, k) \in Index
      /\ k <= y => minus(y, k) = y - k
      /\ k > y => minus(y, k) = y - k + UINT
    BY <1>1, Minus
<1>3. /\ x <= y => minus(y, x) = y - x
      /\ x > y => minus(y, x) = y - x + UINT
    BY Minus
<1> DEFINE z == minus(y, k)
<1>4. /\ x <= z => minus(z, x) = z - x
      /\ x > z => minus(z, x) = z - x + UINT
    BY <1>2, Minus
<1> HIDE DEF z
<1>5. minus(z, x) = minus(y, x) - k
    <2>1. /\ z \in Index
          /\ k <= y => z = y - k
          /\ k > y => z = y - k + UINT
        BY <1>2 DEF z
    <2> QED BY <1>1, <1>3, <1>4, <2>1 DEF Index
<1> QED BY <1>2, <1>5 DEF z

\* The kill-line key erases the whole line: there is no end of a line in it.
LEMMA ErasedAll ==
    ASSUME CInv
    PROVE  Erased = minus(e, w)
<1>1. w \in Index /\ e \in Index /\ minus(e, w) \in Nat
    BY Distances
<1>2. ASSUME NEW i \in 0..minus(e, w) - 1 PROVE buf[cell(minus(e, i + 1))] # "nl"
    <2>1. i + 1 \in 0..minus(e, w) /\ minus(e, w) - (i + 1) \in 0..minus(e, w) - 1
        BY <1>1
    <2>2. /\ minus(e, i + 1) \in Index
          /\ minus(minus(e, i + 1), w) = minus(e, w) - (i + 1)
        BY <1>1, <2>1, BackIndex
    <2>3. minus(e, i + 1) = plus(w, minus(e, w) - (i + 1))
        BY <1>1, <2>2, AheadCell
    <2> QED BY <2>1, <2>3 DEF CInv, Editing
<1>3. ASSUME NEW k \in 0..minus(e, w),
             k = minus(e, w) \/ buf[cell(minus(e, k + 1))] = "nl"
      PROVE  k = minus(e, w)
    BY <1>1, <1>2, <1>3
<1>4. minus(e, w) \in 0..minus(e, w)
    BY <1>1
<1> QED BY <1>2, <1>3, <1>4 DEF Erased

\* Moving one of two indices on by one.
LEMMA NextIndex ==
    ASSUME NEW x \in Index, NEW y \in Index
    PROVE  /\ plus(y, 1) \in Index
           /\ minus(y, x) + 1 < UINT => minus(plus(y, 1), x) = minus(y, x) + 1
           /\ x # y => minus(y, plus(x, 1)) = minus(y, x) - 1
<1>1. UINT \in Nat /\ 1 \in Index
    BY ConsoleAssumption DEF Index
<1> DEFINE d == minus(y, x)
           y1 == plus(y, 1)
           x1 == plus(x, 1)
<1>2. /\ d \in Index
      /\ x <= y => d = y - x
      /\ x > y => d = y - x + UINT
    BY Minus
<1>3. /\ y1 \in Index /\ (y + 1 < UINT => y1 = y + 1) /\ (y + 1 >= UINT => y1 = y + 1 - UINT)
      /\ x1 \in Index /\ (x + 1 < UINT => x1 = x + 1) /\ (x + 1 >= UINT => x1 = x + 1 - UINT)
    BY <1>1, Plus
<1> HIDE DEF d, y1, x1
<1>4. /\ x <= y1 => minus(y1, x) = y1 - x
      /\ x > y1 => minus(y1, x) = y1 - x + UINT
      /\ x1 <= y => minus(y, x1) = y - x1
      /\ x1 > y => minus(y, x1) = y - x1 + UINT
    BY <1>3, Minus
<1>5. d + 1 < UINT => minus(y1, x) = d + 1
    BY <1>1, <1>2, <1>3, <1>4 DEF Index
<1>6. x # y => minus(y, x1) = d - 1
    BY <1>1, <1>2, <1>3, <1>4 DEF Index
<1> QED BY <1>3, <1>5, <1>6 DEF d, x1, y1

\* Backspace and kill line keep the invariant: they shorten the line.
LEMMA EraseStep ==
    ASSUME CInv, NEW k \in Keys, getc(k), control(k)
    PROVE  CInv'
<1>1. /\ pc[kbd] = "getc" /\ pc' = [pc EXCEPT ![kbd] = "getc"]
      /\ UNCHANGED <<buf, r, w, cons>>
    BY DEF getc, control, goto
<1>2. pc' = pc
    BY <1>1 DEF CInv, TypeOK
<1>3. /\ r \in Index /\ w \in Index /\ e \in Index /\ UINT \in Nat
      /\ minus(w, r) \in Nat /\ minus(e, w) \in Nat /\ minus(e, r) \in Nat
      /\ minus(w, r) + minus(e, w) = minus(e, r) /\ minus(e, r) <= INPUT_BUF
      /\ minus(e, r) = INPUT_BUF => w = e
      /\ INPUT_BUF \in Nat
    BY Distances
<1>4. \E n \in 0..minus(e, w) : e' = minus(e, n)
    <2>1. CASE e' = e
        <3>1. 0 \in 0..minus(e, w)
            BY <1>3
        <3>2. minus(e, 0) = e
            BY <1>3, Minus DEF Index
        <3> QED BY <2>1, <3>1, <3>2
    <2>2. CASE e' = minus(e, Erased)
        BY <1>3, <2>2, ErasedAll
    <2>3. CASE e' = minus(e, 1) /\ e # w
        <3>1. minus(e, w) # 0
            BY <1>3, <2>3, Minus
        <3>2. 1 \in 0..minus(e, w)
            BY <1>3, <3>1
        <3> QED BY <2>3, <3>2
    <2> QED BY <2>1, <2>2, <2>3 DEF control, erase
<1>5. PICK n \in 0..minus(e, w) : e' = minus(e, n)
    BY <1>4
<1>6. n \in 0..minus(e, r)
    BY <1>3
<1>7. e' \in Index /\ minus(e', w) = minus(e, w) - n /\ minus(e', r) = minus(e, r) - n
    BY <1>3, <1>5, <1>6, BackIndex
<1>8. TypeOK'
    BY <1>1, <1>2, <1>7, ZenonT(60) DEF CInv, TypeOK, Index
<1>9. Ordered'
    BY <1>1, <1>3, <1>6, <1>7 DEF Ordered
<1>10. FullIsFinished'
    <2>1. CASE n = 0
        <3>1. minus(e', w) = minus(e, w) /\ minus(e', r) = minus(e, r)
            BY <1>3, <1>7, <2>1
        <3>2. w = e <=> minus(e, w) = 0
            BY <1>3, Minus
        <3>3. w = e' <=> minus(e', w) = 0
            BY <1>3, <1>7, Minus
        <3> QED BY <1>1, <1>3, <3>1, <3>2, <3>3 DEF FullIsFinished
    <2>2. CASE n # 0
        <3>1. minus(e', r) < INPUT_BUF
            BY <1>3, <1>6, <1>7, <2>2
        <3> QED BY <1>1, <1>3, <1>7, <3>1 DEF FullIsFinished
    <2> QED BY <2>1, <2>2
<1>11. Editing'
    <2>1. ASSUME NEW j \in 0..minus(e', w) - 1 PROVE buf'[cell(plus(w, j))] # "nl"
        <3>1. j \in 0..minus(e, w) - 1
            BY <1>3, <1>7
        <3> QED BY <1>1, <3>1 DEF CInv, Editing
    <2> QED BY <1>1, <2>1 DEF Editing, cell, plus, minus
<1>12. ConsHeld' /\ GoesToSleep' /\ ReaderWaits'
    BY <1>1, <1>2 DEF CInv, ConsHeld, InCons, GoesToSleep, ReaderWaits
<1> QED BY <1>8, <1>9, <1>10, <1>11, <1>12 DEF CInv

\* The cells of what is in the buffer, counted from any index before e, are
\* not the one that the next key goes to.
LEMMA FreshCell ==
    ASSUME NEW x \in Index, e \in Index, minus(e, x) < INPUT_BUF,
           NEW j \in 0..minus(e, x) - 1
    PROVE  /\ cell(plus(x, j)) # cell(e)
           /\ cell(plus(x, j)) \in 0..INPUT_BUF - 1
           /\ cell(e) \in 0..INPUT_BUF - 1
<1> DEFINE d == minus(e, x)
<1>1. UINT \in Nat /\ INPUT_BUF \in Nat /\ INPUT_BUF > 0 /\ UINT > INPUT_BUF
    BY ConsoleAssumption
<1>2. d \in Index /\ e = plus(x, d)
    BY Minus, AheadCell
<1> HIDE DEF d
<1>3. j \in Index /\ x + j \in Int /\ x + d \in Int /\ x + j < x + d /\ x + d < x + j + INPUT_BUF
    BY <1>1, <1>2 DEF Index, d
<1>4. /\ cell(plus(x, j)) = (x + j) % INPUT_BUF /\ cell(plus(x, j)) \in 0..INPUT_BUF - 1
      /\ cell(plus(x, d)) = (x + d) % INPUT_BUF /\ cell(plus(x, d)) \in 0..INPUT_BUF - 1
    BY <1>2, <1>3, PlusCell
<1>5. (x + j) % INPUT_BUF # (x + d) % INPUT_BUF
    BY <1>1, <1>3, DistinctCells
<1> QED BY <1>2, <1>4, <1>5

\* What storing a key does to the indices.
LEMMA StoreIndices ==
    ASSUME CInv, NEW k \in Keys, getc(k), store(k), Stored(k)
    PROVE  /\ buf' = [buf EXCEPT ![cell(e)] = k] /\ r' = r /\ k \in Letters \cup Ends
           /\ cell(e) \in 0..INPUT_BUF - 1
           /\ e' \in Index /\ w' \in Index
           /\ minus(e', r) = minus(e, r) + 1
           /\ minus(e', w) = minus(e, w) + 1
           /\ Finished(k, e') <=> k \in Ends \/ minus(e, r) + 1 = INPUT_BUF
           /\ w' = IF Finished(k, e') THEN e' ELSE w
<1>1. /\ r \in Index /\ w \in Index /\ e \in Index
      /\ UINT \in Nat /\ INPUT_BUF \in Nat /\ INPUT_BUF > 0 /\ UINT > INPUT_BUF
      /\ 0 \in Index /\ INPUT_BUF \in Index
      /\ minus(w, r) \in Nat /\ minus(e, w) \in Nat /\ minus(e, r) \in Nat
      /\ minus(w, r) + minus(e, w) = minus(e, r)
    BY Distances
<1>2. /\ buf' = [buf EXCEPT ![cell(e)] = k] /\ r' = r /\ e' = plus(e, 1)
      /\ w' = IF Finished(k, e') THEN e' ELSE w
      /\ k \in Letters \cup Ends
      /\ minus(e, r) < INPUT_BUF
    BY ConsoleAssumption DEF getc, store, Stored
<1>3. minus(e, r) + 1 < UINT /\ minus(e, w) + 1 < UINT
    BY <1>1, <1>2
<1>4. /\ e' \in Index
      /\ minus(e', r) = minus(e, r) + 1 /\ minus(e', w) = minus(e, w) + 1
    BY <1>1, <1>2, <1>3, NextIndex
<1>5. e' = plus(r, INPUT_BUF) <=> minus(e', r) = INPUT_BUF
    <2>1. minus(plus(r, INPUT_BUF), r) = INPUT_BUF
        BY <1>1, Plus
    <2>2. e' = plus(r, minus(e', r))
        BY <1>1, <1>4, AheadCell
    <2> QED BY <2>1, <2>2
<1>6. cell(e) \in 0..INPUT_BUF - 1
    BY <1>1, Wraps DEF cell, Index
<1> QED BY <1>1, <1>2, <1>4, <1>5, <1>6 DEF Finished

\* Storing a key keeps the invariant: a key that fills the buffer finishes
\* the line, and whoever sleeps is about to be woken.
LEMMA StoreStep ==
    ASSUME CInv, NEW k \in Keys, getc(k), store(k), Stored(k)
    PROVE  CInv'
<1>1. /\ buf' = [buf EXCEPT ![cell(e)] = k] /\ r' = r /\ k \in Letters \cup Ends
      /\ cell(e) \in 0..INPUT_BUF - 1
      /\ e' \in Index /\ w' \in Index
      /\ minus(e', r) = minus(e, r) + 1
      /\ minus(e', w) = minus(e, w) + 1
      /\ Finished(k, e') <=> k \in Ends \/ minus(e, r) + 1 = INPUT_BUF
      /\ w' = IF Finished(k, e') THEN e' ELSE w
    BY StoreIndices
<1>2. /\ r \in Index /\ w \in Index /\ e \in Index /\ UINT \in Nat /\ INPUT_BUF \in Nat
      /\ minus(w, r) \in Nat /\ minus(e, w) \in Nat /\ minus(e, r) \in Nat
      /\ minus(w, r) + minus(e, w) = minus(e, r)
    BY Distances
<1>3. /\ pc[kbd] = "getc" /\ cons' = cons /\ minus(e, r) < INPUT_BUF
      /\ pc' = [pc EXCEPT ![kbd] = IF Finished(k, e') THEN "wakeup" ELSE "getc"]
    BY DEF getc, store, Stored, goto
<1>4. kbd \in Actors /\ kbd \notin Readers /\ Readers \subseteq Actors
    BY ConsoleAssumption DEF Actors
<1>5. pc' \in [Actors -> {"out", "getc", "wakeup", "procdump", "lock", "read", "sleep",
                          "asleep", "write", "heading", "rows", "cps_done"}]
    BY <1>3, ZenonT(60) DEF CInv, TypeOK
<1>6. buf' \in [0..INPUT_BUF - 1 -> Letters \cup Ends]
    BY <1>1 DEF CInv, TypeOK
<1>7. TypeOK'
    BY <1>1, <1>2, <1>5, <1>6, SMTT(60) DEF TypeOK, Index
<1>8. minus(e', e') = 0
    BY <1>1, Minus
<1>9. Ordered'
    BY <1>1, <1>2, <1>3, <1>8 DEF Ordered
<1>10. FullIsFinished'
    BY <1>1 DEF FullIsFinished
<1>11. Editing'
    <2>1. CASE Finished(k, e')
        BY <1>1, <1>8, <2>1 DEF Editing
    <2>2. CASE ~Finished(k, e')
        <3>1. k # "nl" /\ w' = w
            BY <1>1, <2>2 DEF Ends
        <3>2. ASSUME NEW j \in 0..minus(e, w) - 1 PROVE buf'[cell(plus(w, j))] # "nl"
            <4>1. minus(e, w) < INPUT_BUF
                BY <1>2, <1>3
            <4>2. /\ cell(plus(w, j)) # cell(e)
                  /\ cell(plus(w, j)) \in 0..INPUT_BUF - 1
                BY <1>2, <4>1, FreshCell
            <4> QED BY <1>1, <4>2 DEF CInv, TypeOK, Editing
        <3>3. buf'[cell(plus(w, minus(e, w)))] # "nl"
            <4>1. e = plus(w, minus(e, w))
                BY <1>2, AheadCell
            <4>2. buf'[cell(e)] = k
                BY <1>1 DEF CInv, TypeOK
            <4> QED BY <3>1, <4>1, <4>2
        <3>4. minus(e', w) - 1 = minus(e, w)
            BY <1>1, <1>2
        <3>5. ASSUME NEW j \in 0..minus(e', w) - 1 PROVE buf'[cell(plus(w, j))] # "nl"
            <4>1. j \in 0..minus(e, w) - 1 \/ j = minus(e, w)
                BY <1>2, <3>4
            <4> QED BY <3>2, <3>3, <4>1
        <3> QED BY <3>1, <3>5 DEF Editing, cell, plus, minus
    <2> QED BY <2>1, <2>2
<1>12. ConsHeld'
    BY <1>3, <1>4, <1>5 DEF CInv, TypeOK, ConsHeld, InCons
<1>13. \A p \in Readers : pc'[p] = pc[p]
    BY <1>3, <1>4 DEF CInv, TypeOK
<1>14. GoesToSleep'
    <2>1. \A p \in Readers : pc[p] # "sleep"
        BY <1>3, <1>4 DEF CInv, ConsHeld, InCons
    <2> QED BY <1>13, <2>1 DEF GoesToSleep
<1>15. ReaderWaits'
    <2>1. Finished(k, e') => pc'[kbd] = "wakeup"
        BY <1>3, <1>4 DEF CInv, TypeOK
    <2> QED BY <1>1, <1>3, <1>13, <2>1 DEF CInv, ReaderWaits
<1> QED BY <1>7, <1>9, <1>10, <1>11, <1>12, <1>14, <1>15 DEF CInv

\* A reader that takes a character keeps the invariant: it holds cons.lock, so
\* the handler is not between storing a key and wakeup().
LEMMA ReadCharStep ==
    ASSUME CInv, NEW p \in Readers, read_char(p)
    PROVE  CInv'
<1>1. /\ pc[p] = "read" /\ r # w /\ UNCHANGED <<buf, w, e>>
      /\ r' = r \/ r' = plus(r, 1)
      /\ pc' = pc \/ pc' = [pc EXCEPT ![p] = "out"]
      /\ cons' = cons \/ (cons' = NoOne /\ pc' = [pc EXCEPT ![p] = "out"])
    BY DEF read_char, read_return, goto
<1>2. /\ r \in Index /\ w \in Index /\ e \in Index /\ UINT \in Nat /\ INPUT_BUF \in Nat
      /\ minus(w, r) \in Nat /\ minus(e, w) \in Nat /\ minus(e, r) \in Nat
      /\ minus(w, r) + minus(e, w) = minus(e, r) /\ minus(e, r) <= INPUT_BUF
      /\ minus(e, r) = INPUT_BUF => w = e
    BY Distances
<1>3. p \in Actors /\ p # kbd /\ kbd \in Actors /\ Readers \subseteq Actors
    BY ConsoleAssumption DEF Actors
<1>4. cons = p
    BY <1>1, <1>3 DEF CInv, ConsHeld, InCons
<1>5. \A b \in Actors : b # p => ~InCons(b)
    BY <1>4 DEF CInv, ConsHeld
<1>6. \A b \in Actors : pc'[b] = pc[b] \/ (b = p /\ pc'[b] = "out")
    BY <1>1 DEF CInv, TypeOK
<1>7. r # e
    <2>1. minus(w, r) # 0
        BY <1>1, <1>2, Minus
    <2>2. minus(e, r) # 0
        BY <1>2, <2>1
    <2> QED BY <1>2, <2>2, Minus
<1>8. /\ r' \in Index
      /\ r' = r \/ (minus(w, r') = minus(w, r) - 1 /\ minus(e, r') = minus(e, r) - 1)
    BY <1>1, <1>2, <1>7, NextIndex
<1>9. TypeOK'
    <2>1. pc' \in [Actors -> {"out", "getc", "wakeup", "procdump", "lock", "read", "sleep",
                              "asleep", "write", "heading", "rows", "cps_done"}]
        BY <1>1 DEF CInv, TypeOK
    <2> QED BY <1>1, <1>8, <2>1 DEF CInv, TypeOK, Index
<1>10. Ordered'
    BY <1>1, <1>2, <1>8 DEF Ordered
<1>11. FullIsFinished'
    BY <1>1, <1>2, <1>8 DEF FullIsFinished
<1>12. Editing'
    BY <1>1 DEF CInv, Editing, cell, plus, minus
<1>13. ConsHeld'
    <2>1. ASSUME NEW b \in Actors, InCons(b)' PROVE cons' = b
        <3>1. pc'[b] = pc[b] /\ InCons(b)
            BY <1>6, <2>1 DEF InCons
        <3>2. b = p
            BY <1>5, <3>1
        <3>3. pc' # [pc EXCEPT ![p] = "out"]
            BY <1>1, <1>3, <3>1, <3>2 DEF CInv, TypeOK
        <3> QED BY <1>1, <1>4, <3>2, <3>3
    <2> QED BY <2>1 DEF ConsHeld
<1>14. GoesToSleep'
    <2>1. \A q \in Readers : pc'[q] # "sleep"
        BY <1>1, <1>3, <1>5, <1>6 DEF InCons
    <2> QED BY <2>1 DEF GoesToSleep
<1>15. ReaderWaits'
    <2>1. pc[kbd] # "wakeup"
        BY <1>3, <1>5 DEF InCons
    <2>2. \A q \in Readers : pc[q] # "asleep"
        BY <1>1, <2>1 DEF CInv, ReaderWaits
    <2> QED BY <1>3, <1>6, <2>2 DEF ReaderWaits
<1> QED BY <1>9, <1>10, <1>11, <1>12, <1>13, <1>14, <1>15 DEF CInv

(***************************************************************************)
(* The invariant and the properties                                        *)
(***************************************************************************)
\* The console starts with an empty buffer and nobody in it.
LEMMA InitCInv ==
    ASSUME Init
    PROVE  CInv
<1>1. UINT \in Nat /\ INPUT_BUF \in Nat /\ INPUT_BUF > 0 /\ UINT > INPUT_BUF /\ 0 \in Index
    BY ConsoleAssumption DEF Index
<1>2. minus(0, 0) = 0
    BY <1>1, Minus
<1>3. TypeOK
    BY <1>1 DEF Init, TypeOK, Letters
<1>4. Ordered /\ FullIsFinished /\ Editing
    BY <1>1, <1>2 DEF Init, Ordered, FullIsFinished, Editing
<1>5. ConsHeld
    BY DEF Init, ConsHeld, InCons
<1>6. GoesToSleep /\ ReaderWaits
    BY DEF Init, GoesToSleep, ReaderWaits
<1> QED BY <1>3, <1>4, <1>5, <1>6 DEF CInv

\* A key that is dropped, and stuttering.
LEMMA StutterStep ==
    ASSUME CInv, UNCHANGED <<buf, r, w, e, cons, pc>>
    PROVE  CInv'
<1>1. ConsHeld'
    BY DEF CInv, ConsHeld, InCons
<1>2. pc' \in [Actors -> {"out", "getc", "wakeup", "procdump", "lock", "read", "sleep",
                          "asleep", "write", "heading", "rows", "cps_done"}]
    BY DEF CInv, TypeOK
<1> QED BY <1>1, <1>2, WaitersStep

\* Every step keeps the invariant.
LEMMA NextCInv ==
    ASSUME CInv, [Next]_vars
    PROVE  CInv'
<1>1. CASE UNCHANGED vars
    BY <1>1, StutterStep DEF vars
<1>2. CASE consoleintr \/ intr_done \/ procdump
    BY <1>2, HandlerStep
<1>3. CASE intr_wakeup
    BY <1>3, WakeupStep
<1>4. ASSUME NEW k \in Keys, getc(k) PROVE CInv'
    <2>1. CASE control(k)
        BY <1>4, <2>1, EraseStep
    <2>2. CASE store(k) /\ Stored(k)
        BY <1>4, <2>2, StoreStep
    <2>3. CASE store(k) /\ ~Stored(k)
        BY <1>4, <2>3, StutterStep DEF getc, store
    <2> QED BY <1>4, <2>1, <2>2, <2>3 DEF getc
<1>5. ASSUME NEW p \in Readers, read_char(p) PROVE CInv'
    BY <1>5, ReadCharStep
<1>6. ASSUME NEW p \in Readers,
             \/ \E n \in 0..MaxN : read(p, n)
             \/ read_lock(p) \/ read_wait(p) \/ sleep(p) \/ read_done(p)
      PROVE  CInv'
    BY <1>6, ReadStep
<1>7. CASE \/ \E p \in Readers : kill(p)
           \/ \E p \in Writers : consolewrite(p)
           \/ \E p \in Listers : cps(p)
    BY <1>7, OtherStep
<1> QED BY <1>1, <1>2, <1>3, <1>4, <1>5, <1>6, <1>7, ZenonT(60) DEF Next, intr, consoleread

\* CInv holds in every reachable state of the console.
THEOREM ConsoleInvariance == Spec => []CInv
<1>1. Init => CInv
    BY InitCInv
<1>2. CInv /\ [Next]_vars => CInv'
    BY NextCInv
<1> QED BY <1>1, <1>2, PTL DEF Spec

\* consoleintr() never lets the buffer fill up with a line that is not
\* finished, which no key and no reader could get out of.
THEOREM ConsoleNeverStuck == Spec => []FullIsFinished
<1>1. CInv => FullIsFinished
    BY DEF CInv
<1> QED BY <1>1, ConsoleInvariance, PTL

\* No reader sleeps in consoleread() while there is something to read, unless
\* the handler is about to wake it.
THEOREM ConsoleReaderWoken == Spec => []ReaderWaits
<1>1. CInv => ReaderWaits
    BY DEF CInv
<1> QED BY <1>1, ConsoleInvariance, PTL

(***************************************************************************)
(* The buffer implements Tty                                               *)
(***************************************************************************)
Chars == Letters \cup Ends
Queue == Slice(r, w)
Line == Slice(w, e)

\* n characters are a sequence.
LEMMA CharsSequence ==
    ASSUME NEW n \in Nat, NEW s \in [1..n -> Chars]
    PROVE  s \in Seq(Chars) /\ Len(s) = n
<1>1. s \in Seq(Chars)
    BY SeqDef
<1> QED BY <1>1, LenProperties

\* A character is added at the end of the others.
LEMMA AddedChar ==
    ASSUME NEW n \in Nat, NEW s \in Seq(Chars), Len(s) = n, NEW c \in Chars
    PROVE  /\ Append(s, c) \in Seq(Chars) /\ Len(Append(s, c)) = n + 1
           /\ \A j \in 1..n : Append(s, c)[j] = s[j]
           /\ Append(s, c)[n + 1] = c
BY AppendProperties, SMTT(60)

\* Sequences of the same characters are the same.
LEMMA SameChars ==
    ASSUME NEW n \in Nat, NEW s \in Seq(Chars), NEW t \in Seq(Chars),
           Len(s) = n, Len(t) = n, \A j \in 1..n : s[j] = t[j]
    PROVE  s = t
BY SeqEqual, ZenonT(60)

\* What is between two indices is in cells of the buffer.
LEMMA SliceCells ==
    ASSUME NEW x \in Index, NEW y \in Index, NEW b \in [0..INPUT_BUF - 1 -> Chars],
           NEW k \in 1..minus(y, x)
    PROVE  b[cell(plus(x, k - 1))] \in Chars
<1>1. minus(y, x) \in Index /\ UINT \in Nat
    BY Minus, ConsoleAssumption
<1>2. k - 1 \in Index
    BY <1>1 DEF Index
<1>3. cell(plus(x, k - 1)) \in 0..INPUT_BUF - 1
    BY <1>2, PlusCell
<1> QED BY <1>3

\* The finished characters and the line, before a step and after it.
LEMMA SliceSequences ==
    ASSUME CInv
    PROVE  /\ Queue \in Seq(Chars) /\ Len(Queue) = minus(w, r)
           /\ \A k \in 1..minus(w, r) : Queue[k] = buf[cell(plus(r, k - 1))]
           /\ Line \in Seq(Chars) /\ Len(Line) = minus(e, w)
           /\ \A k \in 1..minus(e, w) : Line[k] = buf[cell(plus(w, k - 1))]
<1>1. /\ buf \in [0..INPUT_BUF - 1 -> Chars]
      /\ r \in Index /\ w \in Index /\ e \in Index
      /\ minus(w, r) \in Nat /\ minus(e, w) \in Nat
    BY Distances DEF CInv, TypeOK, Chars
<1>2. Queue \in [1..minus(w, r) -> Chars]
    <2>1. \A k \in 1..minus(w, r) : buf[cell(plus(r, k - 1))] \in Chars
        BY <1>1, SliceCells, ZenonT(60)
    <2> QED BY <2>1 DEF Queue, Slice
<1>3. Line \in [1..minus(e, w) -> Chars]
    <2>1. \A k \in 1..minus(e, w) : buf[cell(plus(w, k - 1))] \in Chars
        BY <1>1, SliceCells, ZenonT(60)
    <2> QED BY <2>1 DEF Line, Slice
<1>4. /\ Queue \in Seq(Chars) /\ Len(Queue) = minus(w, r)
      /\ Line \in Seq(Chars) /\ Len(Line) = minus(e, w)
    BY <1>1, <1>2, <1>3, CharsSequence, SMTT(60)
<1> QED BY <1>4, ZenonT(60) DEF Queue, Line, Slice

\* The same of the state after a step.
LEMMA SliceSequencesNext ==
    ASSUME CInv'
    PROVE  /\ Queue' \in Seq(Chars) /\ Len(Queue') = minus(w', r')
           /\ \A k \in 1..minus(w', r') : Queue'[k] = buf'[cell(plus(r', k - 1))]
           /\ Line' \in Seq(Chars) /\ Len(Line') = minus(e', w')
           /\ \A k \in 1..minus(e', w') : Line'[k] = buf'[cell(plus(w', k - 1))]
<1>1. /\ buf' \in [0..INPUT_BUF - 1 -> Chars]
      /\ r' \in Index /\ w' \in Index /\ e' \in Index
    BY DEF CInv, TypeOK, Chars, Index
<1>2. minus(w', r') \in Nat /\ minus(e', w') \in Nat
    <2>1. minus(w', r') \in Index /\ minus(e', w') \in Index
        BY <1>1, Minus
    <2> QED BY <2>1, ConsoleAssumption DEF Index
<1>3. Queue' \in [1..minus(w', r') -> Chars]
    <2>1. \A k \in 1..minus(w', r') : buf'[cell(plus(r', k - 1))] \in Chars
        BY <1>1, SliceCells, ZenonT(60)
    <2> QED BY <2>1 DEF Queue, Slice, minus, plus, cell
<1>4. Line' \in [1..minus(e', w') -> Chars]
    <2>1. \A k \in 1..minus(e', w') : buf'[cell(plus(w', k - 1))] \in Chars
        BY <1>1, SliceCells, ZenonT(60)
    <2> QED BY <2>1 DEF Line, Slice, minus, plus, cell
<1>5. /\ Queue' \in Seq(Chars) /\ Len(Queue') = minus(w', r')
      /\ Line' \in Seq(Chars) /\ Len(Line') = minus(e', w')
    BY <1>2, <1>3, <1>4, CharsSequence
<1> QED BY <1>5, ZenonT(60) DEF Queue, Line, Slice, minus, plus, cell

\* Counting cells from one index or from another before it.
LEMMA Through ==
    ASSUME NEW x \in Index, NEW y \in Index, NEW i \in Nat, minus(y, x) + i < UINT
    PROVE  plus(y, i) = plus(x, minus(y, x) + i)
<1> DEFINE d == minus(y, x)
<1>1. /\ d \in Index
      /\ x <= y => d = y - x
      /\ x > y => d = y - x + UINT
    BY Minus
<1> HIDE DEF d
<1>2. UINT \in Nat /\ d + i \in Index /\ i \in Index
    BY <1>1, ConsoleAssumption DEF Index, d
<1>3. /\ y + i < UINT => plus(y, i) = y + i
      /\ y + i >= UINT => plus(y, i) = y + i - UINT
      /\ x + (d + i) < UINT => plus(x, d + i) = x + (d + i)
      /\ x + (d + i) >= UINT => plus(x, d + i) = x + (d + i) - UINT
    BY <1>2, Plus, ZenonT(60)
<1>4. plus(y, i) = plus(x, d + i)
    BY <1>1, <1>2, <1>3 DEF Index
<1> QED BY <1>4 DEF d

\* A reader takes the first of the finished characters.
LEMMA DeliverRefines ==
    ASSUME CInv, CInv', NEW p \in Readers, read_char(p)
    PROVE  L!Next \/ UNCHANGED L!vars
<1>1. /\ r # w /\ UNCHANGED <<buf, w, e>>
      /\ r' = r \/ r' = plus(r, 1)
    BY DEF read_char
<1>2. /\ r \in Index /\ w \in Index /\ e \in Index /\ UINT \in Nat /\ 1 \in Index
      /\ minus(w, r) \in Nat
    BY Distances
<1>3. Line' = Line
    BY <1>1 DEF Line, Slice, minus, plus, cell
<1>4. CASE r' = r
    <2>1. Queue' = Queue
        BY <1>1, <1>4 DEF Queue, Slice, minus, plus, cell
    <2> QED BY <1>3, <2>1 DEF L!vars, Queue, Line
<1>5. CASE r' = plus(r, 1)
    <2>1. /\ Queue \in Seq(Chars) /\ Len(Queue) = minus(w, r)
          /\ \A k \in 1..minus(w, r) : Queue[k] = buf[cell(plus(r, k - 1))]
        BY SliceSequences
    <2>2. /\ Queue' \in Seq(Chars) /\ Len(Queue') = minus(w, r) - 1
          /\ \A k \in 1..minus(w, r) - 1 : Queue'[k] = buf[cell(plus(plus(r, 1), k - 1))]
        <3>1. minus(w', r') = minus(w, r) - 1
            BY <1>1, <1>2, <1>5, NextIndex
        <3> QED BY <1>1, <1>5, <3>1, SliceSequencesNext
    <2>3. minus(w, r) # 0
        BY <1>1, <1>2, Minus
    <2>4. Queue # <<>>
        BY <1>2, <2>1, <2>3, EmptySeq
    <2> DEFINE rest == Tail(Queue)
    <2>5. /\ rest \in Seq(Chars) /\ Len(rest) = minus(w, r) - 1
          /\ \A k \in 1..minus(w, r) - 1 : rest[k] = Queue[k + 1]
        BY <2>1, <2>4, HeadTailProperties
    <2> HIDE DEF rest
    <2>6. ASSUME NEW k \in 1..minus(w, r) - 1 PROVE Queue'[k] = rest[k]
        <3>1. k + 1 \in 1..minus(w, r) /\ k - 1 \in Nat /\ (k + 1) - 1 = k /\ 1 + (k - 1) = k
            BY <1>2
        <3>2. minus(plus(r, 1), r) = 1 /\ plus(r, 1) \in Index
            BY <1>2, Plus
        <3>3. minus(w, r) \in Index
            BY <1>2, Minus
        <3>4. 1 + (k - 1) < UINT
            BY <1>2, <3>1, <3>3 DEF Index
        <3>5. plus(plus(r, 1), k - 1) = plus(r, k)
            BY <1>2, <3>1, <3>2, <3>4, Through, SMTT(60)
        <3>6. Queue[k + 1] = buf[cell(plus(r, k))]
            BY <2>1, <3>1
        <3> QED BY <2>2, <2>5, <3>5, <3>6
    <2>7. Queue' = rest
        BY <2>2, <2>5, <2>6, SeqEqual
    <2>8. L!Deliver
        BY <1>3, <2>4, <2>7 DEF L!Deliver, Queue, Line, rest
    <2> QED BY <2>8 DEF L!Next
<1> QED BY <1>1, <1>4, <1>5, SMTT(60)

\* Backspace erases the last character of the line, kill line all of it.
LEMMA EraseRefines ==
    ASSUME CInv, CInv', NEW k \in Keys, getc(k), control(k)
    PROVE  L!Next \/ UNCHANGED L!vars
<1>1. UNCHANGED <<buf, r, w>>
    BY DEF getc, control
<1>2. r \in Index /\ w \in Index /\ e \in Index /\ minus(e, w) \in Nat
    BY Distances
<1>3. Queue' = Queue
    BY <1>1 DEF Queue, Slice, minus, plus, cell
<1>4. /\ Line \in Seq(Chars) /\ Len(Line) = minus(e, w)
      /\ \A j \in 1..minus(e, w) : Line[j] = buf[cell(plus(w, j - 1))]
    BY SliceSequences
<1>5. /\ Line' \in Seq(Chars) /\ Len(Line') = minus(e', w)
      /\ \A j \in 1..minus(e', w) : Line'[j] = buf[cell(plus(w, j - 1))]
    BY <1>1, SliceSequencesNext
<1>6. CASE e' = e
    <2>1. Line' = Line
        BY <1>1, <1>6 DEF Line, Slice, minus, plus, cell
    <2> QED BY <1>3, <2>1 DEF L!vars, Queue, Line
<1>7. CASE e' = minus(e, Erased)
    <2>1. minus(e, w) \in 0..minus(e, w)
        BY <1>2
    <2>2. minus(e', w) = 0
        BY <1>2, <1>7, <2>1, ErasedAll, BackIndex
    <2>3. Line' = <<>>
        BY <1>5, <2>2, EmptySeq
    <2>4. L!KillLine
        BY <1>3, <2>3 DEF L!KillLine, Queue, Line
    <2> QED BY <2>4 DEF L!Next
<1>8. CASE e' = minus(e, 1) /\ e # w
    <2>1. minus(e, w) # 0
        BY <1>2, <1>8, Minus
    <2>2. 1 \in 0..minus(e, w)
        BY <1>2, <2>1
    <2>3. minus(e', w) = minus(e, w) - 1
        BY <1>2, <1>8, <2>2, BackIndex
    <2>4. Line # <<>>
        BY <1>4, <2>1, EmptySeq
    <2> DEFINE front == SubSeq(Line, 1, Len(Line) - 1)
    <2>5. /\ front \in Seq(Chars) /\ Len(front) = minus(e, w) - 1
          /\ \A j \in 1..minus(e, w) - 1 : front[j] = Line[j]
        <3>1. \A j \in 1..Len(Line) - 1 : Line[j] \in Chars
            BY <1>2, <1>4, ElementOfSeq
        <3>2. Len(Line) - 1 \in Int /\ Len(Line) - 1 \in Nat
            BY <1>2, <1>4, <2>1, SMTT(60)
        <3> QED BY <1>4, <3>1, <3>2, SubSeqProperties, SMTT(60)
    <2> HIDE DEF front
    <2>6. ASSUME NEW j \in 1..minus(e, w) - 1 PROVE Line'[j] = front[j]
        <3>1. j \in 1..minus(e, w)
            BY <1>2, SMTT(60)
        <3> QED BY <1>4, <1>5, <2>3, <2>5, <3>1, SMTT(60)
    <2>7. Line' = front
        BY <1>5, <2>3, <2>5, <2>6, SeqEqual, SMTT(60)
    <2>8. L!Erase
        BY <1>3, <2>4, <2>7 DEF L!Erase, Queue, Line, front
    <2> QED BY <2>8 DEF L!Next
<1> QED BY <1>6, <1>7, <1>8 DEF control, erase

\* A key that is stored leaves what was typed before it as it is and is the
\* last character before e.
LEMMA StoredCells ==
    ASSUME CInv, NEW k \in Keys, getc(k), store(k), Stored(k)
    PROVE  /\ \A j \in 1..minus(w, r) : buf'[cell(plus(r, j - 1))] = Queue[j]
           /\ \A j \in 1..minus(e, w) : buf'[cell(plus(w, j - 1))] = Line[j]
           /\ buf'[cell(plus(w, minus(e, w)))] = k
<1>1. buf' = [buf EXCEPT ![cell(e)] = k] /\ cell(e) \in 0..INPUT_BUF - 1
    BY StoreIndices
<1>2. /\ r \in Index /\ w \in Index /\ e \in Index
      /\ minus(w, r) \in Nat /\ minus(e, w) \in Nat /\ minus(e, r) \in Nat
      /\ minus(w, r) + minus(e, w) = minus(e, r) /\ INPUT_BUF \in Nat
    BY Distances
<1>3. minus(e, r) < INPUT_BUF /\ minus(e, w) < INPUT_BUF
    BY <1>2 DEF Stored
<1>4. ASSUME NEW j \in 1..minus(w, r) PROVE buf'[cell(plus(r, j - 1))] = Queue[j]
    <2>1. j - 1 \in 0..minus(e, r) - 1
        BY <1>2
    <2>2. cell(plus(r, j - 1)) # cell(e) /\ cell(plus(r, j - 1)) \in 0..INPUT_BUF - 1
        BY <1>2, <1>3, <2>1, FreshCell, SMTT(60)
    <2>3. Queue[j] = buf[cell(plus(r, j - 1))]
        BY SliceSequences
    <2> QED BY <1>1, <2>2, <2>3 DEF CInv, TypeOK
<1>5. ASSUME NEW j \in 1..minus(e, w) PROVE buf'[cell(plus(w, j - 1))] = Line[j]
    <2>1. j - 1 \in 0..minus(e, w) - 1
        BY <1>2, SMTT(60)
    <2>2. cell(plus(w, j - 1)) # cell(e) /\ cell(plus(w, j - 1)) \in 0..INPUT_BUF - 1
        BY <1>2, <1>3, <2>1, FreshCell, SMTT(60)
    <2>3. Line[j] = buf[cell(plus(w, j - 1))]
        BY SliceSequences
    <2> QED BY <1>1, <2>2, <2>3 DEF CInv, TypeOK
<1>6. buf'[cell(e)] = k /\ e = plus(w, minus(e, w))
    BY <1>1, <1>2, AheadCell DEF CInv, TypeOK
<1> QED BY <1>4, <1>5, <1>6, SMTT(60)

\* A key becomes the last character of the line, and finishes it when it is
\* an end key or takes the last room.
LEMMA StoreRefines ==
    ASSUME CInv, CInv', NEW k \in Keys, getc(k), store(k), Stored(k)
    PROVE  L!Next
<1>1. /\ r' = r /\ k \in Chars
      /\ minus(e', r) = minus(e, r) + 1
      /\ minus(e', w) = minus(e, w) + 1
      /\ Finished(k, e') <=> k \in Ends \/ minus(e, r) + 1 = INPUT_BUF
      /\ w' = IF Finished(k, e') THEN e' ELSE w
      /\ e' \in Index
    BY StoreIndices DEF Chars
<1>2. /\ r \in Index /\ w \in Index /\ e \in Index /\ UINT \in Nat /\ UINT > INPUT_BUF
      /\ minus(w, r) \in Nat /\ minus(e, w) \in Nat /\ minus(e, r) \in Nat
      /\ minus(w, r) + minus(e, w) = minus(e, r) /\ INPUT_BUF \in Nat
    BY Distances
<1>3. minus(e, r) < INPUT_BUF
    BY DEF Stored
<1>4. /\ Queue \in Seq(Chars) /\ Len(Queue) = minus(w, r)
      /\ Line \in Seq(Chars) /\ Len(Line) = minus(e, w)
    BY SliceSequences, SMTT(60)
<1>5. /\ \A j \in 1..minus(w, r) : buf'[cell(plus(r, j - 1))] = Queue[j]
      /\ \A j \in 1..minus(e, w) : buf'[cell(plus(w, j - 1))] = Line[j]
      /\ buf'[cell(plus(w, minus(e, w)))] = k
    BY StoredCells
<1>6. L!Room = INPUT_BUF - minus(e, r)
    <2>1. L!Room = INPUT_BUF - Len(Queue) - Len(Line)
        BY SMTT(60) DEF L!Room, Queue, Line
    <2> QED BY <1>2, <1>4, <2>1, SMTT(60)
<1> DEFINE typed == Append(Line, k)
<1>7. /\ typed \in Seq(Chars) /\ Len(typed) = minus(e, w) + 1
      /\ \A j \in 1..minus(e, w) : typed[j] = Line[j]
      /\ typed[minus(e, w) + 1] = k
    BY <1>1, <1>2, <1>4, AddedChar, ZenonT(60)
<1> HIDE DEF typed
<1>8. ASSUME NEW j \in 1..minus(e, w) + 1 PROVE buf'[cell(plus(w, j - 1))] = typed[j]
    <2>1. CASE j = minus(e, w) + 1
        <3>1. j - 1 = minus(e, w)
            BY <1>2, <2>1, SMTT(60)
        <3> QED BY <1>5, <1>7, <2>1, <3>1
    <2>2. CASE j # minus(e, w) + 1
        <3>1. j \in 1..minus(e, w)
            BY <1>2, <2>2
        <3> QED BY <1>5, <1>7, <3>1
    <2> QED BY <2>1, <2>2, SMTT(60)
<1>9. CASE ~Finished(k, e')
    <2>1. k \notin Ends /\ L!Room > 1 /\ w' = w
        BY <1>1, <1>2, <1>3, <1>6, <1>9, SMTT(60)
    <2>2. /\ Line' \in Seq(Chars) /\ Len(Line') = minus(e, w) + 1
          /\ \A j \in 1..minus(e, w) + 1 : Line'[j] = buf'[cell(plus(w, j - 1))]
        BY <1>1, <2>1, SliceSequencesNext
    <2>3. Line' = typed
        <3>1. minus(e, w) + 1 \in Nat
            BY <1>2
        <3>2. ASSUME NEW j \in 1..minus(e, w) + 1 PROVE Line'[j] = typed[j]
            BY <1>8, <2>2, ZenonT(60)
        <3> QED BY <1>7, <2>2, <3>1, <3>2, SameChars, ZenonT(60)
    <2>4. Queue' = Queue
        <3>1. /\ Queue' \in Seq(Chars) /\ Len(Queue') = minus(w, r)
              /\ \A j \in 1..minus(w, r) : Queue'[j] = buf'[cell(plus(r, j - 1))]
            BY <1>1, <2>1, SliceSequencesNext
        <3>2. ASSUME NEW j \in 1..minus(w, r) PROVE Queue'[j] = Queue[j]
            BY <1>5, <3>1, ZenonT(60)
        <3>3. minus(w, r) \in Nat
            BY <1>2
        <3> QED BY <1>4, <3>1, <3>2, <3>3, SameChars, ZenonT(60)
    <2>5. L!Type(k)
        BY <2>1, <2>3, <2>4 DEF L!Type, Queue, Line, typed
    <2> QED BY <2>5 DEF L!Next
<1>10. CASE Finished(k, e')
    <2>1. (k \in Ends \/ L!Room = 1) /\ L!Room > 0 /\ w' = e'
        BY <1>1, <1>2, <1>3, <1>6, <1>10, SMTT(60)
    <2>2. Line' = <<>>
        <3>1. minus(e', w') = 0
            BY <1>1, <2>1, Minus
        <3> QED BY <3>1, SliceSequencesNext, EmptySeq
    <2>3. /\ Queue' \in Seq(Chars) /\ Len(Queue') = minus(e, r) + 1
          /\ \A j \in 1..minus(e, r) + 1 : Queue'[j] = buf'[cell(plus(r, j - 1))]
        BY <1>1, <2>1, SliceSequencesNext, ZenonT(60)
    <2> DEFINE all == Queue \o typed
    <2>4. /\ all \in Seq(Chars) /\ Len(all) = minus(e, r) + 1
          /\ \A j \in 1..minus(e, r) + 1 :
                all[j] = IF j <= minus(w, r) THEN Queue[j] ELSE typed[j - minus(w, r)]
        <3>1. Len(Queue) + Len(typed) = minus(e, r) + 1
            BY <1>2, <1>4, <1>7
        <3>2. /\ all \in Seq(Chars) /\ Len(all) = Len(Queue) + Len(typed)
              /\ \A j \in 1..Len(Queue) + Len(typed) :
                    all[j] = IF j <= Len(Queue) THEN Queue[j] ELSE typed[j - Len(Queue)]
            BY <1>4, <1>7, ConcatProperties, ZenonT(60)
        <3> HIDE DEF all
        <3> QED BY <1>4, <3>1, <3>2
    <2> HIDE DEF all
    <2>5. ASSUME NEW j \in 1..minus(e, r) + 1 PROVE Queue'[j] = all[j]
        <3>1. CASE j <= minus(w, r)
            <4>1. j \in 1..minus(w, r)
                BY <1>2, <3>1, SMTT(60)
            <4> QED BY <1>5, <2>3, <2>4, <3>1, <4>1
        <3>2. CASE j > minus(w, r)
            <4>1. /\ j - minus(w, r) \in 1..minus(e, w) + 1
                  /\ (j - minus(w, r)) - 1 \in Nat
                  /\ minus(w, r) + ((j - minus(w, r)) - 1) = j - 1
                  /\ j - 1 < UINT /\ ~(j <= minus(w, r))
                BY <1>2, <1>3, <3>2, SMTT(60)
            <4>2. plus(w, (j - minus(w, r)) - 1) = plus(r, j - 1)
                BY <1>2, <4>1, Through, SMTT(60)
            <4> QED BY <1>8, <2>3, <2>4, <4>1, <4>2
        <3> QED BY <1>2, <3>1, <3>2, SMTT(60)
    <2>6. Queue' = all
        BY <2>3, <2>4, <2>5, SeqEqual
    <2>7. L!Finish(k)
        BY <2>1, <2>2, <2>6 DEF L!Finish, Queue, Line, typed, all
    <2> QED BY <2>7 DEF L!Next
<1> QED BY <1>9, <1>10, SMTT(60)

\* The other steps change nothing that Tty describes.
LEMMA OthersStutter ==
    ASSUME UNCHANGED <<buf, r, w, e>>
    PROVE  UNCHANGED L!vars
<1>1. Queue' = Queue /\ Line' = Line
    BY DEF Queue, Line, Slice, minus, plus, cell
<1> QED BY <1>1 DEF L!vars, Queue, Line

\* The buffer of console.c delivers what is typed in order and once: a line
\* can be edited until it is finished, and no longer.
THEOREM ConsoleIsTty == Spec => Lines
<1>1. Init => L!Init
    <2> SUFFICES ASSUME Init PROVE L!Init
        OBVIOUS
    <2>1. CInv
        BY InitCInv
    <2>2. w \in Index /\ r \in Index /\ e \in Index /\ r = w /\ w = e
        BY <2>1, Distances DEF Init
    <2>3. minus(w, r) = 0 /\ minus(e, w) = 0
        BY <2>2, Minus
    <2>4. Queue = <<>> /\ Line = <<>>
        BY <2>1, <2>3, SliceSequences, EmptySeq
    <2> QED BY <2>4 DEF L!Init, Queue, Line
<1>2. CInv /\ CInv' /\ [Next]_vars => [L!Next]_L!vars
    <2> SUFFICES ASSUME CInv, CInv', [Next]_vars PROVE L!Next \/ UNCHANGED L!vars
        OBVIOUS
    <2>1. CASE UNCHANGED vars
        BY <2>1, OthersStutter DEF vars
    <2>2. CASE consoleintr \/ intr_done \/ procdump \/ intr_wakeup
        BY <2>2, OthersStutter DEF consoleintr, intr_done, procdump, intr_wakeup, input
    <2>3. ASSUME NEW k \in Keys, getc(k) PROVE L!Next \/ UNCHANGED L!vars
        <3>1. CASE control(k)
            BY <2>3, <3>1, EraseRefines
        <3>2. CASE store(k) /\ Stored(k)
            BY <2>3, <3>2, StoreRefines
        <3>3. CASE store(k) /\ ~Stored(k)
            BY <2>3, <3>3, OthersStutter DEF getc, store
        <3> QED BY <2>3, <3>1, <3>2, <3>3 DEF getc
    <2>4. ASSUME NEW p \in Readers, read_char(p) PROVE L!Next \/ UNCHANGED L!vars
        BY <2>4, DeliverRefines, SMTT(60)
    <2>5. ASSUME NEW p \in Readers,
                 \/ \E n \in 0..MaxN : read(p, n)
                 \/ read_lock(p) \/ read_wait(p) \/ sleep(p) \/ read_done(p)
                 \/ kill(p)
          PROVE  L!Next \/ UNCHANGED L!vars
        BY <2>5, OthersStutter DEF read, read_lock, read_wait, sleep, read_done, kill, input
    <2>6. CASE (\E p \in Writers : consolewrite(p)) \/ \E p \in Listers : cps(p)
        BY <2>6, OthersStutter DEF consolewrite, cps, input
    <2> QED BY <2>1, <2>2, <2>3, <2>4, <2>5, <2>6, ZenonT(60) DEF Next, intr, consoleread
<1> QED BY <1>1, <1>2, ConsoleInvariance, PTL DEF Spec, Lines, L!Spec
============================================================================
