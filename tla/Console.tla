------------------------------ MODULE Console ------------------------------
(***************************************************************************)
(* The console of console.c and the locks it shares with proc.c.           *)
(*                                                                         *)
(* The keyboard interrupt handler, readers, writers and callers of cps()   *)
(* run on different CPUs.  cons.lock and ptable.lock are modelled as       *)
(* spinlocks because they nest: consoleintr() and consoleread() acquire    *)
(* ptable.lock (in wakeup() and sleep()) while they hold cons.lock, and    *)
(* cps() calls cprintf(), which acquires cons.lock, while it holds         *)
(* ptable.lock.  An actor whose next step needs a lock that is held spins. *)
(***************************************************************************)
EXTENDS Integers, Sequences

CONSTANTS
    Readers, Writers,   \* processes in consoleread() and in consolewrite()
    Listers,            \* processes that call cps()
    kbd,                \* the interrupt handler
    NoOne,              \* a lock is not held
    Keys,               \* what can be typed
    INPUT_BUF,
    UINT,               \* the values of a uint: r, w and e wrap around here
    MaxN                \* longest read

Letters == {"a", "b", "nul"}            \* stored as they are, but for "nul"
Controls == {"^P", "^U", "^H"}
Ends == {"nl", "^D"}

Actors == Readers \cup Writers \cup Listers \cup {kbd}

ASSUME ConsoleAssumption ==
    /\ Keys \subseteq Letters \cup Controls \cup Ends
    /\ INPUT_BUF \in Nat \ {0}
    /\ UINT \in Nat
    /\ UINT > INPUT_BUF
    /\ UINT % INPUT_BUF = 0
    /\ MaxN \in Nat \ {0}
    /\ kbd \notin Readers \cup Writers \cup Listers
    /\ NoOne \notin Actors

VARIABLES
    buf, r, w, e,   \* input
    cons, ptable,   \* the holders of cons.lock and ptable.lock
    dump,           \* doprocdump
    pc,             \* where each actor is
    left, target,   \* n and target of each consoleread()
    killed

input == <<buf, r, w, e>>
vars == <<buf, r, w, e, cons, ptable, dump, pc, left, target, killed>>

Init ==
    /\ buf = [i \in 0..INPUT_BUF - 1 |-> "nul"]
    /\ r = 0 /\ w = 0 /\ e = 0
    /\ cons = NoOne /\ ptable = NoOne
    /\ dump = FALSE
    /\ pc = [a \in Actors |-> "out"]
    /\ left = [p \in Readers |-> 0]
    /\ target = [p \in Readers |-> 0]
    /\ killed = [p \in Readers |-> FALSE]

\* Unsigned arithmetic on the indices, and the cell an index names.
plus(x, m) == (x + m) % UINT
minus(x, y) == (x - y) % UINT
cell(x) == x % INPUT_BUF

goto(a, l) == pc' = [pc EXCEPT ![a] = l]

\* acquire(&cons.lock)
lock_cons(a) == cons = NoOne /\ cons' = a

\* cprintf() when locking is on: it acquires and releases cons.lock.
cprintf == cons = NoOne

\* wakeup(&input.r), under ptable.lock: who sleeps has to acquire cons.lock again.
wakeup_none(f) == f
wakeup(f) == [a \in Actors |-> IF f[a] = "asleep" THEN "lock" ELSE f[a]]

(***************************************************************************)
(* consoleintr()                                                           *)
(***************************************************************************)
consoleintr ==
    /\ pc[kbd] = "out"
    /\ lock_cons(kbd)
    /\ goto(kbd, "getc")
    /\ UNCHANGED <<input, ptable, dump, left, target, killed>>

\* How far kill line goes back: to the end of the previous line, or to w.
Erased ==
    CHOOSE k \in 0..minus(e, w) :
        /\ k = minus(e, w) \/ buf[cell(minus(e, k + 1))] = "nl"
        /\ \A i \in 0..k - 1 : buf[cell(minus(e, i + 1))] # "nl"

erase_any == e # r
erase == e # w

control(k) ==
    /\ k \in Controls
    /\ \/ k = "^P" /\ dump' = TRUE /\ UNCHANGED e
       \/ k = "^U" /\ e' = minus(e, Erased) /\ UNCHANGED dump
       \/ k = "^H" /\ e' = (IF erase THEN minus(e, 1) ELSE e) /\ UNCHANGED dump
    /\ goto(kbd, "getc")
    /\ UNCHANGED <<buf, w>>

\* The line is finished: c == '\n' || c == C('D') || input.e == input.r+INPUT_BUF
Finished_key(k, x) == k \in Ends
Finished(k, x) == k \in Ends \/ x = plus(r, INPUT_BUF)

\* The default case; "nul" and whatever finds the buffer full is dropped.
Stored(k) == k # "nul" /\ minus(e, r) < INPUT_BUF

store(k) ==
    /\ k \notin Controls
    /\ IF Stored(k)
       THEN /\ buf' = [buf EXCEPT ![cell(e)] = k]
            /\ e' = plus(e, 1)
            /\ w' = IF Finished(k, e') THEN e' ELSE w
            /\ goto(kbd, IF Finished(k, e') THEN "wakeup" ELSE "getc")
       ELSE UNCHANGED <<buf, e, w, pc>>
    /\ UNCHANGED dump

getc(k) ==
    /\ pc[kbd] = "getc"
    /\ control(k) \/ store(k)
    /\ UNCHANGED <<r, cons, ptable, left, target, killed>>

intr_wakeup ==
    /\ pc[kbd] = "wakeup"
    /\ ptable = NoOne
    /\ pc' = wakeup([pc EXCEPT ![kbd] = "getc"])
    /\ UNCHANGED <<input, cons, ptable, dump, left, target, killed>>

\* The handler releases cons.lock before it calls procdump().
intr_done ==
    /\ pc[kbd] = "getc"
    /\ cons' = NoOne
    /\ goto(kbd, IF dump THEN "procdump" ELSE "out")
    /\ dump' = FALSE
    /\ UNCHANGED <<input, ptable, left, target, killed>>

\* Some lines of procdump(), which reads the table without ptable.lock.
procdump ==
    /\ pc[kbd] = "procdump"
    /\ cprintf
    /\ goto(kbd, "out")
    /\ UNCHANGED <<input, cons, ptable, dump, left, target, killed>>

(***************************************************************************)
(* consoleread()                                                           *)
(***************************************************************************)
read(p, n) ==
    /\ pc[p] = "out"
    /\ ~killed[p]
    /\ goto(p, "lock")
    /\ left' = [left EXCEPT ![p] = n]
    /\ target' = [target EXCEPT ![p] = n]
    /\ UNCHANGED <<input, cons, ptable, dump, killed>>

read_lock(p) ==
    /\ pc[p] = "lock"
    /\ lock_cons(p)
    /\ goto(p, "read")
    /\ UNCHANGED <<input, ptable, dump, left, target, killed>>

read_return(p) ==
    /\ cons' = NoOne
    /\ goto(p, "out")
    /\ left' = [left EXCEPT ![p] = 0]
    /\ target' = [target EXCEPT ![p] = 0]

\* while(input.r == input.w): give up if killed, else sleep().
read_wait(p) ==
    /\ pc[p] = "read"
    /\ left[p] > 0
    /\ r = w
    /\ \/ killed[p] /\ read_return(p)
       \/ ~killed[p] /\ goto(p, "sleep") /\ UNCHANGED <<cons, left, target>>
    /\ UNCHANGED <<input, ptable, dump, killed>>

\* sleep(&input.r, &cons.lock) acquires ptable.lock before it releases cons.lock;
\* the scheduler releases ptable.lock.
sleep(p) ==
    /\ pc[p] = "sleep"
    /\ ptable = NoOne
    /\ cons' = NoOne
    /\ goto(p, "asleep")
    /\ UNCHANGED <<input, ptable, dump, left, target, killed>>

\* One round of the copying loop.  A ^D after other characters is left for the
\* next read.
read_char(p) ==
    /\ pc[p] = "read"
    /\ left[p] > 0
    /\ r # w
    /\ LET c == buf[cell(r)]
       IN  IF c = "^D"
           THEN /\ r' = IF left[p] < target[p] THEN r ELSE plus(r, 1)
                /\ read_return(p)
           ELSE /\ r' = plus(r, 1)
                /\ IF c = "nl" THEN read_return(p)
                   ELSE left' = [left EXCEPT ![p] = @ - 1] /\ UNCHANGED <<cons, pc, target>>
    /\ UNCHANGED <<buf, w, e, ptable, dump, killed>>

read_done(p) ==
    /\ pc[p] = "read"
    /\ left[p] = 0
    /\ read_return(p)
    /\ UNCHANGED <<input, ptable, dump, killed>>

kill(p) ==
    /\ ~killed[p]
    /\ ptable = NoOne
    /\ killed' = [killed EXCEPT ![p] = TRUE]
    /\ pc' = [pc EXCEPT ![p] = IF @ = "asleep" THEN "lock" ELSE @]
    /\ UNCHANGED <<input, cons, ptable, dump, left, target>>

consoleread(p) ==
    \/ read_lock(p) \/ read_wait(p) \/ sleep(p) \/ read_char(p) \/ read_done(p)

(***************************************************************************)
(* consolewrite() and cps()                                                *)
(***************************************************************************)
consolewrite(p) ==
    /\ \/ pc[p] = "out" /\ lock_cons(p) /\ goto(p, "write")
       \/ pc[p] = "write" /\ cons' = NoOne /\ goto(p, "out")
    /\ UNCHANGED <<input, ptable, dump, left, target, killed>>

\* cps() prints its heading and a line for each process under ptable.lock.
cps(p) ==
    /\ \/ pc[p] = "out" /\ ptable = NoOne /\ ptable' = p /\ goto(p, "heading")
       \/ pc[p] = "heading" /\ cprintf /\ goto(p, "rows") /\ UNCHANGED ptable
       \/ pc[p] = "rows" /\ cprintf /\ goto(p, "cps_done") /\ UNCHANGED ptable
       \/ pc[p] = "cps_done" /\ ptable' = NoOne /\ goto(p, "out")
    /\ UNCHANGED <<input, cons, dump, left, target, killed>>

intr == (\E k \in Keys : getc(k)) \/ intr_wakeup \/ intr_done \/ procdump

Next ==
    \/ consoleintr \/ intr
    \/ \E p \in Readers : consoleread(p) \/ kill(p)
    \/ \E p \in Readers, n \in 0..MaxN : read(p, n)
    \/ \E p \in Writers : consolewrite(p)
    \/ \E p \in Listers : cps(p)

Spec == Init /\ [][Next]_vars

(***************************************************************************)
(* Properties                                                              *)
(***************************************************************************)
\* The three wrapping indices keep a queue of finished characters and a line
\* that is being edited: no key that consoleintr() accepted is lost, delivered
\* twice or delivered before its line is finished, and editing never reaches
\* back into what a reader may take.
Slice(from, to) == [k \in 1..minus(to, from) |-> buf[cell(plus(from, k - 1))]]

L == INSTANCE Tty WITH
        Capacity <- INPUT_BUF, queue <- Slice(r, w), line <- Slice(w, e)

Lines == L!Spec

\* A full buffer is a finished line: otherwise no key could finish it, because
\* consoleintr() drops them all, and no reader could make room.
FullIsFinished == minus(e, r) = INPUT_BUF => w = e

\* A reader asleep has nothing to read, unless the handler is about to call wakeup().
ReaderWaits ==
    \A p \in Readers : pc[p] = "asleep" => r = w \/ pc[kbd] = "wakeup"

(***************************************************************************)
(* The inductive invariant                                                 *)
(***************************************************************************)
TypeOK ==
    /\ buf \in [0..INPUT_BUF - 1 -> Letters \cup Ends]
    /\ r \in 0..UINT - 1 /\ w \in 0..UINT - 1 /\ e \in 0..UINT - 1
    /\ pc \in [Actors -> {"out", "getc", "wakeup", "procdump", "lock", "read", "sleep",
                          "asleep", "write", "heading", "rows", "cps_done"}]

\* Whoever is in a critical section of cons.lock holds it.
InCons(a) == pc[a] \in {"getc", "wakeup", "read", "sleep", "write"}
ConsHeld == \A a \in Actors : InCons(a) => cons = a

\* The indices are in the order r, w, e, at most a buffer apart.
Ordered ==
    /\ minus(w, r) + minus(e, w) = minus(e, r)
    /\ minus(e, r) <= INPUT_BUF

\* A line that is being edited has no end yet.
Editing == \A k \in 0..minus(e, w) - 1 : buf[cell(plus(w, k))] # "nl"

\* Who is about to sleep still holds cons.lock, so nothing has arrived.
GoesToSleep == \A p \in Readers : pc[p] = "sleep" => r = w

CInv ==
    /\ TypeOK /\ ConsHeld /\ Ordered /\ Editing
    /\ FullIsFinished /\ GoesToSleep /\ ReaderWaits
=============================================================================
