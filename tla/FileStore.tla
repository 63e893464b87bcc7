----------------------------- MODULE FileStore ------------------------------
(***************************************************************************)
(* What files promise: a file is a sequence of bytes, a write puts its     *)
(* bytes at the offset of the open file it goes through and moves the      *)
(* offset on, a piece at a time, and a crash goes back to an earlier       *)
(* moment, between two pieces, for all files at once.                      *)
(***************************************************************************)
EXTENDS Integers, Sequences

CONSTANTS Inums, Files, ip, Bytes, MaxSize

VARIABLES
    file,       \* the bytes of each file
    off,        \* the offset of each open file
    durable     \* the files that a crash goes back to

Init ==
    /\ file = [i \in Inums |-> <<>>]
    /\ off = [f \in Files |-> 0]
    /\ durable = file

\* Bytes n times b over s, from o on.
Put(s, o, b, n) ==
    [k \in 1..(IF o + n > Len(s) THEN o + n ELSE Len(s)) |-> IF o < k /\ k <= o + n THEN b ELSE s[k]]

Write(f, b, n) ==
    /\ off' = [off EXCEPT ![f] = @ + n]
    /\ off[f] <= Len(file[ip[f]])
    /\ file' = [file EXCEPT ![ip[f]] = Put(@, off[f], b, n)]
    /\ UNCHANGED durable

Read(f, n) ==
    /\ off' = [off EXCEPT ![f] = @ + n]
    /\ off'[f] <= Len(file[ip[f]])
    /\ UNCHANGED <<file, durable>>

Open(f) == off' = [off EXCEPT ![f] = 0] /\ UNCHANGED <<file, durable>>
Remove(i) ==
    /\ off' = [f \in Files |-> IF ip[f] = i THEN 0 ELSE off[f]]
    /\ file' = [file EXCEPT ![i] = <<>>]
    /\ UNCHANGED durable
Commit == UNCHANGED <<off, file>> /\ durable' = file
Crash == off' = [f \in Files |-> 0] /\ file' = durable /\ UNCHANGED durable

Next ==
    \/ \E f \in Files, b \in Bytes, n \in 1..MaxSize : Write(f, b, n)
    \/ \E f \in Files, n \in 1..MaxSize : Read(f, n)
    \/ \E f \in Files : Open(f)
    \/ \E i \in Inums : Remove(i)
    \/ Commit
    \/ Crash

Spec == Init /\ [][Next]_<<file, off, durable>>
=============================================================================
