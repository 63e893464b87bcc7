-------------------------------- MODULE Tty --------------------------------
(***************************************************************************)
(* What the console promises its readers: lines that can be edited until   *)
(* they are finished, and are delivered in order from then on.             *)
(***************************************************************************)
EXTENDS Naturals, Sequences

CONSTANTS
    Keys,       \* what is put into a line
    Ends,       \* the keys that finish a line
    Capacity

VARIABLES
    queue,      \* finished and not delivered yet
    line        \* being edited

vars == <<queue, line>>

Init == queue = <<>> /\ line = <<>>

Room == Capacity - Len(queue) - Len(line)

Type(k) ==
    /\ k \notin Ends
    /\ Room > 1
    /\ line' = Append(line, k)
    /\ UNCHANGED queue

\* A line ends with its end key, or when there is no room for more.
Finish(k) ==
    /\ k \in Ends \/ Room = 1
    /\ Room > 0
    /\ queue' = queue \o Append(line, k)
    /\ line' = <<>>

Erase ==
    /\ line # <<>>
    /\ line' = SubSeq(line, 1, Len(line) - 1)
    /\ UNCHANGED queue

KillLine ==
    /\ line' = <<>>
    /\ UNCHANGED queue

Deliver ==
    /\ queue # <<>>
    /\ queue' = Tail(queue)
    /\ UNCHANGED line

Next ==
    \/ \E k \in Keys : Type(k) \/ Finish(k)
    \/ Erase \/ KillLine \/ Deliver

Spec == Init /\ [][Next]_vars
=============================================================================
