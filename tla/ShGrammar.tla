----------------------------- MODULE ShGrammar ------------------------------
(***************************************************************************)
(* The commands of the shell by the precedence of their operators, as sets *)
(* of trees: a line is cut at its first ; outside parentheses, what is     *)
(* left has its & taken off the end and is cut at its first |.  The tokens *)
(* i..j of a line make no command when the set is empty.                   *)
(***************************************************************************)
EXTENDS Sh

Count(l, i, j, tok) == Cardinality({k \in i..j : l[k] = tok})
Outside(l, i, k) == Count(l, i, k - 1, "(") = Count(l, i, k - 1, ")")
Cuts(l, i, j, tok) == {k \in i..j : l[k] = tok /\ Outside(l, i, k)}

Operators(l, i, j) == {k \in i..j : l[k] \in Redirs}
Redirected(l, i, j) == \A k \in Operators(l, i, j) : k < j /\ l[k + 1] = "a"

\* The last redirection is the outermost.
RECURSIVE Wrapped(_, _, _)
Wrapped(cmd, l, ops) ==
    IF ops = {} THEN cmd
    ELSE LET k == CHOOSE x \in ops : \A y \in ops : y <= x
         IN  redircmd(Wrapped(cmd, l, ops \ {k}), k + 1, IF l[k] = "<" THEN 0 ELSE 1)

Words(l, i, j) ==
    LET Word(k) == l[k] = "a" /\ k - 1 \notin Operators(l, i, j)
    IN  SelectSeq([n \in 1..j - i + 1 |-> i + n - 1], Word)
Simple(l, i, j) ==
    IF /\ \A k \in i..j : l[k] \in Redirs \cup {"a"}
       /\ Redirected(l, i, j)
       /\ Len(Words(l, i, j)) < MAXARGS
    THEN {Wrapped(execcmd(Words(l, i, j)), l, Operators(l, i, j))}
    ELSE {}

RECURSIVE Line(_, _, _)
Closing(l, i, j) == {k \in i..j : Outside(l, i, k + 1) /\ \A x \in i..k - 1 : ~Outside(l, i, x + 1)}
OnlyRedirs(l, i, j) ==
    (j - i) % 2 = 1 /\ \A k \in i..j : l[k] \in IF (k - i) % 2 = 0 THEN Redirs ELSE {"a"}
Block(l, i, j) ==
    UNION {{Wrapped(c, l, Operators(l, k + 1, j)) : c \in Line(l, i + 1, k - 1)} :
           k \in {k \in Closing(l, i, j) : OnlyRedirs(l, k + 1, j)}}

Command(l, i, j) == IF i <= j /\ l[i] = "(" THEN Block(l, i, j) ELSE Simple(l, i, j)

RECURSIVE Pipeline(_, _, _)
Pipeline(l, i, j) ==
    LET bars == Cuts(l, i, j, "|")
        k    == Smallest(bars)
    IN  IF bars = {} THEN Command(l, i, j)
        ELSE {pipecmd(x[1], x[2]) : x \in Command(l, i, k - 1) \X Pipeline(l, k + 1, j)}

RECURSIVE Background(_, _, _)
Background(l, i, j) ==
    IF i <= j /\ l[j] = "&" THEN {backcmd(c) : c \in Background(l, i, j - 1)} ELSE Pipeline(l, i, j)

Line(l, i, j) ==
    LET semis == Cuts(l, i, j, ";")
        k     == Smallest(semis)
    IN  IF semis = {} THEN Background(l, i, j)
        ELSE {listcmd(x[1], x[2]) : x \in Background(l, i, k - 1) \X Line(l, k + 1, j)}

\* parsecmd() makes of every line the tree that the precedence of its operators
\* and its parentheses say, each word and each file in its place, and panics on
\* just the lines that are no command.
ParsesGrammar == sh = "got" => parsecmd(line) = Line(line, 1, Len(line))
=============================================================================
