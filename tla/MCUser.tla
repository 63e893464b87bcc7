------------------------------- MODULE MCUser -------------------------------
(***************************************************************************)
(* Two user programs for TLC: the shell, and a program that uses malloc()  *)
(* and free().  They do not interact; a behaviour is of one or the other.  *)
(***************************************************************************)
EXTENDS ShGrammar

CONSTANTS MinUnits, HeapMax, HeaderSize, Requests, MaxOwn
VARIABLES program, heap, brk, live, own

U == INSTANCE Umalloc
heapvars == <<heap, brk, live, own>>
allvars == <<vars, heapvars, program>>

\* All lines of up to four tokens that have at most one pipe, and some longer
\* ones: a background pipeline that feeds a pipe, a list whose output is
\* redirected, a list that feeds a pipe.  A second line finds what the first
\* one left in the background.
Tokens == {"a", "|", "<", ">", ";", "&", "(", ")"}
Short == {l \in UNION {[1..n -> Tokens] : n \in 0..4} : Cardinality({i \in DOMAIN l : l[i] = "|"}) <= 1}
Long == {<<"(", "a", "|", "a", "&", ")", "|", "a">>,
         <<"a", "&", ";", "(", "a", ";", "a", ")", "+", "a">>,
         <<"(", "a", ";", "a", ")", "|", "a">>,
         <<"(", "a", "|", "a", ")", "&", ";", "a", "&", ";", "a", "&">>}
MCLines == <<Short \cup Long, {<<"a", ";", "a">>}>>

MCInit == Init /\ U!Init /\ program \in {"sh", "heap"}
MCNext ==
    \/ program = "sh" /\ Next /\ UNCHANGED <<heapvars, program>>
    \/ program = "heap" /\ U!Next /\ UNCHANGED <<vars, program>>
MCSpec == MCInit /\ [][MCNext]_allvars /\ Fairness

\* The heap of the program that allocates.
HeapIntact == U!HeapIntact
=============================================================================
