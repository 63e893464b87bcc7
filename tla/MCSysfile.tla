----------------------------- MODULE MCSysfile ------------------------------
(* Instances of Sysfile for TLC. *)
EXTENDS Sysfile, TLC

CONSTANTS p1, p2

MCProcs == {p1, p2}
MCNames == {".", "..", "d", "x"}

Abs(e) == [abs |-> TRUE, elems |-> e]
Rel(e) == [abs |-> FALSE, elems |-> e]
Call(op, path) == [op |-> op, path |-> path]

\* mkfs makes a root directory with one file.
MCMkfs ==
    [dinode |-> [i \in Inums |-> CASE i = 1 -> [type |-> "T_DIR", nlink |-> 1]
                                   [] i = 2 -> [type |-> "T_FILE", nlink |-> 1]
                                   [] OTHER -> [type |-> "none", nlink |-> 0]],
     ents |-> [i \in Inums |-> IF i = 1 THEN [n \in MCNames |-> CASE n \in {".", ".."} -> 1
                                                                [] n = "x" -> 2 [] OTHER -> 0]
                               ELSE NoEntries]]

MCCalls ==
    p1 :> {Call("mkdir", Abs(<<"d">>)), Call("unlink", Abs(<<"d">>)), Call("unlink", Abs(<<"x">>)),
           [op |-> "link", path |-> Abs(<<"x">>), new |-> Abs(<<"d", "x">>)]}
    @@ p2 :> {Call("chdir", Abs(<<"d">>)), Call("chdir", Abs(<<>>)), Call("create", Rel(<<"x">>)),
              Call("unlink", Rel(<<"x">>)), [op |-> "open", path |-> Rel(<<"x">>), rdonly |-> TRUE]}

\* Creating and unlinking one name.
MCSameName ==
    p1 :> {Call("create", Abs(<<"d">>))} @@ p2 :> {Call("unlink", Abs(<<"d">>))}
=============================================================================
