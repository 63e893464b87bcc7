--------------------------------- MODULE Sh ---------------------------------
(***************************************************************************)
(* The shell, sh.c: parsecmd() turns a line into a tree of commands, and   *)
(* runcmd() runs the tree with processes, pipes and redirections.          *)
(*                                                                         *)
(* A line is a sequence of tokens as gettoken() returns them; "a" is a     *)
(* word, which parsing refers to by its place in the line, as the code     *)
(* does by pointers into the line.                                         *)
(***************************************************************************)
EXTENDS Integers, Sequences, FiniteSets

CONSTANTS
    Lines,      \* one set of lines for each that is typed; a line is a sequence of tokens
    MAXARGS,    \* a command has fewer words than this
    NPROC,      \* processes beside init and the shell
    NOFILE      \* descriptors of a process

VARIABLES
    sh,         \* what main() does: "getcmd", "got", "wait" or "exited"
    line,       \* the line that was read
    typed,      \* how many lines were read
    proc,       \* the shell's processes
    failed      \* fork1() has panicked

vars == <<sh, line, typed, proc, failed>>

-----------------------------------------------------------------------------
(* The parser.  A function of it takes the line and the place it has       *)
(* reached, and returns the command and the place after it: a set of one   *)
(* such result, or of none when it panics.                                 *)

execcmd(argv) == [type |-> "EXEC", argv |-> argv]
redircmd(cmd, q, fd) == [type |-> "REDIR", cmd |-> cmd, file |-> q, fd |-> fd]
pipecmd(left, right) == [type |-> "PIPE", left |-> left, right |-> right]
listcmd(left, right) == [type |-> "LIST", left |-> left, right |-> right]
backcmd(cmd) == [type |-> "BACK", cmd |-> cmd]

panic == {}
peek(l, i, toks) == i <= Len(l) /\ l[i] \in toks
Redirs == {"<", ">", "+"}

\* parseredirs(): wrap cmd in the redirections that follow; 0 is stdin, 1 stdout.
RECURSIVE parseredirs(_, _, _)
parseredirs(cmd, l, i) ==
    IF ~peek(l, i, Redirs) THEN {[cmd |-> cmd, i |-> i]}
    ELSE IF ~peek(l, i + 1, {"a"}) THEN panic
    ELSE parseredirs(redircmd(cmd, i + 1, IF l[i] = "<" THEN 0 ELSE 1), l, i + 2)

\* The command in the middle of its redirections gets the words.
RECURSIVE addarg(_, _)
addarg(ret, q) ==
    IF ret.type = "REDIR" THEN [ret EXCEPT !.cmd = addarg(@, q)] ELSE [ret EXCEPT !.argv = Append(@, q)]

\* The loop of parseexec(), with argc words so far.
RECURSIVE parseargs(_, _, _, _)
parseargs(ret, argc, l, i) ==
    IF i > Len(l) \/ peek(l, i, {"|", ")", "&", ";"}) THEN {[cmd |-> ret, i |-> i]}
    ELSE IF l[i] # "a" \/ argc + 1 >= MAXARGS THEN panic
    ELSE UNION {parseargs(r.cmd, argc + 1, l, r.i) : r \in parseredirs(addarg(ret, i), l, i + 1)}

RECURSIVE parseline(_, _)
parseblock(l, i) ==
    UNION {IF peek(l, r.i, {")"}) THEN parseredirs(r.cmd, l, r.i + 1) ELSE panic : r \in parseline(l, i + 1)}

parseexec(l, i) ==
    IF peek(l, i, {"("}) THEN parseblock(l, i)
    ELSE UNION {parseargs(r.cmd, 0, l, r.i) : r \in parseredirs(execcmd(<<>>), l, i)}

RECURSIVE parsepipe(_, _)
parsepipe(l, i) ==
    UNION {IF peek(l, r.i, {"|"}) THEN {[t EXCEPT !.cmd = pipecmd(r.cmd, @)] : t \in parsepipe(l, r.i + 1)}
           ELSE {r} : r \in parseexec(l, i)}

\* parseline(): a pipeline, the & that follow it, and the rest of a list.
RECURSIVE parseback(_, _)
parseback(l, r) == IF peek(l, r.i, {"&"}) THEN parseback(l, [cmd |-> backcmd(r.cmd), i |-> r.i + 1]) ELSE r
parserest_one(l, i) == parsepipe(l, i)
parserest(l, i) == parseline(l, i)
parseline(l, i) ==
    UNION {IF peek(l, r.i, {";"}) THEN {[t EXCEPT !.cmd = listcmd(r.cmd, @)] : t \in parserest(l, r.i + 1)}
           ELSE {r} : r \in {parseback(l, x) : x \in parsepipe(l, i)}}

\* parsecmd(): nothing may be left over.
parsecmd(l) == {r.cmd : r \in {x \in parseline(l, 1) : x.i = Len(l) + 1}}

-----------------------------------------------------------------------------
(* Running a command.                                                      *)

init == 0
Shell == NPROC + 1
Procs == 1..NPROC
Fds == 0..NOFILE - 1
NoFile == [k |-> "none", n |-> 0]
console == [k |-> "console", n |-> 0]
file == [k |-> "file", n |-> 0]
NoProc == [at |-> "free", cmd |-> execcmd(<<>>), fd |-> [f \in Fds |-> NoFile], parent |-> init, back |-> FALSE]

\* init leaves the four devices open that it makes after the console, so that
\* main(), which wants three descriptors, finds seven.
device == [k |-> "device", n |-> 0]
Terminal == [f \in Fds |-> IF f < 3 THEN console ELSE IF f < 7 THEN device ELSE NoFile]

Init == sh = "getcmd" /\ line = <<>> /\ typed = 0 /\ proc = [p \in Procs |-> NoProc] /\ failed = FALSE

Smallest(S) == CHOOSE x \in S : \A y \in S : x <= y
close(fd, f) == [fd EXCEPT ![f] = NoFile]
FreeFd(fd) == Smallest({f \in Fds : fd[f] = NoFile})
install(fd, new) == [fd EXCEPT ![FreeFd(fd)] = new]
dup(fd, f) == install(fd, fd[f])

\* exit(): the parent may wait for p; p's children are init's now, and init
\* waits for every process.
exit(p) ==
    [q \in Procs |->
        LET up == IF q = p \/ proc[q].parent # p THEN proc[q].parent ELSE init
        IN  IF (q = p \/ proc[q].at = "zombie") /\ up = init THEN NoProc
            ELSE IF q = p THEN [NoProc EXCEPT !.at = "zombie", !.parent = up]
            ELSE [proc[q] EXCEPT !.parent = up]]

\* fork1(): a child of p runs cmd with the descriptors fd, or p panics.
FreeSlots == {q \in Procs : proc[q].at = "free"}
Child(p, cmd, fd, back) == [at |-> "run", cmd |-> cmd, fd |-> fd, parent |-> p, back |-> back]
fork1(p, cmd, fd, back, after) ==
    IF FreeSlots = {} THEN proc' = exit(p) /\ failed' = TRUE
    ELSE /\ proc' = [proc EXCEPT ![p] = after,
                                 ![Smallest(FreeSlots)] = Child(p, cmd, fd, back)]
         /\ UNCHANGED failed
shellvars == <<sh, line, typed>>

At(p, at) == proc[p].at = at
Runs(p, type) == At(p, "run") /\ proc[p].cmd.type = type
Goto(p, at) == [proc[p] EXCEPT !.at = at]
Done(p, at) == [Goto(p, at) EXCEPT !.cmd = execcmd(<<>>)]

\* EXEC: without words there is nothing to do.
runcmd_exec(p) ==
    /\ Runs(p, "EXEC")
    /\ proc' = IF proc[p].cmd.argv = <<>> THEN exit(p) ELSE [proc EXCEPT ![p] = Done(p, "program")]
    /\ UNCHANGED <<shellvars, failed>>

\* The program, which exec() may also fail to start, ends when it likes; at the
\* latest at the end of its input.
Writers(n) == {q \in Procs : \E f \in Fds : proc[q].fd[f] = [k |-> "w", n |-> n]}
EndOfInput(p) == proc[p].fd[0].k = "r" => Writers(proc[p].fd[0].n) = {}
program_ends(p) ==
    /\ At(p, "program")
    /\ proc' = exit(p)
    /\ UNCHANGED <<shellvars, failed>>
program_reads(p) == EndOfInput(p) /\ program_ends(p)

\* REDIR: open() uses the descriptor that was just closed, or fails.
runcmd_redir(p) ==
    LET c == proc[p].cmd
    IN  /\ Runs(p, "REDIR")
        /\ \/ proc' = [proc EXCEPT ![p].cmd = c.cmd, ![p].fd = install(close(@, c.fd), file)]
           \/ proc' = exit(p)
        /\ UNCHANGED <<shellvars, failed>>

\* LIST: run the left command in a child, wait for it, run the right one.
runcmd_list(p) ==
    /\ Runs(p, "LIST")
    /\ fork1(p, proc[p].cmd.left, proc[p].fd, proc[p].back, Goto(p, "list_wait"))
    /\ UNCHANGED shellvars

Zombies(p) == {q \in Procs : proc[q].parent = p /\ proc[q].at = "zombie"}

list_wait(p) ==
    /\ At(p, "list_wait")
    /\ \E q \in Zombies(p) :
        proc' = [proc EXCEPT ![q] = NoProc, ![p] = [@ EXCEPT !.at = "run", !.cmd = @.right]]
    /\ UNCHANGED <<shellvars, failed>>

\* PIPE: the left child writes to the pipe, the right one reads from it.  pipe()
\* may fail for want of memory or of an open file, which is a panic().  What a
\* child does to its own descriptors before it runs its command, and what the
\* parent does to its own before it waits, is part of the fork.
PipeEnds == {"r", "w"}
PipesInUse == {proc[q].fd[f].n : <<q, f>> \in {x \in Procs \X Fds : proc[x[1]].fd[x[2]].k \in PipeEnds}}
pipe(fd) ==
    LET n == Smallest(1..NPROC * NOFILE \ PipesInUse)
    IN  install(install(fd, [k |-> "r", n |-> n]), [k |-> "w", n |-> n])
EndOf(fd, k) == CHOOSE f \in 3..NOFILE - 1 : fd[f].k = k
closeboth(fd, r, w) == close(close(fd, r), w)
leftends(fd, r, w) == closeboth(dup(close(fd, 1), w), r, w)
rightends_leak(fd, r, w) == close(dup(close(fd, 0), r), r)
rightends(fd, r, w) == closeboth(dup(close(fd, 0), r), r, w)

runcmd_pipe(p) ==
    /\ Runs(p, "PIPE")
    /\ \/ \E fd \in {pipe(proc[p].fd)} :
            fork1(p, proc[p].cmd.left, leftends(fd, EndOf(fd, "r"), EndOf(fd, "w")), proc[p].back,
                  [Goto(p, "pipe_right") EXCEPT !.fd = fd])
       \/ proc' = exit(p) /\ UNCHANGED failed
    /\ UNCHANGED shellvars

pipe_right(p) ==
    LET fd == proc[p].fd
        r  == EndOf(fd, "r")
        w  == EndOf(fd, "w")
    IN  /\ At(p, "pipe_right")
        /\ fork1(p, proc[p].cmd.right, rightends(fd, r, w), proc[p].back,
                 [Done(p, "pipe_wait") EXCEPT !.fd = closeboth(fd, r, w)])
        /\ UNCHANGED shellvars

afterwait_once == "exit"
afterwait == "pipe_wait2"
pipe_wait(p) ==
    /\ At(p, "pipe_wait")
    /\ \E q \in Zombies(p) : proc' = [proc EXCEPT ![q] = NoProc, ![p].at = afterwait]
    /\ UNCHANGED <<shellvars, failed>>

pipe_wait2(p) ==
    /\ At(p, "pipe_wait2")
    /\ \E q \in Zombies(p) : proc' = [proc EXCEPT ![q] = NoProc, ![p].at = "exit"]
    /\ UNCHANGED <<shellvars, failed>>

\* BACK: nobody waits for the child.
runcmd_back(p) ==
    /\ Runs(p, "BACK")
    /\ fork1(p, proc[p].cmd.cmd, proc[p].fd, TRUE, Done(p, "exit"))
    /\ UNCHANGED shellvars

runcmd_exit(p) ==
    /\ At(p, "exit")
    /\ proc' = exit(p)
    /\ UNCHANGED <<shellvars, failed>>

-----------------------------------------------------------------------------
(* main(): read a line, run it in a child, wait for the child.  When       *)
(* fork1() fails here, it is the shell that panics.                        *)

getcmd ==
    /\ sh = "getcmd" /\ typed < Len(Lines)
    /\ line' \in Lines[typed + 1]
    /\ typed' = typed + 1
    /\ sh' = "got"
    /\ UNCHANGED <<proc, failed>>

main_fork ==
    LET q == Smallest(FreeSlots)
    IN  /\ sh = "got" /\ line' = <<>>
        /\ \/ /\ FreeSlots # {} /\ sh' = "wait"
              /\ proc' \in IF parsecmd(line) = panic
                           THEN {[proc EXCEPT ![q] = [NoProc EXCEPT !.at = "zombie", !.parent = Shell]]}
                           ELSE {[proc EXCEPT ![q] = Child(Shell, cmd, Terminal, FALSE)] : cmd \in parsecmd(line)}
              /\ UNCHANGED failed
           \/ /\ FreeSlots = {} /\ sh' = "exited" /\ failed' = TRUE
              /\ UNCHANGED proc
        /\ UNCHANGED typed

main_wait ==
    /\ sh = "wait"
    /\ \E q \in Zombies(Shell) : proc' = [proc EXCEPT ![q] = NoProc]
    /\ sh' = "getcmd"
    /\ UNCHANGED <<line, typed, failed>>

Step(p) ==
    \/ runcmd_exec(p)
    \/ program_reads(p)
    \/ runcmd_redir(p)
    \/ runcmd_list(p)
    \/ list_wait(p)
    \/ runcmd_pipe(p)
    \/ pipe_right(p)
    \/ pipe_wait(p)
    \/ pipe_wait2(p)
    \/ runcmd_back(p)
    \/ runcmd_exit(p)

Next ==
    \/ getcmd
    \/ main_fork
    \/ main_wait
    \/ \E p \in Procs : Step(p) \/ program_ends(p)

\* The scheduler lets every process that can go on do so; a program need not
\* end before its input does.
Fairness == WF_vars(main_fork) /\ WF_vars(main_wait) /\ \A p \in Procs : WF_vars(Step(p))
Spec == Init /\ [][Next]_vars /\ Fairness

-----------------------------------------------------------------------------

\* As long as fork1() has not failed, only what was started with & is left to
\* init: runcmd() waits for every other process it forks before it goes on to
\* the next command of a list, and so nothing of a line without & is still
\* running when main() reads the next one.
Attended ==
    \A q \in Procs :
        ~failed => /\ ~At(q, "free") /\ ~proc[q].back => proc[q].parent # init
                   /\ sh = "getcmd" => proc[q].parent # Shell

\* The shell comes back for the next line, whatever the line was: in particular
\* no process that runcmd() made keeps the writing end of a pipe open, which
\* would make the reader, and all who wait for it, wait for ever.
Prompt == sh = "wait" ~> sh # "wait"
=============================================================================
