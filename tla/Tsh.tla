-------------------------------- MODULE Tsh --------------------------------
(***************************************************************************)
(* The shell of lab-shell-pipeline/tsh.c: main reads lines, and eval       *)
(* parses each, builds a pipeline of child processes and, unless the job   *)
(* runs in the background, waits for them.  The shell and its children run *)
(* concurrently, and what matters is who holds which end of which pipe,    *)
(* who is in which process group, and who is reaped when.                  *)
(*                                                                         *)
(* A line is a sequence of tokens.  The commands run are those of the      *)
(* traces, by what they do to a pipeline: "cat" copies its input to its    *)
(* output, "echo" (myppid, date, and a command that is not found) writes   *)
(* once, "yes" writes for ever and "intgroup" (myintgroup.c) sends SIGINT  *)
(* to its own process group.  The standard input and output of the shell   *)
(* and files are not modelled beyond which files exist: a read from them   *)
(* finds the end, and a write succeeds.                                    *)
(***************************************************************************)
EXTENDS Integers, FiniteSets, SequencesExt

CONSTANTS
    Scripts,        \* what the user may type: sequences of lines
    FirstFiles,     \* files that exist at first
    MaxProcs,       \* bound on the children of a script
    None

ASSUME TshAssumption == Scripts \subseteq Seq(Seq(STRING)) /\ FirstFiles \subseteq STRING

VARIABLES
    script,         \* the lines the user types
    sh,             \* the shell: its place in eval, its locals, its open pipe ends
    proc,           \* its children, in the order of their process ids
    full,           \* pipes that hold data; a pipe has room for one write
    files           \* files that exist

vars == <<script, sh, proc, full, files>>

Operators == {"<", ">", "|"}

(* Pipe i of line n: its two ends.                                          *)
R(n, i) == <<n, i, "r">>
W(n, i) == <<n, i, "w">>
Ends(n, i) == {R(n, i), W(n, i)}

-----------------------------------------------------------------------------
(* parseline: a last argument "&" asks for the background and is removed.   *)
ParseLine(line) ==
    [argv |-> IF line # <<>> /\ Last(line) = "&" THEN Front(line) ELSE line,
     bg |-> line = <<>> \/ Last(line) = "&"]

(* parseargs: cmds, stdin_redir and stdout_redir hold indexes into argv,    *)
(* with 0 for -1.  An operator takes the argument after it, its operand,    *)
(* whatever that is; a last operator is ignored.                            *)
IsOperator(argv, i) == argv[i] \in Operators /\ i < Len(argv)

Redirected(argv, s, i) ==
    LET k == Len(s.cmds) IN
    CASE argv[i] = "<" -> [s EXCEPT !.in[k] = i + 1]
      [] argv[i] = ">" -> [s EXCEPT !.out[k] = i + 1]
      [] argv[i] = "|" -> [s EXCEPT !.cmds = Append(@, i + 1),
                                    !.in = Append(@, 0), !.out = Append(@, 0)]

ParseArg_KeepsOperand(argv, s, i) ==
    IF IsOperator(argv, i) THEN Redirected(argv, s, i) ELSE s
ParseArg(argv, s, i) ==
    IF s.operand THEN [s EXCEPT !.operand = FALSE]
    ELSE IF IsOperator(argv, i) THEN [Redirected(argv, s, i) EXCEPT !.operand = TRUE] ELSE s

ParseArgs(argv) ==
    LET parse[i \in 1 .. Len(argv)] ==
          IF i = 1 THEN [cmds |-> <<1>>, in |-> <<0>>, out |-> <<0>>, operand |-> FALSE]
          ELSE ParseArg(argv, parse[i - 1], i)
    IN  parse[Len(argv)]

(* MaxProcs limits no script: it is at least the number of its commands,    *)
(* counted line by line.  A blank line is the last that is read.            *)
ASSUME ProcsAssumption ==
    MaxProcs \in Nat /\ \A s \in Scripts :
        \E total \in [0 .. Len(s) -> 0 .. MaxProcs] : \A n \in 1 .. Len(s) :
            LET argv == ParseLine(s[n]).argv IN
            argv # <<>> => total[n] >= total[n - 1] + Len(ParseArgs(argv).cmds)

-----------------------------------------------------------------------------
Prompt(n) == [pc |-> "prompt", n |-> n, argv |-> <<>>, cmds |-> <<>>, in |-> <<>>, out |-> <<>>,
              bg |-> FALSE, i |-> 0, pid |-> <<>>, fds |-> {}]

Init ==
    /\ script \in Scripts
    /\ sh = Prompt(0)
    /\ proc = <<>> /\ full = {} /\ files = FirstFiles

(* main reads a line, or the end of its input; eval parses it.  builtin_cmd *)
(* compares argv[0] with "quit", even if the line has no argument.          *)
ReadLine ==
    /\ sh.pc = "prompt"
    /\ IF sh.n = Len(script)
       THEN sh' = [sh EXCEPT !.pc = "exited"]
       ELSE LET l == ParseLine(script[sh.n + 1])
                a == ParseArgs(l.argv)
            IN  sh' = CASE l.argv = <<>> -> [sh EXCEPT !.pc = "crashed"]
                        [] l.argv # <<>> /\ l.argv[1] = "quit" -> [sh EXCEPT !.pc = "exited"]
                        [] OTHER -> [sh EXCEPT !.pc = "fork", !.n = @ + 1, !.i = 1,
                                               !.argv = l.argv, !.bg = l.bg, !.cmds = a.cmds,
                                               !.in = a.in, !.out = a.out]
    /\ UNCHANGED <<script, proc, full, files>>

NumCmd == Len(sh.cmds)

(* The child of command i: a copy of the shell's ends and locals.  Of pid[] *)
(* it uses pid[0], which is 0 in the first child.                           *)
Child(me, fds) ==
    [st |-> "new", n |-> sh.n, i |-> sh.i, last |-> sh.i = NumCmd, fg |-> ~sh.bg,
     leader |-> IF sh.i = 1 THEN me ELSE sh.pid[1], pg |-> 0, fds |-> fds, in |-> None, out |-> None,
     prog |-> sh.argv[sh.cmds[sh.i]],
     rin |-> IF sh.in[sh.i] = 0 THEN None ELSE sh.argv[sh.in[sh.i]],
     rout |-> IF sh.out[sh.i] = 0 THEN None ELSE sh.argv[sh.out[sh.i]], streams |-> {},
     todo |-> FALSE]

(* pipe, but for the last command, and fork; if that fails pid[i] is -1     *)
(* (here 0) and nobody looks.                                               *)
Fork ==
    LET fds == sh.fds \cup (IF sh.i < NumCmd THEN Ends(sh.n, sh.i) ELSE {})
        me == Len(proc) + 1
    IN
    /\ sh.pc = "fork"
    /\ \/ /\ proc' = Append(proc, Child(me, fds))
          /\ sh' = [sh EXCEPT !.pc = "close", !.fds = fds, !.pid = Append(@, me)]
       \/ /\ sh' = [sh EXCEPT !.pc = "close", !.fds = fds, !.pid = Append(@, 0)]
          /\ UNCHANGED proc
    /\ UNCHANGED <<script, full, files>>

(* The next round of the loop, or what comes after it.                      *)
NextCommand(fds) ==
    sh' = CASE sh.i < NumCmd -> [sh EXCEPT !.pc = "fork", !.i = @ + 1, !.fds = fds]
            [] sh.i = NumCmd /\ ~sh.bg -> [sh EXCEPT !.pc = "wait", !.i = 1, !.fds = fds]
            [] OTHER -> [Prompt(sh.n) EXCEPT !.fds = fds]

Close_KeepsReadEnd ==
    /\ sh.pc = "close"
    /\ NextCommand(sh.fds \ {W(sh.n, sh.i)})
    /\ UNCHANGED <<script, proc, full, files>>
(* The parent closes the write end of pipe i and the read end of pipe i-1.  *)
Close ==
    /\ sh.pc = "close"
    /\ NextCommand(sh.fds \ {W(sh.n, sh.i), R(sh.n, sh.i - 1)})
    /\ UNCHANGED <<script, proc, full, files>>

Waited_OneMore == sh' = IF sh.i > NumCmd THEN Prompt(sh.n) ELSE [sh EXCEPT !.i = @ + 1]
Waited == sh' = IF sh.i = NumCmd THEN Prompt(sh.n) ELSE [sh EXCEPT !.i = @ + 1]
Reap(p) == proc' = [proc EXCEPT ![p].st = "reaped"]
Unreaped == {p \in DOMAIN proc : proc[p].st # "reaped"}

Wait_AnyChild ==
    /\ sh.pc = "wait"
    /\ \/ \E p \in Unreaped : proc[p].st = "zombie" /\ Reap(p)
       \/ Unreaped = {} /\ UNCHANGED proc
    /\ Waited
    /\ UNCHANGED <<script, full, files>>
(* waitpid(pid[j]): for that child, or for any if fork had returned -1; it  *)
(* fails if there is none.                                                  *)
Wait ==
    LET for == IF sh.pid[sh.i] = 0 THEN Unreaped ELSE Unreaped \cap {sh.pid[sh.i]} IN
    /\ sh.pc = "wait"
    /\ \/ \E p \in for : proc[p].st = "zombie" /\ Reap(p)
       \/ for = {} /\ UNCHANGED proc
    /\ Waited
    /\ UNCHANGED <<script, full, files>>

-----------------------------------------------------------------------------
(* The children.                                                            *)
Live(p) == p \in DOMAIN proc /\ proc[p].st \in {"new", "group", "run"}
Holds(p) == proc[p].fds \cup {proc[p].in, proc[p].out}
Open(e) == e \in sh.fds \/ \E p \in DOMAIN proc : e \in Holds(p)

(* A child that has ended holds nothing, but stays in its group as a zombie.*)
Ended(c) == [c EXCEPT !.st = "zombie", !.fds = {}, !.in = None, !.out = None, !.streams = {},
                      !.todo = FALSE]
End(p) == proc' = [proc EXCEPT ![p] = Ended(@)]

(* setpgid(0, pid[0]), called by the child only: it fails if that group has *)
(* no member (yet, or any more), and the child stays in the shell's, 0.     *)
SetGroup(p) ==
    LET g == proc[p].leader IN
    /\ Live(p) /\ proc[p].st = "new"
    /\ proc' = [proc EXCEPT ![p].st = "group",
                            ![p].pg = IF g = p \/ (g # 0 /\ \E q \in Unreaped : proc[q].pg = g)
                                      THEN g ELSE 0]
    /\ UNCHANGED <<script, sh, full, files>>

(* dup2 and close, fopen and dup2, execv, with "held" left open.  fileno of *)
(* a file that does not exist is fatal.  The streams of redirections are    *)
(* not closed after dup2, and fopen does not have exec close them.          *)
ExecKeeping(p, held) ==
    LET c == proc[p] IN
    /\ Live(p) /\ c.st = "group"
    /\ \/ /\ c.rin \notin files \cup {None}
          /\ End(p)
          /\ UNCHANGED files
       \/ /\ c.rin \in files \cup {None}
          /\ files' = files \cup ({c.rout} \ {None})
          /\ proc' = [proc EXCEPT
               ![p].st = "run",
               ![p].fds = held,
               ![p].streams = {c.rin, c.rout} \ {None},
               ![p].in = IF c.i > 1 /\ c.rin = None THEN R(c.n, c.i - 1) ELSE None,
               ![p].out = IF ~c.last /\ c.rout = None THEN W(c.n, c.i) ELSE None,
               ![p].todo = c.prog # "cat"]
    /\ UNCHANGED <<script, sh, full>>

Exec_KeepsReadEnd(p) == ExecKeeping(p, proc[p].fds \cap {R(proc[p].n, proc[p].i)})
Exec(p) == ExecKeeping(p, {})

(* The programs.  cat reads until the end, ...                              *)
Read(p) ==
    LET c == proc[p]
        pipe == <<c.in[1], c.in[2]>>
    IN
    /\ Live(p) /\ c.st = "run" /\ c.prog = "cat" /\ ~c.todo
    /\ \/ /\ c.in # None /\ pipe \in full
          /\ full' = full \ {pipe}
          /\ proc' = [proc EXCEPT ![p].todo = TRUE]
       \/ /\ c.in # None => pipe \notin full /\ ~Open(W(pipe[1], pipe[2]))
          /\ End(p)
          /\ UNCHANGED full
    /\ UNCHANGED <<script, sh, files>>

(* ... and a write to a pipe that nobody can read from is fatal.            *)
Write(p) ==
    LET c == proc[p]
        pipe == <<c.out[1], c.out[2]>>
        broken == c.out # None /\ ~Open(R(pipe[1], pipe[2]))
    IN
    /\ Live(p) /\ c.st = "run" /\ c.todo /\ c.prog # "intgroup"
    /\ c.out # None => broken \/ pipe \notin full
    /\ full' = IF c.out = None \/ broken THEN full ELSE full \cup {pipe}
    /\ CASE broken \/ c.prog \notin {"cat", "yes"} -> End(p)
         [] ~broken /\ c.prog = "cat" -> proc' = [proc EXCEPT ![p].todo = FALSE]
         [] ~broken /\ c.prog = "yes" -> UNCHANGED proc
    /\ UNCHANGED <<script, sh, files>>

(* kill(-getpgid(0), SIGINT), which ends every process of the group.        *)
Interrupt(p) ==
    LET g == proc[p].pg IN
    /\ Live(p) /\ proc[p].st = "run" /\ proc[p].prog = "intgroup"
    /\ proc' = [q \in DOMAIN proc |-> IF Live(q) /\ proc[q].pg = g THEN Ended(proc[q]) ELSE proc[q]]
    /\ sh' = IF g = 0 THEN [sh EXCEPT !.pc = "killed", !.fds = {}] ELSE sh
    /\ UNCHANGED <<script, full, files>>

-----------------------------------------------------------------------------
ShellStep == ReadLine \/ Fork \/ Close \/ Wait
ChildStep(p) == SetGroup(p) \/ Exec(p) \/ Read(p) \/ Write(p) \/ Interrupt(p)

Next == ShellStep \/ \E p \in 1 .. MaxProcs : ChildStep(p)

Spec == Init /\ [][Next]_vars

(* Every process is scheduled.                                              *)
FairSpec == Spec /\ WF_vars(ShellStep) /\ \A p \in 1 .. MaxProcs : WF_vars(ChildStep(p))

-----------------------------------------------------------------------------
TypeOK ==
    /\ script \in Scripts
    /\ sh.pc \in {"prompt", "fork", "close", "wait", "exited", "crashed", "killed"}
    /\ sh.n \in 0 .. Len(script) /\ sh.i \in 0 .. NumCmd
    /\ Len(sh.pid) \in {sh.i - 1, sh.i, NumCmd} /\ Range(sh.pid) \subseteq 0 .. Len(proc)
    /\ Len(proc) \in 0 .. MaxProcs
    /\ \A p \in DOMAIN proc :
         /\ proc[p].st \in {"new", "group", "run", "zombie", "reaped"}
         /\ proc[p].pg \in 0 .. Len(proc)
    /\ full \subseteq (1 .. Len(script)) \X (1 .. MaxProcs)

(* How a line should be read: in each run of operators the first, third, .. *)
(* is an operator and the others are operands; the first argument is always *)
(* a command.                                                               *)
OperatorsIn(argv) ==
    {i \in 2 .. Len(argv) - 1 :
       \E k \in 0 .. Len(argv) :
          /\ argv[i] \in Operators
          /\ i - 2 * k >= 2
          /\ \A j \in i - 2 * k .. i : argv[j] \in Operators
          /\ i - 2 * k = 2 \/ argv[i - 2 * k - 1] \notin Operators}
LastOf(S) == IF S = {} THEN 0 ELSE 1 + CHOOSE i \in S : \A j \in S : j <= i

(* What parseargs reports (tsh.c:206-221): one command more than there are  *)
(* pipes, each after its pipe, with the last redirection of each kind.      *)
ParsedAsDocumented ==
    sh.pc \in {"fork", "close", "wait"} =>
        LET ops == OperatorsIn(sh.argv)
            Pipes == {i \in ops : sh.argv[i] = "|"}
            Within(k, op) == {i \in ops : /\ sh.argv[i] = op /\ i > sh.cmds[k]
                                          /\ k < NumCmd => i < sh.cmds[k + 1]}
        IN  /\ NumCmd = Cardinality(Pipes) + 1 /\ sh.cmds[1] = 1
            /\ {sh.cmds[k] : k \in 2 .. NumCmd} = {i + 1 : i \in Pipes}
            /\ \A k \in 1 .. NumCmd : /\ sh.in[k] = LastOf(Within(k, "<"))
                                      /\ sh.out[k] = LastOf(Within(k, ">"))

(* "the process writing to the pipe closing the read end of the pipe, and   *)
(* the process reading from the pipe closing the write end" (README.md:492):*)
(* a program holds no end of a pipe but as its input or output, nobody but  *)
(* a command's neighbours ever does, and at the prompt the shell has none.  *)
(* This is about pipes only.  Of the files the README says the same (417),  *)
(* and tsh.c does not do it: a program runs with its streams still open.    *)
OnlyItsEnds ==
    /\ \A p \in DOMAIN proc :
         LET c == proc[p] IN
         /\ Holds(p) \subseteq Ends(c.n, c.i) \cup {R(c.n, c.i - 1), None}
         /\ c.st = "run" => c.fds = {}
    /\ sh.pc \in {"prompt", "wait"} => sh.fds = {}

(* "all processes have terminated before the prompt is displayed", and "the *)
(* resources for every process have been reaped" (README.md:537), even when *)
(* a fork has failed and a background job ends meanwhile.                   *)
AllWaitedFor ==
    sh.pc = "prompt" => \A p \in DOMAIN proc : proc[p].fg => proc[p].st = "reaped"

(* "This makes it so that any signals sent to the group ID of the child     *)
(* process do not also go to the shell itself, which would effectively      *)
(* terminate the shell!" (README.md:435)                                    *)
ShellSpared == sh.pc # "killed"

(* Lines that end: nothing is written for ever to a file, to the terminal   *)
(* or to a cat that does so.                                                *)
Tame(line) ==
    LET argv == ParseLine(line).argv IN
    "yes" \in Range(line) =>
        /\ ">" \notin Range(line)
        /\ argv[Last(ParseArgs(argv).cmds)] \notin {"yes", "cat"}

(* If every line ends then every wait does: each reader finds the end of    *)
(* its pipe and each writer is stopped when nobody reads.                   *)
Returns == sh.pc = "wait" /\ (\A n \in DOMAIN script : Tame(script[n])) ~> sh.pc # "wait"

=============================================================================
