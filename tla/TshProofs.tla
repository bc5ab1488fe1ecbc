------------------------------ MODULE TshProofs ------------------------------
(***************************************************************************)
(* Proofs about Tsh, for any lines the user may type and any number of     *)
(* children: every line is parsed as parseargs documents it, the shell and *)
(* its programs hold only the ends of pipes that they need, and the prompt *)
(* comes back only when every child of the foreground has been reaped,     *)
(* whatever forks fail and whatever a wait after a failed fork takes.      *)
(*                                                                         *)
(* None is inductive.  Parsing is an induction over the arguments (Parsed: *)
(* what has been read up to argument i).  The ends rest on which pipes the *)
(* shell has open at each statement of its loop (EndsOK), the waiting on   *)
(* every child still to be reaped being one that pid[] names from i on     *)
(* (WaitOK).  A second invariant over the first, Bounds, says that there   *)
(* is always room for the children that the rest of a script will have.    *)
(***************************************************************************)
EXTENDS Tsh, Induction, SequenceTheorems

Pcs == {"prompt", "fork", "close", "wait", "exited", "crashed", "killed"}
Looping == {"fork", "close", "wait"}
AllEnds == Nat \X Nat \X {"r", "w"}

Shells ==
    [pc : Pcs, n : Nat, argv : Seq(STRING), cmds : Seq(Nat), in : Seq(Nat), out : Seq(Nat),
     bg : BOOLEAN, i : Nat, pid : Seq(Nat), fds : SUBSET AllEnds]

Children ==
    [st : {"new", "group", "run", "zombie", "reaped"}, n : Nat, i : Nat, last : BOOLEAN,
     fg : BOOLEAN, leader : Nat, pg : Nat, fds : SUBSET AllEnds,
     in : AllEnds \cup {None}, out : AllEnds \cup {None}, prog : STRING,
     rin : STRING \cup {None}, rout : STRING \cup {None}, streams : SUBSET STRING,
     todo : BOOLEAN]

(* The lists of parseargs: as many redirections as commands, and indexes of  *)
(* arguments.                                                                *)
Indexes(argv, s) ==
    /\ s.cmds \in Seq(1 .. Len(argv)) /\ s.cmds # <<>>
    /\ s.in \in Seq(0 .. Len(argv)) /\ s.out \in Seq(0 .. Len(argv))
    /\ Len(s.in) = Len(s.cmds) /\ Len(s.out) = Len(s.cmds)

PlaceOK(s) ==
    /\ s.pc \in Looping => /\ s.argv # <<>> /\ s.i \in 1 .. Len(s.cmds)
                           /\ s.cmds = ParseArgs(s.argv).cmds
                           /\ s.in = ParseArgs(s.argv).in /\ s.out = ParseArgs(s.argv).out
    /\ s.pc = "prompt" => s.pid = <<>>
    /\ s.pc = "fork" => Len(s.pid) = s.i - 1
    /\ s.pc = "close" => Len(s.pid) = s.i
    /\ s.pc = "wait" => Len(s.pid) = Len(s.cmds)

Typed ==
    /\ script \in Seq(Seq(STRING)) /\ files \subseteq STRING
    /\ sh \in Shells /\ sh.n <= Len(script) /\ PlaceOK(sh)
    /\ proc \in Seq(Children)
    /\ \A k \in DOMAIN sh.pid : sh.pid[k] <= Len(proc)

(* The ends the shell has open: at most the one it reads the last command's *)
(* output from, and between pipe and close those of the pipe just made.     *)
EndsOK(s) ==
    s.fds \subseteq CASE s.pc = "fork" -> {R(s.n, s.i - 1)}
                      [] s.pc = "close" -> {R(s.n, s.i - 1)} \cup
                                           (IF s.i < Len(s.cmds) THEN Ends(s.n, s.i) ELSE {})
                      [] OTHER -> {}

(* The ends a child has open: those it was forked with, those of its input  *)
(* and output once it has been executed.                                    *)
ChildEndsOK(c) ==
    /\ c.fds \cup {c.in, c.out} \subseteq Ends(c.n, c.i) \cup {R(c.n, c.i - 1), None}
    /\ c.st \in {"run", "zombie", "reaped"} => c.fds = {}

(* A child the shell has yet to wait for is in pid[], from i on.            *)
Awaited(s, p) ==
    /\ s.pc \in Looping => ~s.bg
    /\ s.pc \in Looping => \E k \in DOMAIN s.pid : s.pid[k] = p /\ (s.pc = "wait" => s.i <= k)
    /\ s.pc # "prompt"
WaitOK == \A p \in DOMAIN proc : proc[p].fg /\ proc[p].st # "reaped" => Awaited(sh, p)

IInv ==
    /\ Typed /\ EndsOK(sh) /\ WaitOK
    /\ \A p \in DOMAIN proc : ChildEndsOK(proc[p])

-----------------------------------------------------------------------------
(* parseargs.                                                               *)

FirstArg == [cmds |-> <<1>>, in |-> <<0>>, out |-> <<0>>, operand |-> FALSE]
IsParse(argv, parse, n) ==
    parse = [i \in 1 .. n |-> IF i = 1 THEN FirstArg ELSE ParseArg(argv, parse[i - 1], i)]

(* The recursion over the arguments defines a function, of which ParseArgs  *)
(* is the last value.                                                       *)
LEMMA ParseSteps ==
    ASSUME NEW argv, Len(argv) \in Nat
    PROVE  \E parse : IsParse(argv, parse, Len(argv)) /\ ParseArgs(argv) = parse[Len(argv)]
<1> DEFINE S == {n \in Nat : \E parse : IsParse(argv, parse, n)}
<1>1. 0 \in S
  <2>1. IsParse(argv, [i \in 1 .. 0 |-> FirstArg], 0)
    BY DEF IsParse
  <2> QED BY <2>1
<1>2. ASSUME NEW n \in Nat, n \in S PROVE n + 1 \in S
  <2>1. PICK g : IsParse(argv, g, n)
    BY <1>2
  <2> DEFINE h == [i \in 1 .. n + 1 |-> IF i = 1 THEN FirstArg ELSE ParseArg(argv, g[i - 1], i)]
  <2>2. \A i \in 1 .. n : h[i] = g[i]
    BY <2>1 DEF IsParse
  <2>3. \A i \in 1 .. n + 1 : i # 1 => h[i - 1] = g[i - 1]
    <3> HIDE DEF h
    <3>1. \A i \in 1 .. n + 1 : i # 1 => i - 1 \in 1 .. n
      OBVIOUS
    <3> QED BY <2>2, <3>1
  <2>4. h = [i \in 1 .. n + 1 |-> IF i = 1 THEN FirstArg ELSE ParseArg(argv, h[i - 1], i)]
    <3> DEFINE e(i) == IF i = 1 THEN FirstArg ELSE ParseArg(argv, g[i - 1], i)
    <3>1. \A i \in 1 .. n + 1 :
             e(i) = IF i = 1 THEN FirstArg ELSE ParseArg(argv, h[i - 1], i)
      BY <2>3
    <3> HIDE DEF h
    <3>2. h = [i \in 1 .. n + 1 |-> e(i)]
      BY DEF h
    <3> HIDE DEF e
    <3> QED BY <3>1, <3>2
  <2> HIDE DEF h
  <2>5. IsParse(argv, h, n + 1)
    BY <2>4 DEF IsParse
  <2> QED BY <2>5
<1>3. Len(argv) \in S
  <2> HIDE DEF S
  <2> QED BY <1>1, <1>2, NatSetInduction
<1>4. \E parse : IsParse(argv, parse, Len(argv))
  BY <1>3
<1> DEFINE c == CHOOSE parse : IsParse(argv, parse, Len(argv))
<1>5. IsParse(argv, c, Len(argv))
  BY <1>4
<1>6. ParseArgs(argv) = c[Len(argv)]
  BY DEF ParseArgs, IsParse, FirstArg
<1> QED BY <1>5, <1>6

(* An argument is an operator if it looks like one, is not the last, and is *)
(* not the operand of the one before.                                       *)
LEMMA OperatorsFirst ==
    ASSUME NEW argv \in Seq(STRING), NEW i \in OperatorsIn(argv)
    PROVE  IsOperator(argv, i) /\ i - 1 \notin OperatorsIn(argv)
<1>1. i \in 2 .. Len(argv) - 1 /\ argv[i] \in Operators /\ Len(argv) \in Nat
  BY DEF OperatorsIn
<1>2. PICK k \in Nat : LET a == i - 2 * k IN
        /\ a >= 2 /\ \A j \in a .. i : argv[j] \in Operators
        /\ a = 2 \/ argv[a - 1] \notin Operators
  BY DEF OperatorsIn
<1>3. ASSUME i - 1 \in OperatorsIn(argv) PROVE FALSE
  <2>1. PICK l \in Nat : LET b == i - 1 - 2 * l IN
          /\ b >= 2 /\ \A j \in b .. i - 1 : argv[j] \in Operators
          /\ b = 2 \/ argv[b - 1] \notin Operators
    BY <1>3 DEF OperatorsIn
  <2> DEFINE a == i - 2 * k
             b == i - 1 - 2 * l
  <2>2. a \in Int /\ b \in Int /\ a # b /\ a <= i /\ b <= i - 1
    BY <1>1
  <2> HIDE DEF a, b
  <2>3. /\ a >= 2 /\ \A j \in a .. i : argv[j] \in Operators
        /\ a = 2 \/ argv[a - 1] \notin Operators
    BY <1>2 DEF a
  <2>4. /\ b >= 2 /\ \A j \in b .. i - 1 : argv[j] \in Operators
        /\ b = 2 \/ argv[b - 1] \notin Operators
    BY <2>1 DEF b
  <2>5. CASE a < b
    <3>1. b - 1 \in a .. i
      BY <1>1, <2>2, <2>5
    <3> QED BY <2>2, <2>3, <2>4, <2>5, <3>1
  <2>6. CASE b < a
    <3>1. a - 1 \in b .. i - 1
      BY <1>1, <2>2, <2>6
    <3> QED BY <2>2, <2>3, <2>4, <2>6, <3>1
  <2> QED BY <2>2, <2>5, <2>6
<1> QED BY <1>1, <1>3 DEF IsOperator

(* i begins or continues a run of operators, after k pairs.                 *)
InRun(argv, i, k) ==
    /\ argv[i] \in Operators
    /\ i - 2 * k >= 2
    /\ \A j \in i - 2 * k .. i : argv[j] \in Operators
    /\ i - 2 * k = 2 \/ argv[i - 2 * k - 1] \notin Operators

LEMMA OperatorIfInRun ==
    ASSUME NEW argv \in Seq(STRING), NEW i \in 2 .. Len(argv) - 1, NEW k \in Nat, InRun(argv, i, k)
    PROVE  i \in OperatorsIn(argv)
<1>1. k \in 0 .. Len(argv)
  BY DEF InRun
<1> QED BY <1>1 DEF OperatorsIn, InRun

LEMMA OperatorsNext ==
    ASSUME NEW argv \in Seq(STRING)
    PROVE  \A i \in Nat : i >= 2 /\ IsOperator(argv, i) /\ i - 1 \notin OperatorsIn(argv)
                            => i \in OperatorsIn(argv)
<1> DEFINE P(i) == i >= 2 /\ IsOperator(argv, i) /\ i - 1 \notin OperatorsIn(argv)
                     => i \in OperatorsIn(argv)
           S == {i \in Nat : P(i)}
<1>1. 0 \in S
  OBVIOUS
<1>2. ASSUME NEW n \in Nat, n \in S PROVE n + 1 \in S
  <2> SUFFICES ASSUME n + 1 >= 2, IsOperator(argv, n + 1), n \notin OperatorsIn(argv)
               PROVE  n + 1 \in OperatorsIn(argv)
    OBVIOUS
  <2>0. n + 1 \in 2 .. Len(argv) - 1 /\ argv[n + 1] \in Operators /\ Len(argv) \in Nat
    BY DEF IsOperator
  <2>1. CASE n + 1 = 2 \/ argv[n] \notin Operators
    <3>1. InRun(argv, n + 1, 0)
      BY <2>0, <2>1 DEF InRun
    <3> QED BY <2>0, <3>1, OperatorIfInRun
  <2>2. CASE n + 1 # 2 /\ argv[n] \in Operators
    <3>1. IsOperator(argv, n) /\ n >= 2
      BY <2>0, <2>2 DEF IsOperator
    <3>2. n - 1 \in OperatorsIn(argv)
      BY <1>2, <3>1
    <3>3. PICK k \in Nat : InRun(argv, n - 1, k)
      BY <3>2 DEF OperatorsIn, InRun
    <3>4. /\ n + 1 - 2 * (k + 1) = n - 1 - 2 * k
          /\ \A j \in n - 1 - 2 * k .. n + 1 : j \in n - 1 - 2 * k .. n - 1 \/ j = n \/ j = n + 1
      BY <3>1
    <3>5. InRun(argv, n + 1, k + 1)
      BY <2>0, <2>2, <3>3, <3>4 DEF InRun
    <3> QED BY <2>0, <3>5, OperatorIfInRun
  <2> QED BY <2>1, <2>2
<1>3. Nat \subseteq S
  <2> HIDE DEF S
  <2> QED BY <1>1, <1>2, NatSetInduction
<1> QED BY <1>3

LEMMA OperatorStep ==
    ASSUME NEW argv \in Seq(STRING), NEW i \in 2 .. Len(argv)
    PROVE  i \in OperatorsIn(argv) <=> IsOperator(argv, i) /\ i - 1 \notin OperatorsIn(argv)
<1>1. i \in Nat /\ i >= 2
  OBVIOUS
<1> QED BY <1>1, OperatorsFirst, OperatorsNext

(* The operators op up to argument i, and those of command k in s.          *)
UpTo(argv, i, op) == {j \in OperatorsIn(argv) : j <= i /\ argv[j] = op}
Of(argv, s, i, k, op) ==
    {j \in UpTo(argv, i, op) : j > s.cmds[k] /\ (k < Len(s.cmds) => j < s.cmds[k + 1])}

(* What has been parsed up to argument i.                                   *)
CommandsOK(argv, s, i) ==
    /\ s.cmds[1] = 1
    /\ \A j, k \in DOMAIN s.cmds : j < k => s.cmds[j] < s.cmds[k]
    /\ \A k \in DOMAIN s.cmds : s.cmds[k] <= i \/ (i \in OperatorsIn(argv) /\ s.cmds[k] = i + 1)
    /\ {s.cmds[k] : k \in 2 .. Len(s.cmds)} = {j + 1 : j \in UpTo(argv, i, "|")}
    /\ Len(s.cmds) = Cardinality(UpTo(argv, i, "|")) + 1

RedirectionsOK(argv, s, i) ==
    \A k \in 1 .. Len(s.cmds) : /\ s.in[k] = LastOf(Of(argv, s, i, k, "<"))
                                /\ s.out[k] = LastOf(Of(argv, s, i, k, ">"))

ParseStates(n) ==
    [cmds : Seq(1 .. n), in : Seq(0 .. n), out : Seq(0 .. n), operand : BOOLEAN]
Parsed(argv, s, i) ==
    /\ s \in ParseStates(Len(argv)) /\ s.cmds # <<>>
    /\ Len(s.in) = Len(s.cmds) /\ Len(s.out) = Len(s.cmds)
    /\ s.operand <=> i \in OperatorsIn(argv)
    /\ CommandsOK(argv, s, i) /\ RedirectionsOK(argv, s, i)

LEMMA UpToNext ==
    ASSUME NEW argv \in Seq(STRING), NEW i \in 2 .. Len(argv), NEW op
    PROVE  /\ UpTo(argv, i, op) = IF i \in OperatorsIn(argv) /\ argv[i] = op
                                  THEN UpTo(argv, i - 1, op) \cup {i} ELSE UpTo(argv, i - 1, op)
           /\ IsFiniteSet(UpTo(argv, i - 1, op)) /\ UpTo(argv, i - 1, op) \subseteq 1 .. i - 1
<1>1. OperatorsIn(argv) \subseteq 1 .. Len(argv) /\ Len(argv) \in Nat
  BY DEF OperatorsIn
<1>2. UpTo(argv, i - 1, op) \subseteq 1 .. i - 1
  BY <1>1 DEF UpTo
<1>3. UpTo(argv, i, op) = IF i \in OperatorsIn(argv) /\ argv[i] = op
                          THEN UpTo(argv, i - 1, op) \cup {i} ELSE UpTo(argv, i - 1, op)
  BY <1>1 DEF UpTo
<1>4. IsFiniteSet(UpTo(argv, i - 1, op))
  <2>1. IsFiniteSet(1 .. i - 1)
    BY FS_Interval, i - 1 \in Int
  <2> QED BY <1>2, <2>1, FS_Subset
<1> QED BY <1>2, <1>3, <1>4

LEMMA LastOfNext ==
    ASSUME NEW i \in Nat, NEW S, S \subseteq 1 .. i - 1
    PROVE  LastOf(S \cup {i}) = i + 1
<1>1. \A j \in S \cup {i} : j <= i
  OBVIOUS
<1>2. \A x \in S \cup {i} : (\A j \in S \cup {i} : j <= x) => x = i
  OBVIOUS
<1>3. (CHOOSE x \in S \cup {i} : \A j \in S \cup {i} : j <= x) = i
  BY <1>1, <1>2
<1>4. S \cup {i} # {} /\ i + 1 = 1 + i
  OBVIOUS
<1> QED BY <1>3, <1>4 DEF LastOf

(* Before the second argument.                                              *)
LEMMA ParsedFirst ==
    ASSUME NEW argv \in Seq(STRING), argv # <<>>
    PROVE  Parsed(argv, FirstArg, 1)
<1> DEFINE s == FirstArg
<1>1. Len(argv) \in Nat /\ Len(argv) >= 1
  BY EmptySeq
<1>2. /\ s.cmds = <<1>> /\ s.in = <<0>> /\ s.out = <<0>> /\ s.operand = FALSE
      /\ s \in ParseStates(Len(argv)) /\ Len(s.cmds) = 1 /\ DOMAIN s.cmds = {1}
  BY <1>1 DEF FirstArg, ParseStates
<1>3. 1 \notin OperatorsIn(argv) /\ \A op : UpTo(argv, 1, op) = {}
  BY DEF OperatorsIn, UpTo
<1> HIDE DEF s
<1>4. CommandsOK(argv, s, 1)
  <2>1. {s.cmds[k] : k \in 2 .. Len(s.cmds)} = {} /\ {j + 1 : j \in UpTo(argv, 1, "|")} = {}
    BY <1>2, <1>3
  <2>2. Cardinality(UpTo(argv, 1, "|")) = 0
    BY <1>3, FS_EmptySet
  <2>3. s.cmds[1] = 1
    BY <1>2
  <2> QED BY <1>2, <2>1, <2>2, <2>3 DEF CommandsOK
<1>5. RedirectionsOK(argv, s, 1)
  <2>1. \A k, op : Of(argv, s, 1, k, op) = {}
    BY <1>3 DEF Of
  <2> QED BY <1>2, <2>1 DEF RedirectionsOK, LastOf
<1> QED BY <1>2, <1>3, <1>4, <1>5 DEF Parsed, s

(* An argument that is no operator changes nothing.                         *)
LEMMA ParsedPlain ==
    ASSUME NEW argv \in Seq(STRING), NEW i \in 2 .. Len(argv), i \notin OperatorsIn(argv),
           NEW s, Parsed(argv, s, i - 1)
    PROVE  Parsed(argv, [s EXCEPT !.operand = FALSE], i)
<1> DEFINE t == [s EXCEPT !.operand = FALSE]
<1>1. /\ t.cmds = s.cmds /\ t.in = s.in /\ t.out = s.out /\ t.operand = FALSE
      /\ t \in ParseStates(Len(argv))
  BY DEF Parsed, ParseStates
<1>2. \A op : UpTo(argv, i, op) = UpTo(argv, i - 1, op)
  BY UpToNext
<1> HIDE DEF t
<1>3. \A k \in DOMAIN s.cmds : s.cmds[k] \in Nat
  BY DEF Parsed, ParseStates
<1>4. CommandsOK(argv, t, i)
  <2>1. \A k \in DOMAIN s.cmds : s.cmds[k] <= i
    <3>1. \A k \in DOMAIN s.cmds : s.cmds[k] <= i - 1 \/ s.cmds[k] = i - 1 + 1
      BY DEF Parsed, CommandsOK
    <3> QED BY <1>3, <3>1
  <2>2. CommandsOK(argv, s, i - 1) /\ UpTo(argv, i, "|") = UpTo(argv, i - 1, "|")
    BY <1>2 DEF Parsed
  <2>3. CommandsOK(argv, s, i)
    <3> HIDE DEF UpTo
    <3> QED BY <2>1, <2>2 DEF CommandsOK
  <2> QED BY <1>1, <2>3 DEF CommandsOK
<1>5. RedirectionsOK(argv, t, i)
  BY <1>1, <1>2 DEF RedirectionsOK, Parsed, Of
<1> QED BY <1>1, <1>4, <1>5 DEF Parsed, t


(* Unless an operand is next, every command is one already parsed.          *)
LEMMA CommandsBefore ==
    ASSUME NEW argv \in Seq(STRING), NEW i \in 2 .. Len(argv), i - 1 \notin OperatorsIn(argv),
           NEW s, Parsed(argv, s, i - 1)
    PROVE  \A k \in 1 .. Len(s.cmds) : s.cmds[k] \in Nat /\ s.cmds[k] < i
<1>1. s.cmds \in Seq(1 .. Len(argv)) /\ Len(argv) \in Nat
  BY DEF Parsed, ParseStates
<1>2. \A k \in 1 .. Len(s.cmds) : s.cmds[k] \in Nat
  BY <1>1
<1>3. \A k \in DOMAIN s.cmds : s.cmds[k] <= i - 1
  BY DEF Parsed, CommandsOK
<1> QED BY <1>1, <1>2, <1>3

LEMMA SameCommands ==
    ASSUME NEW argv, NEW i, NEW s, NEW t, t.cmds = s.cmds, CommandsOK(argv, s, i)
    PROVE  CommandsOK(argv, t, i)
BY DEF CommandsOK

(* What argument i changes of the operators op of the last command.         *)
OfNext(argv, s, i, op) ==
    LET K == Len(s.cmds) IN
    /\ \A k \in 1 .. K - 1 : Of(argv, s, i, k, op) = Of(argv, s, i - 1, k, op)
    /\ i \in OperatorsIn(argv) /\ argv[i] = op =>
          Of(argv, s, i, K, op) = Of(argv, s, i - 1, K, op) \cup {i}
    /\ ~(i \in OperatorsIn(argv) /\ argv[i] = op) =>
          Of(argv, s, i, K, op) = Of(argv, s, i - 1, K, op)

LEMMA OfLast ==
    ASSUME NEW argv \in Seq(STRING), NEW i \in 2 .. Len(argv), i - 1 \notin OperatorsIn(argv),
           NEW s, Parsed(argv, s, i - 1), NEW op
    PROVE  OfNext(argv, s, i, op)
<1>1. s.cmds \in Seq(1 .. Len(argv)) /\ Len(argv) \in Nat /\ s.cmds # <<>>
  BY DEF Parsed, ParseStates
<1>2. \A k \in 1 .. Len(s.cmds) : s.cmds[k] \in Nat /\ s.cmds[k] < i
  BY CommandsBefore
<1>4. UpTo(argv, i, op) = IF i \in OperatorsIn(argv) /\ argv[i] = op
                          THEN UpTo(argv, i - 1, op) \cup {i} ELSE UpTo(argv, i - 1, op)
  BY UpToNext
<1>5. Len(s.cmds) \in Nat /\ Len(s.cmds) >= 1 /\ ~(Len(s.cmds) < Len(s.cmds))
  BY <1>1, EmptySeq
<1>6. ASSUME NEW k \in 1 .. Len(s.cmds) - 1
      PROVE  Of(argv, s, i, k, op) = Of(argv, s, i - 1, k, op)
  <2>1. k + 1 \in 1 .. Len(s.cmds) /\ k < Len(s.cmds)
    BY <1>5
  <2>2. ~(i < s.cmds[k + 1])
    BY <1>2, <2>1
  <2> QED BY <1>4, <2>1, <2>2 DEF Of
<1>7. i > s.cmds[Len(s.cmds)]
  BY <1>2, <1>5
<1>8. \A n : Of(argv, s, n, Len(s.cmds), op) = {j \in UpTo(argv, n, op) : j > s.cmds[Len(s.cmds)]}
  BY <1>5 DEF Of
<1> DEFINE c == s.cmds[Len(s.cmds)]
<1>9. CASE i \in OperatorsIn(argv) /\ argv[i] = op
  <2>1. UpTo(argv, i, op) = UpTo(argv, i - 1, op) \cup {i}
    BY <1>4, <1>9
  <2> HIDE DEF c
  <2>2. {j \in UpTo(argv, i, op) : j > c} = {j \in UpTo(argv, i - 1, op) : j > c} \cup {i}
    BY <1>7, <2>1 DEF c
  <2> QED BY <1>6, <1>8, <1>9, <2>2 DEF c, OfNext
<1>10. CASE ~(i \in OperatorsIn(argv) /\ argv[i] = op)
  BY <1>4, <1>6, <1>8, <1>10 DEF OfNext
<1> QED BY <1>9, <1>10

(* A redirection operator changes the redirection of the last command.      *)
LEMMA ParsedRedirection ==
    ASSUME NEW argv \in Seq(STRING), NEW i \in OperatorsIn(argv), argv[i] \in {"<", ">"},
           NEW s, Parsed(argv, s, i - 1)
    PROVE  Parsed(argv, ParseArg(argv, s, i), i)
<1> DEFINE K == Len(s.cmds)
           t == IF argv[i] = "<" THEN [s EXCEPT !.in[K] = i + 1, !.operand = TRUE]
                                 ELSE [s EXCEPT !.out[K] = i + 1, !.operand = TRUE]
<1>1. /\ i \in 2 .. Len(argv) - 1 /\ i \in 2 .. Len(argv) /\ Len(argv) \in Nat /\ i \in Nat
      /\ i + 1 \in 0 .. Len(argv)
      /\ IsOperator(argv, i) /\ i - 1 \notin OperatorsIn(argv) /\ s.operand = FALSE
  BY OperatorsFirst DEF OperatorsIn, Parsed, ParseStates
<1>2. /\ s \in ParseStates(Len(argv)) /\ s.cmds # <<>>
      /\ Len(s.in) = K /\ Len(s.out) = K
  BY DEF Parsed
<1>3. K \in Nat /\ K >= 1 /\ DOMAIN s.cmds = 1 .. K /\ DOMAIN s.in = 1 .. K /\ DOMAIN s.out = 1 .. K
  BY <1>2, EmptySeq DEF ParseStates
<1>4. ParseArg(argv, s, i) = t
  BY <1>1, <1>2 DEF ParseArg, Redirected, ParseStates
<1>5. /\ t.cmds = s.cmds /\ t.operand = TRUE
      /\ t.in = IF argv[i] = "<" THEN [s.in EXCEPT ![K] = i + 1] ELSE s.in
      /\ t.out = IF argv[i] = "<" THEN s.out ELSE [s.out EXCEPT ![K] = i + 1]
      /\ t = [cmds |-> s.cmds, in |-> t.in, out |-> t.out, operand |-> TRUE]
  BY <1>2 DEF ParseStates
<1>6. /\ s.in \in Seq(0 .. Len(argv)) /\ s.out \in Seq(0 .. Len(argv)) /\ s.cmds \in Seq(1 .. Len(argv))
  BY <1>2 DEF ParseStates
<1> HIDE DEF t
<1>7. /\ t.in \in Seq(0 .. Len(argv)) /\ Len(t.in) = K
      /\ t.out \in Seq(0 .. Len(argv)) /\ Len(t.out) = K
  <2>1. /\ [s.in EXCEPT ![K] = i + 1] \in Seq(0 .. Len(argv))
        /\ Len([s.in EXCEPT ![K] = i + 1]) = K
        /\ [s.out EXCEPT ![K] = i + 1] \in Seq(0 .. Len(argv))
        /\ Len([s.out EXCEPT ![K] = i + 1]) = K
    BY <1>1, <1>2, <1>3, <1>6, ExceptSeq
  <2> QED BY <1>2, <1>5, <1>6, <2>1
<1>8. t \in ParseStates(Len(argv))
  BY <1>5, <1>6, <1>7 DEF ParseStates
<1>9. \A j \in UpTo(argv, i - 1, argv[i]) : j \in 1 .. i - 1
  BY <1>1, UpToNext
<1>10. CommandsOK(argv, t, i)
  <2>1. CommandsOK(argv, s, i - 1) /\ UpTo(argv, i, "|") = UpTo(argv, i - 1, "|")
    BY <1>1, UpToNext DEF Parsed
  <2>2. \A k \in DOMAIN s.cmds : s.cmds[k] \in Nat /\ s.cmds[k] <= i
    BY <1>1, <1>3, CommandsBefore
  <2>3. CommandsOK(argv, s, i)
    <3> HIDE DEF UpTo
    <3> QED BY <2>1, <2>2 DEF CommandsOK
  <2> QED BY <1>5, <2>3, SameCommands
<1>11. RedirectionsOK(argv, t, i)
  <2>1. \A n, k, op : Of(argv, t, n, k, op) = Of(argv, s, n, k, op)
    BY <1>5 DEF Of
  <2>2. ASSUME NEW op
        PROVE  /\ \A k \in 1 .. K - 1 : Of(argv, s, i, k, op) = Of(argv, s, i - 1, k, op)
               /\ op = argv[i] => Of(argv, s, i, K, op) = Of(argv, s, i - 1, K, op) \cup {i}
               /\ op # argv[i] => Of(argv, s, i, K, op) = Of(argv, s, i - 1, K, op)
    <3>1. OfNext(argv, s, i, op)
      BY <1>1, OfLast
    <3> QED BY <3>1 DEF OfNext
  <2>3. LastOf(Of(argv, s, i, K, argv[i])) = i + 1
    <3>1. Of(argv, s, i - 1, K, argv[i]) \subseteq 1 .. i - 1
      BY <1>9 DEF Of
    <3> QED BY <1>1, <2>2, <3>1, LastOfNext
  <2>4. ASSUME NEW k \in 1 .. K
        PROVE  t.in[k] = LastOf(Of(argv, s, i, k, "<")) /\ t.out[k] = LastOf(Of(argv, s, i, k, ">"))
    <3>1. s.in[k] = LastOf(Of(argv, s, i - 1, k, "<")) /\ s.out[k] = LastOf(Of(argv, s, i - 1, k, ">"))
      BY DEF Parsed, RedirectionsOK
    <3>2. CASE k # K
      <4>1. k \in 1 .. K - 1 /\ t.in[k] = s.in[k] /\ t.out[k] = s.out[k]
        BY <1>3, <1>5, <3>2
      <4> QED BY <2>2, <3>1, <4>1
    <3>3. CASE k = K /\ argv[i] = "<"
      <4>1. t.in[k] = i + 1 /\ t.out[k] = s.out[k]
        BY <1>3, <1>5, <3>3
      <4> QED BY <2>2, <2>3, <3>1, <3>3, <4>1
    <3>4. CASE k = K /\ argv[i] = ">"
      <4>1. t.out[k] = i + 1 /\ t.in[k] = s.in[k]
        BY <1>3, <1>5, <3>4
      <4> QED BY <2>2, <2>3, <3>1, <3>4, <4>1
    <3> QED BY <3>2, <3>3, <3>4
  <2> QED BY <1>5, <2>1, <2>4 DEF RedirectionsOK
<1> QED BY <1>1, <1>2, <1>4, <1>5, <1>7, <1>8, <1>10, <1>11 DEF Parsed

LEMMA Appended ==
    ASSUME NEW S, NEW q \in Seq(S), NEW e \in S, NEW r, r = Append(q, e)
    PROVE  /\ r \in Seq(S) /\ Len(r) = Len(q) + 1 /\ DOMAIN r = 1 .. Len(q) + 1
           /\ r[Len(q) + 1] = e
           /\ \A k \in 1 .. Len(q) : r[k] = q[k]
<1>1. r \in Seq(S) /\ Len(r) = Len(q) + 1
  BY AppendProperties
<1>2. r[Len(q) + 1] = e /\ \A k \in 1 .. Len(q) : r[k] = q[k]
  BY AppendProperties
<1> QED BY <1>1, <1>2

(* A pipe begins a command.                                                 *)
LEMMA ParsedPipe ==
    ASSUME NEW argv \in Seq(STRING), NEW i \in OperatorsIn(argv), argv[i] = "|",
           NEW s, Parsed(argv, s, i - 1)
    PROVE  Parsed(argv, ParseArg(argv, s, i), i)
<1> DEFINE K == Len(s.cmds)
           t == [cmds |-> Append(s.cmds, i + 1), in |-> Append(s.in, 0), out |-> Append(s.out, 0),
                 operand |-> TRUE]
<1>1. /\ i \in 2 .. Len(argv) - 1 /\ i \in 2 .. Len(argv) /\ Len(argv) \in Nat /\ i \in Nat
      /\ i + 1 \in 1 .. Len(argv) /\ 0 \in 0 .. Len(argv)
      /\ IsOperator(argv, i) /\ i - 1 \notin OperatorsIn(argv) /\ s.operand = FALSE
  BY OperatorsFirst DEF OperatorsIn, Parsed, ParseStates
<1>2. /\ s \in ParseStates(Len(argv)) /\ s.cmds # <<>>
      /\ Len(s.in) = K /\ Len(s.out) = K
  BY DEF Parsed
<1>3. K \in Nat /\ K >= 1 /\ DOMAIN s.cmds = 1 .. K
  BY <1>2, EmptySeq DEF ParseStates
<1>4. ParseArg(argv, s, i) = t
  <2>1. ParseArg(argv, s, i) = [Redirected(argv, s, i) EXCEPT !.operand = TRUE]
    BY <1>1 DEF ParseArg
  <2>2. Redirected(argv, s, i) = [s EXCEPT !.cmds = Append(@, i + 1), !.in = Append(@, 0),
                                           !.out = Append(@, 0)]
    BY DEF Redirected
  <2>3. s = [cmds |-> s.cmds, in |-> s.in, out |-> s.out, operand |-> s.operand]
    BY <1>2 DEF ParseStates
  <2> DEFINE c == Append(s.cmds, i + 1)
             n == Append(s.in, 0)
             o == Append(s.out, 0)
             y == TRUE
  <2>4. Redirected(argv, s, i) = [s EXCEPT !.cmds = c, !.in = n, !.out = o]
    BY <2>2
  <2>5. t = [cmds |-> c, in |-> n, out |-> o, operand |-> y]
    OBVIOUS
  <2>6. ParseArg(argv, s, i) = [Redirected(argv, s, i) EXCEPT !.operand = y]
    BY <2>1
  <2> HIDE DEF c, n, o, t, y
  <2> QED BY <2>3, <2>4, <2>5, <2>6
<1>5. /\ t.cmds = Append(s.cmds, i + 1) /\ t.in = Append(s.in, 0) /\ t.out = Append(s.out, 0)
      /\ t.operand = TRUE
      /\ t = [cmds |-> t.cmds, in |-> t.in, out |-> t.out, operand |-> TRUE]
  OBVIOUS
<1>6. /\ s.in \in Seq(0 .. Len(argv)) /\ s.out \in Seq(0 .. Len(argv)) /\ s.cmds \in Seq(1 .. Len(argv))
  BY <1>2 DEF ParseStates
<1> HIDE DEF t
<1> HIDE DEF K
<1>7. /\ t.cmds \in Seq(1 .. Len(argv)) /\ Len(t.cmds) = K + 1 /\ DOMAIN t.cmds = 1 .. K + 1
      /\ t.cmds[K + 1] = i + 1 /\ \A k \in 1 .. K : t.cmds[k] = s.cmds[k]
  BY <1>1, <1>5, <1>6, Appended DEF K
<1>8. /\ t.in \in Seq(0 .. Len(argv)) /\ Len(t.in) = K + 1
      /\ t.in[K + 1] = 0 /\ \A k \in 1 .. K : t.in[k] = s.in[k]
  <2>1. /\ t.in \in Seq(0 .. Len(argv)) /\ Len(t.in) = Len(s.in) + 1
        /\ t.in[Len(s.in) + 1] = 0 /\ \A k \in 1 .. Len(s.in) : t.in[k] = s.in[k]
    BY <1>1, <1>5, <1>6, Appended
  <2> QED BY <1>2, <2>1
<1>9. /\ t.out \in Seq(0 .. Len(argv)) /\ Len(t.out) = K + 1
      /\ t.out[K + 1] = 0 /\ \A k \in 1 .. K : t.out[k] = s.out[k]
  <2>1. /\ t.out \in Seq(0 .. Len(argv)) /\ Len(t.out) = Len(s.out) + 1
        /\ t.out[Len(s.out) + 1] = 0 /\ \A k \in 1 .. Len(s.out) : t.out[k] = s.out[k]
    BY <1>1, <1>5, <1>6, Appended
  <2> QED BY <1>2, <2>1
<1>10. \A k \in 1 .. K : s.cmds[k] \in Nat /\ s.cmds[k] < i
  BY <1>1, CommandsBefore DEF K
<1>11. CommandsOK(argv, t, i)
  <2> DEFINE U == UpTo(argv, i - 1, "|")
  <2>1. CommandsOK(argv, s, i - 1)
    BY DEF Parsed
  <2>2. UpTo(argv, i, "|") = U \cup {i} /\ IsFiniteSet(U) /\ U \subseteq 1 .. i - 1
    BY <1>1, UpToNext
  <2> HIDE DEF U
  <2>3. t.cmds[1] = 1
    BY <1>3, <1>7, <2>1 DEF CommandsOK
  <2>4. ASSUME NEW j \in DOMAIN t.cmds, NEW k \in DOMAIN t.cmds, j < k
        PROVE  t.cmds[j] < t.cmds[k]
    <3>1. j \in 1 .. K
      BY <1>3, <1>7, <2>4
    <3>2. CASE k = K + 1
      BY <1>1, <1>7, <1>10, <3>1, <3>2
    <3>3. CASE k \in 1 .. K
      BY <1>3, <1>7, <2>1, <2>4, <3>1, <3>3 DEF CommandsOK
    <3> QED BY <1>3, <1>7, <3>2, <3>3
  <2>5. \A k \in DOMAIN t.cmds : t.cmds[k] <= i \/ t.cmds[k] = i + 1
    <3>1. \A k \in 1 .. K : t.cmds[k] <= i
      BY <1>1, <1>7, <1>10
    <3>2. \A k \in DOMAIN t.cmds : k \in 1 .. K \/ k = K + 1
      BY <1>3, <1>7
    <3> QED BY <1>7, <3>1, <3>2
  <2>6. {t.cmds[k] : k \in 2 .. Len(t.cmds)} = {j + 1 : j \in UpTo(argv, i, "|")}
    <3>1. {s.cmds[k] : k \in 2 .. K} = {j + 1 : j \in U}
      BY <2>1 DEF CommandsOK, U, K
    <3>2. {t.cmds[k] : k \in 2 .. K + 1} = {s.cmds[k] : k \in 2 .. K} \cup {i + 1}
      <4>1. \A k \in 2 .. K + 1 : k = K + 1 \/ (k \in 2 .. K /\ k \in 1 .. K)
        BY <1>3
      <4>2. \A k \in 2 .. K : k \in 2 .. K + 1 /\ k \in 1 .. K
        BY <1>3
      <4>3. K + 1 \in 2 .. K + 1
        BY <1>3
      <4> QED BY <1>7, <4>1, <4>2, <4>3
    <3>3. {j + 1 : j \in U \cup {i}} = {j + 1 : j \in U} \cup {i + 1}
      OBVIOUS
    <3> QED BY <1>7, <2>2, <3>1, <3>2, <3>3
  <2>7. Len(t.cmds) = Cardinality(UpTo(argv, i, "|")) + 1
    <3>1. i \notin U
      BY <1>1, <2>2
    <3>2. Cardinality(U \cup {i}) = Cardinality(U) + 1
      BY <2>2, <3>1, FS_AddElement
    <3>3. K = Cardinality(U) + 1
      BY <2>1 DEF CommandsOK, U, K
    <3> QED BY <1>7, <2>2, <3>2, <3>3
  <2> QED BY <2>3, <2>4, <2>5, <2>6, <2>7 DEF CommandsOK
<1>12. RedirectionsOK(argv, t, i)
  <2>1. ASSUME NEW op, op # "|", NEW k \in 1 .. K
        PROVE  Of(argv, t, i, k, op) = Of(argv, s, i - 1, k, op)
    <3>1. OfNext(argv, s, i, op)
      BY <1>1, OfLast
    <3>2. CASE k # K
      <4>1. k \in 1 .. K - 1 /\ k + 1 \in 1 .. K /\ k < K /\ k < K + 1
        BY <1>3, <3>2
      <4>2. Of(argv, t, i, k, op) = Of(argv, s, i, k, op)
        BY <1>7, <4>1 DEF Of, K
      <4> QED BY <3>1, <4>1, <4>2 DEF OfNext, K
    <3>3. CASE k = K
      <4>1. UpTo(argv, i, op) = UpTo(argv, i - 1, op) /\ UpTo(argv, i - 1, op) \subseteq 1 .. i - 1
        BY <1>1, <2>1, UpToNext
      <4>2. \A j \in UpTo(argv, i - 1, op) : j < i + 1
        BY <1>1, <4>1
      <4>3. t.cmds[K] = s.cmds[K] /\ t.cmds[K + 1] = i + 1 /\ K < K + 1 /\ ~(K < K)
        BY <1>3, <1>7
      <4> QED BY <1>7, <3>3, <4>1, <4>2, <4>3 DEF Of, K
    <3> QED BY <3>2, <3>3
  <2>2. ASSUME NEW op, op # "|" PROVE Of(argv, t, i, K + 1, op) = {}
    <3>1. UpTo(argv, i, op) \subseteq 1 .. i - 1
      BY <1>1, <2>2, UpToNext
    <3>2. \A j \in UpTo(argv, i, op) : ~(j > i + 1)
      BY <1>1, <3>1
    <3> QED BY <1>7, <3>2 DEF Of
  <2>3. ASSUME NEW k \in 1 .. K + 1
        PROVE  t.in[k] = LastOf(Of(argv, t, i, k, "<")) /\ t.out[k] = LastOf(Of(argv, t, i, k, ">"))
    <3>1. CASE k \in 1 .. K
      <4>1. s.in[k] = LastOf(Of(argv, s, i - 1, k, "<")) /\ s.out[k] = LastOf(Of(argv, s, i - 1, k, ">"))
        BY <3>1 DEF Parsed, RedirectionsOK, K
      <4> QED BY <1>8, <1>9, <2>1, <3>1, <4>1
    <3>2. CASE k = K + 1
      BY <1>8, <1>9, <2>2, <3>2 DEF LastOf
    <3> QED BY <1>3, <3>1, <3>2
  <2> QED BY <1>7, <2>3 DEF RedirectionsOK
<1>13. t \in ParseStates(Len(argv)) /\ t.operand = TRUE
  BY <1>5, <1>7, <1>8, <1>9 DEF ParseStates
<1> QED BY <1>1, <1>3, <1>4, <1>7, <1>8, <1>9, <1>11, <1>12, <1>13 DEF Parsed

LEMMA ParsedStep ==
    ASSUME NEW argv \in Seq(STRING), NEW i \in 2 .. Len(argv), NEW s, Parsed(argv, s, i - 1)
    PROVE  Parsed(argv, ParseArg(argv, s, i), i)
<1>1. CASE i \in OperatorsIn(argv)
  <2>1. argv[i] \in {"<", ">"} \/ argv[i] = "|"
    BY <1>1 DEF OperatorsIn, Operators
  <2> QED BY <1>1, <2>1, ParsedRedirection, ParsedPipe
<1>2. CASE i \notin OperatorsIn(argv)
  <2>1. s.operand \/ ~IsOperator(argv, i)
    BY <1>2, OperatorStep DEF Parsed
  <2>2. s \in ParseStates(Len(argv))
    BY DEF Parsed
  <2>3. ParseArg(argv, s, i) = [s EXCEPT !.operand = FALSE]
    BY <2>1, <2>2 DEF ParseArg, ParseStates
  <2> QED BY <1>2, <2>3, ParsedPlain
<1> QED BY <1>1, <1>2

(* What parseargs has found of any arguments.                               *)
LEMMA ParsedAll ==
    ASSUME NEW argv \in Seq(STRING), argv # <<>>
    PROVE  Parsed(argv, ParseArgs(argv), Len(argv))
<1>1. Len(argv) \in Nat /\ Len(argv) >= 1
  BY EmptySeq
<1>2. PICK parse : IsParse(argv, parse, Len(argv)) /\ ParseArgs(argv) = parse[Len(argv)]
  BY <1>1, ParseSteps
<1> DEFINE S == {n \in Nat : n \in 1 .. Len(argv) => Parsed(argv, parse[n], n)}
<1>3. 0 \in S
  OBVIOUS
<1>4. ASSUME NEW n \in Nat, n \in S PROVE n + 1 \in S
  <2> SUFFICES ASSUME n + 1 \in 1 .. Len(argv) PROVE Parsed(argv, parse[n + 1], n + 1)
    OBVIOUS
  <2>1. CASE n = 0
    <3>1. parse[1] = FirstArg
      BY <1>1, <1>2 DEF IsParse
    <3> QED BY <2>1, <3>1, ParsedFirst
  <2>2. CASE n # 0
    <3>1. n \in 1 .. Len(argv) /\ n + 1 \in 2 .. Len(argv) /\ n + 1 - 1 = n /\ n + 1 # 1
      BY <1>1, <2>2
    <3>2. parse[n + 1] = ParseArg(argv, parse[n], n + 1)
      BY <1>2, <3>1 DEF IsParse
    <3>3. Parsed(argv, parse[n], n + 1 - 1)
      BY <1>4, <3>1
    <3> QED BY <3>1, <3>2, <3>3, ParsedStep
  <2> QED BY <2>1, <2>2
<1>5. Len(argv) \in S
  <2> HIDE DEF S
  <2> QED BY <1>1, <1>3, <1>4, NatSetInduction
<1> QED BY <1>1, <1>2, <1>5

-----------------------------------------------------------------------------
(* The shell and its children.                                              *)

LEMMA IndexesParsed ==
    ASSUME NEW argv \in Seq(STRING), argv # <<>>
    PROVE  Indexes(argv, ParseArgs(argv))
<1>1. Parsed(argv, ParseArgs(argv), Len(argv))
  BY ParsedAll
<1> QED BY <1>1 DEF Parsed, ParseStates, Indexes

LEMMA IndexesOK ==
    ASSUME Typed, sh.pc \in Looping
    PROVE  Indexes(sh.argv, sh)
<1>1. sh.argv \in Seq(STRING) /\ sh.argv # <<>>
  BY DEF Typed, Shells, PlaceOK
<1>2. Indexes(sh.argv, ParseArgs(sh.argv))
  BY <1>1, IndexesParsed
<1> QED BY <1>2 DEF Typed, PlaceOK, Indexes

LEMMA LineParsed ==
    ASSUME NEW line \in Seq(STRING)
    PROVE  ParseLine(line).argv \in Seq(STRING) /\ ParseLine(line).bg \in BOOLEAN
<1>1. line # <<>> => Front(line) \in Seq(STRING)
  <2> SUFFICES ASSUME line # <<>> PROVE Front(line) \in Seq(STRING)
    OBVIOUS
  <2>1. Len(line) \in Nat /\ Len(line) >= 1 /\ 1 \in Int /\ Len(line) - 1 \in Int
    BY EmptySeq
  <2> QED BY <2>1, SubSeqProperties DEF Front
<1> QED BY <1>1 DEF ParseLine

LEMMA Initially == Init => IInv
<1> SUFFICES ASSUME Init PROVE IInv
  OBVIOUS
<1>1. /\ script \in Seq(Seq(STRING)) /\ files \subseteq STRING /\ sh = Prompt(0) /\ proc = <<>>
  BY TshAssumption DEF Init
<1>2. sh \in Shells
  BY <1>1 DEF Prompt, Shells, Pcs
<1>3. Len(script) \in Nat /\ DOMAIN proc = {} /\ proc \in Seq(Children)
  BY <1>1
<1>4. sh.pc = "prompt" /\ sh.n = 0 /\ sh.pid = <<>> /\ sh.fds = {}
  BY <1>1 DEF Prompt
<1>5. Typed
  BY <1>1, <1>2, <1>3, <1>4 DEF Typed, PlaceOK, Looping
<1> QED BY <1>3, <1>4, <1>5 DEF IInv, EndsOK, WaitOK

(* One lemma per action: it preserves the invariant.                        *)
LEMMA ReadLineOK ==
    ASSUME IInv, ReadLine
    PROVE  IInv'
<1>1. /\ sh.pc = "prompt" /\ script' = script /\ proc' = proc /\ files' = files
      /\ sh \in Shells /\ sh.n <= Len(script) /\ script \in Seq(Seq(STRING)) /\ sh.pid = <<>>
      /\ sh.fds = {}
  BY DEF ReadLine, IInv, Typed, PlaceOK, EndsOK
<1>2. \A p \in DOMAIN proc : ~ (proc[p].fg /\ proc[p].st # "reaped")
  BY <1>1 DEF IInv, WaitOK, Awaited
<1>3. CASE sh' \in {[sh EXCEPT !.pc = "exited"], [sh EXCEPT !.pc = "crashed"]}
  <2>1. sh' \in Shells /\ sh'.n = sh.n /\ sh'.pid = <<>> /\ sh'.fds = {} /\ sh'.pc \in {"exited", "crashed"}
    BY <1>1, <1>3 DEF Shells, Pcs
  <2>2. Typed'
    BY <1>1, <2>1 DEF IInv, Typed, PlaceOK, Looping
  <2>3. EndsOK(sh')
    BY <2>1 DEF EndsOK
  <2>4. WaitOK'
    BY <1>1, <1>2 DEF WaitOK
  <2> QED BY <1>1, <2>2, <2>3, <2>4 DEF IInv
<1>4. CASE sh' \notin {[sh EXCEPT !.pc = "exited"], [sh EXCEPT !.pc = "crashed"]}
  <2> DEFINE line == script[sh.n + 1]
             argv == ParseLine(line).argv
             a == ParseArgs(argv)
             bg == ParseLine(line).bg
  <2>1. sh.n + 1 \in 1 .. Len(script) /\ line \in Seq(STRING) /\ sh.n # Len(script)
    <3>1. sh.n # Len(script)
      BY <1>1, <1>4 DEF ReadLine
    <3> QED BY <1>1, <3>1 DEF Shells
  <2>2. /\ argv # <<>>
        /\ sh' = [sh EXCEPT !.pc = "fork", !.n = sh.n + 1, !.i = 1, !.argv = argv, !.bg = bg,
                            !.cmds = a.cmds, !.in = a.in, !.out = a.out]
    BY <1>4, <2>1 DEF ReadLine
  <2>3. argv \in Seq(STRING) /\ bg \in BOOLEAN
    BY <2>1, LineParsed
  <2>4. Indexes(argv, a)
    BY <2>2, <2>3, IndexesParsed
  <2>5. /\ a.cmds \in Seq(Nat) /\ a.in \in Seq(Nat) /\ a.out \in Seq(Nat) /\ 1 \in 1 .. Len(a.cmds)
    <3>1. Len(argv) \in Nat
      BY <2>3
    <3>2. /\ a.cmds \in Seq(1 .. Len(argv)) /\ a.in \in Seq(0 .. Len(argv)) /\ a.out \in Seq(0 .. Len(argv))
          /\ a.cmds # <<>>
      BY <2>4 DEF Indexes
    <3>3. a.cmds \in Seq(Nat) /\ a.in \in Seq(Nat) /\ a.out \in Seq(Nat)
      BY <3>1, <3>2, SeqMonotonic
    <3> QED BY <3>2, <3>3, EmptySeq
  <2> HIDE DEF a, argv, bg
  <2>6. sh' \in Shells
    <3> DEFINE n == sh.n + 1
               c == a.cmds
               in == a.in
               out == a.out
    <3>1. /\ n \in Nat /\ c \in Seq(Nat) /\ in \in Seq(Nat) /\ out \in Seq(Nat) /\ "fork" \in Pcs
          /\ sh' = [sh EXCEPT !.pc = "fork", !.n = n, !.i = 1, !.argv = argv, !.bg = bg,
                              !.cmds = c, !.in = in, !.out = out]
      BY <1>1, <2>2, <2>5 DEF Shells, Pcs
    <3> HIDE DEF n, c, in, out
    <3> QED BY <1>1, <2>3, <3>1 DEF Shells
  <2>7. /\ sh'.pc = "fork" /\ sh'.n = sh.n + 1 /\ sh'.i = 1 /\ sh'.argv = argv /\ sh'.cmds = a.cmds
        /\ sh'.in = a.in /\ sh'.out = a.out /\ sh'.pid = <<>> /\ sh'.fds = {}
    BY <1>1, <2>2 DEF Shells
  <2>8. PlaceOK(sh')
    BY <2>2, <2>5, <2>7 DEF PlaceOK, a
  <2>9. Typed'
    BY <1>1, <2>1, <2>6, <2>7, <2>8 DEF IInv, Typed
  <2>10. EndsOK(sh')
    BY <2>7 DEF EndsOK
  <2>11. WaitOK'
    BY <1>1, <1>2 DEF WaitOK
  <2> QED BY <1>1, <2>9, <2>10, <2>11 DEF IInv
<1> QED BY <1>3, <1>4

LEMMA ForkOK ==
    ASSUME IInv, Fork
    PROVE  IInv'
<1> DEFINE fds == sh.fds \cup (IF sh.i < NumCmd THEN Ends(sh.n, sh.i) ELSE {})
           me == Len(proc) + 1
           c == Child(me, fds)
<1>1. /\ sh.pc = "fork" /\ script' = script /\ files' = files /\ sh \in Shells
      /\ sh.n <= Len(script) /\ script \in Seq(Seq(STRING)) /\ files \subseteq STRING
      /\ proc \in Seq(Children) /\ Len(sh.pid) = sh.i - 1 /\ sh.i \in 1 .. Len(sh.cmds)
      /\ \A k \in DOMAIN sh.pid : sh.pid[k] <= Len(proc)
  BY DEF Fork, IInv, Typed, PlaceOK, Looping
<1>2. /\ sh.n \in Nat /\ sh.i \in Nat /\ sh.i >= 1 /\ sh.pid \in Seq(Nat) /\ me \in Nat
      /\ Len(sh.cmds) \in Nat /\ Len(proc) \in Nat
  BY <1>1 DEF Shells
<1>3. PICK id \in {0, me} :
        /\ sh' = [sh EXCEPT !.pc = "close", !.fds = fds, !.pid = Append(sh.pid, id)]
        /\ id = me => proc' = Append(proc, c)
        /\ id = 0 => proc' = proc
  BY <1>2 DEF Fork
<1>4. fds \subseteq {R(sh.n, sh.i - 1)} \cup (IF sh.i < NumCmd THEN Ends(sh.n, sh.i) ELSE {})
  BY <1>1 DEF IInv, EndsOK
<1>5. fds \subseteq AllEnds
  BY <1>2, <1>4 DEF AllEnds, Ends, R, W
<1> HIDE DEF fds, me, c
<1>6. /\ Append(sh.pid, id) \in Seq(Nat) /\ Len(Append(sh.pid, id)) = sh.i
      /\ DOMAIN Append(sh.pid, id) = 1 .. sh.i
      /\ Append(sh.pid, id)[sh.i] = id
      /\ \A k \in 1 .. sh.i - 1 : Append(sh.pid, id)[k] = sh.pid[k]
  <2>1. id \in Nat
    BY <1>2
  <2> QED BY <1>1, <1>2, <2>1, Appended
<1>7. sh' \in Shells
  <2> DEFINE pid == Append(sh.pid, id)
  <2>1. pid \in Seq(Nat) /\ sh' = [sh EXCEPT !.pc = "close", !.fds = fds, !.pid = pid]
    BY <1>3, <1>6
  <2> HIDE DEF pid
  <2> QED BY <1>1, <1>5, <2>1 DEF Shells, Pcs
<1>8. /\ sh'.pc = "close" /\ sh'.n = sh.n /\ sh'.i = sh.i /\ sh'.argv = sh.argv /\ sh'.cmds = sh.cmds
      /\ sh'.in = sh.in /\ sh'.out = sh.out /\ sh'.bg = sh.bg /\ sh'.pid = Append(sh.pid, id)
      /\ sh'.fds = fds
  BY <1>1, <1>3 DEF Shells
<1>9. PlaceOK(sh')
  BY <1>1, <1>6, <1>8 DEF IInv, Typed, PlaceOK, Looping
<1>10. EndsOK(sh')
  BY <1>4, <1>8 DEF EndsOK, NumCmd
<1>11. c \in Children
  <2>1. Indexes(sh.argv, sh)
    BY <1>1, IndexesOK DEF IInv, Looping
  <2>2. sh.argv \in Seq(STRING)
    BY <1>1 DEF Shells
  <2>3. /\ sh.argv[sh.cmds[sh.i]] \in STRING
        /\ sh.in[sh.i] # 0 => sh.argv[sh.in[sh.i]] \in STRING
        /\ sh.out[sh.i] # 0 => sh.argv[sh.out[sh.i]] \in STRING
    <3>1. /\ sh.cmds[sh.i] \in 1 .. Len(sh.argv)
          /\ sh.in[sh.i] \in 0 .. Len(sh.argv) /\ sh.out[sh.i] \in 0 .. Len(sh.argv)
      <4>1. /\ sh.cmds \in Seq(1 .. Len(sh.argv))
            /\ sh.in \in Seq(0 .. Len(sh.argv)) /\ sh.out \in Seq(0 .. Len(sh.argv))
            /\ Len(sh.in) = Len(sh.cmds) /\ Len(sh.out) = Len(sh.cmds)
        BY <2>1 DEF Indexes
      <4> QED BY <1>1, <4>1, ElementOfSeq
    <3> QED BY <2>2, <3>1, ElementOfSeq
  <2>4. (IF sh.i = 1 THEN me ELSE sh.pid[1]) \in Nat
    <3>1. sh.i # 1 => 1 \in 1 .. Len(sh.pid)
      BY <1>1, <1>2
    <3> QED BY <1>2, <3>1, ElementOfSeq
  <2>5. (~sh.bg) \in BOOLEAN /\ (sh.i = NumCmd) \in BOOLEAN /\ FALSE \in BOOLEAN
    OBVIOUS
  <2> DEFINE last == sh.i = NumCmd
             fg == ~sh.bg
             leader == IF sh.i = 1 THEN me ELSE sh.pid[1]
             prog == sh.argv[sh.cmds[sh.i]]
             rin == IF sh.in[sh.i] = 0 THEN None ELSE sh.argv[sh.in[sh.i]]
             rout == IF sh.out[sh.i] = 0 THEN None ELSE sh.argv[sh.out[sh.i]]
             no == FALSE
  <2>6. c = [st |-> "new", n |-> sh.n, i |-> sh.i, last |-> last, fg |-> fg, leader |-> leader,
             pg |-> 0, fds |-> fds, in |-> None, out |-> None, prog |-> prog,
             rin |-> rin, rout |-> rout, streams |-> {}, todo |-> no]
    BY DEF c, Child
  <2>7. /\ last \in BOOLEAN /\ fg \in BOOLEAN /\ no \in BOOLEAN /\ leader \in Nat /\ prog \in STRING
        /\ rin \in STRING \cup {None} /\ rout \in STRING \cup {None}
    BY <2>3, <2>4, <2>5
  <2> HIDE DEF last, fg, no, leader, prog, rin, rout
  <2> QED BY <1>2, <1>5, <2>6, <2>7 DEF Children
<1>12. c.st = "new" /\ c.fg = ~sh.bg /\ c.n = sh.n /\ c.i = sh.i /\ c.fds = fds
       /\ c.in = None /\ c.out = None
  BY DEF c, Child
<1>13. ChildEndsOK(c)
  BY <1>4, <1>12 DEF ChildEndsOK
<1>14. /\ proc' \in Seq(Children) /\ Len(proc') >= Len(proc) /\ Len(proc') \in Nat
       /\ id <= Len(proc')
       /\ \A p \in DOMAIN proc' : (p \in DOMAIN proc /\ proc'[p] = proc[p])
                                    \/ (id = me /\ p = me /\ proc'[p] = c)
  <2>1. CASE id = 0
    <3>1. id # me
      BY <1>2, <2>1 DEF me
    <3> QED BY <1>1, <1>2, <1>3, <2>1, <3>1
  <2>2. CASE id = me
    <3>1. /\ proc' \in Seq(Children) /\ Len(proc') = Len(proc) + 1
          /\ DOMAIN proc' = 1 .. Len(proc) + 1
          /\ proc'[Len(proc) + 1] = c /\ \A k \in 1 .. Len(proc) : proc'[k] = proc[k]
      <4>1. proc' = Append(proc, c)
        BY <1>3, <2>2
      <4> QED BY <1>1, <1>11, <4>1, Appended
    <3>2. me = Len(proc) + 1 /\ DOMAIN proc = 1 .. Len(proc)
      BY <1>1 DEF me
    <3>3. \A p \in 1 .. Len(proc) + 1 : p \in 1 .. Len(proc) \/ p = Len(proc) + 1
      BY <1>2
    <3>4. \A p \in DOMAIN proc' : (p \in DOMAIN proc /\ proc'[p] = proc[p]) \/ (p = me /\ proc'[p] = c)
      BY <3>1, <3>2, <3>3
    <3> QED BY <1>2, <2>2, <3>1, <3>2, <3>4
  <2> QED BY <2>1, <2>2
<1>15. Typed'
  <2>1. \A k \in DOMAIN sh'.pid : sh'.pid[k] <= Len(proc')
    <3>1. ASSUME NEW k \in 1 .. sh.i PROVE sh'.pid[k] <= Len(proc')
      <4>1. CASE k = sh.i
        BY <1>6, <1>8, <1>14, <4>1
      <4>2. CASE k # sh.i
        <5>1. k \in 1 .. sh.i - 1 /\ k \in DOMAIN sh.pid
          BY <1>1, <1>2, <4>2
        <5>2. sh'.pid[k] = sh.pid[k] /\ sh.pid[k] \in Nat /\ sh.pid[k] <= Len(proc)
          BY <1>1, <1>2, <1>6, <1>8, <5>1, ElementOfSeq
        <5> QED BY <1>2, <1>14, <5>2
      <4> QED BY <4>1, <4>2
    <3> QED BY <1>6, <1>8, <3>1
  <2> QED BY <1>1, <1>7, <1>8, <1>9, <1>14, <2>1 DEF Typed
<1>16. WaitOK'
  <2> SUFFICES ASSUME NEW p \in DOMAIN proc', proc'[p].fg, proc'[p].st # "reaped"
               PROVE  Awaited(sh', p)
    BY DEF WaitOK
  <2>1. CASE p \in DOMAIN proc /\ proc'[p] = proc[p]
    <3>1. Awaited(sh, p)
      BY <2>1 DEF IInv, WaitOK
    <3>2. PICK k \in DOMAIN sh.pid : sh.pid[k] = p
      BY <1>1, <3>1 DEF Awaited, Looping
    <3>3. k \in 1 .. sh.i - 1 /\ k \in 1 .. sh.i
      BY <1>1, <1>2
    <3>4. k \in DOMAIN sh'.pid /\ sh'.pid[k] = p /\ ~sh'.bg
      BY <1>1, <1>6, <1>8, <3>1, <3>2, <3>3 DEF Awaited, Looping
    <3> QED BY <1>8, <3>4 DEF Awaited
  <2>2. CASE id = me /\ p = me /\ proc'[p] = c
    <3>1. sh.i \in DOMAIN sh'.pid /\ sh'.pid[sh.i] = p /\ ~sh'.bg
      <4>1. ~sh.bg
        BY <1>12, <2>2
      <4>2. sh.i \in 1 .. sh.i
        BY <1>2
      <4> QED BY <1>6, <1>8, <2>2, <4>1, <4>2
    <3> QED BY <1>8, <3>1 DEF Awaited
  <2> QED BY <1>14, <2>1, <2>2
<1>17. \A p \in DOMAIN proc' : ChildEndsOK(proc'[p])
  BY <1>13, <1>14 DEF IInv
<1> QED BY <1>10, <1>15, <1>16, <1>17 DEF IInv

(* The prompt comes back with no descriptor and nobody to wait for.         *)
LEMMA PromptOK ==
    ASSUME NEW n \in Nat
    PROVE  /\ Prompt(n) \in Shells /\ PlaceOK(Prompt(n)) /\ EndsOK(Prompt(n))
           /\ Prompt(n).n = n /\ Prompt(n).pid = <<>>
<1>1. Prompt(n) \in Shells
  BY DEF Prompt, Shells, Pcs
<1> QED BY <1>1 DEF Prompt, PlaceOK, Looping, EndsOK

LEMMA CloseOK ==
    ASSUME IInv, Close
    PROVE  IInv'
<1> DEFINE fds == sh.fds \ {W(sh.n, sh.i), R(sh.n, sh.i - 1)}
<1>1. /\ sh.pc = "close" /\ script' = script /\ files' = files /\ proc' = proc /\ sh \in Shells
      /\ sh.n <= Len(script) /\ script \in Seq(Seq(STRING)) /\ files \subseteq STRING
      /\ Len(sh.pid) = sh.i /\ sh.i \in 1 .. Len(sh.cmds)
      /\ \A k \in DOMAIN sh.pid : sh.pid[k] <= Len(proc)
  BY DEF Close, IInv, Typed, PlaceOK, Looping
<1>2. sh.n \in Nat /\ sh.i \in Nat /\ sh.i >= 1 /\ Len(sh.cmds) \in Nat /\ sh.bg \in BOOLEAN
  BY <1>1 DEF Shells
<1>3. fds \in SUBSET AllEnds /\ fds \subseteq IF sh.i < Len(sh.cmds) THEN {R(sh.n, sh.i)} ELSE {}
  <2>1. sh.fds \in SUBSET AllEnds /\
        sh.fds \subseteq {R(sh.n, sh.i - 1)} \cup
                         (IF sh.i < Len(sh.cmds) THEN Ends(sh.n, sh.i) ELSE {})
    BY <1>1 DEF IInv, EndsOK, Shells
  <2> QED BY <2>1 DEF Ends
<1>4. \/ sh.i < NumCmd /\ sh' = [sh EXCEPT !.pc = "fork", !.i = sh.i + 1, !.fds = fds]
      \/ sh.i = NumCmd /\ ~sh.bg /\ sh' = [sh EXCEPT !.pc = "wait", !.i = 1, !.fds = fds]
      \/ sh.i = NumCmd /\ sh.bg /\ sh' = [Prompt(sh.n) EXCEPT !.fds = fds]
  BY <1>1, <1>2 DEF Close, NextCommand, NumCmd
<1> HIDE DEF fds
<1>5. CASE sh.i < NumCmd /\ sh' = [sh EXCEPT !.pc = "fork", !.i = sh.i + 1, !.fds = fds]
  <2>1. sh' \in Shells
    <3> DEFINE j == sh.i + 1
    <3>1. j \in Nat /\ "fork" \in Pcs /\ sh' = [sh EXCEPT !.pc = "fork", !.i = j, !.fds = fds]
      BY <1>2, <1>5 DEF Pcs
    <3> HIDE DEF j
    <3> QED BY <1>1, <1>3, <3>1 DEF Shells
  <2>2. /\ sh'.pc = "fork" /\ sh'.n = sh.n /\ sh'.i = sh.i + 1 /\ sh'.argv = sh.argv
        /\ sh'.cmds = sh.cmds /\ sh'.in = sh.in /\ sh'.out = sh.out /\ sh'.bg = sh.bg
        /\ sh'.pid = sh.pid /\ sh'.fds = fds
    BY <1>1, <1>5 DEF Shells
  <2>3. sh.i + 1 \in 1 .. Len(sh.cmds) /\ sh.i + 1 - 1 = sh.i
    BY <1>1, <1>2, <1>5 DEF NumCmd
  <2>4. PlaceOK(sh')
    BY <1>1, <2>2, <2>3 DEF IInv, Typed, PlaceOK, Looping
  <2>5. Typed'
    BY <1>1, <2>1, <2>2, <2>4 DEF IInv, Typed
  <2>6. EndsOK(sh')
    <3>1. fds \subseteq {R(sh'.n, sh'.i - 1)}
      <4>1. fds \subseteq {R(sh.n, sh.i)}
        BY <1>3, <1>5 DEF NumCmd
      <4>2. sh'.n = sh.n
        BY <2>2
      <4>3. sh'.i - 1 = sh.i
        BY <1>2, <2>2
      <4> QED BY <4>1, <4>2, <4>3
    <3> QED BY <2>2, <3>1 DEF EndsOK
  <2>7. \A p : Awaited(sh, p) => Awaited(sh', p)
    BY <1>1, <2>2 DEF Awaited, Looping
  <2> QED BY <1>1, <2>5, <2>6, <2>7 DEF IInv, WaitOK
<1>6. CASE sh.i = NumCmd /\ ~sh.bg /\ sh' = [sh EXCEPT !.pc = "wait", !.i = 1, !.fds = fds]
  <2>1. sh' \in Shells
    BY <1>1, <1>2, <1>3, <1>6 DEF Shells, Pcs
  <2>2. /\ sh'.pc = "wait" /\ sh'.n = sh.n /\ sh'.i = 1 /\ sh'.argv = sh.argv
        /\ sh'.cmds = sh.cmds /\ sh'.in = sh.in /\ sh'.out = sh.out /\ sh'.bg = sh.bg
        /\ sh'.pid = sh.pid /\ sh'.fds = fds
    BY <1>1, <1>6 DEF Shells
  <2>3. 1 \in 1 .. Len(sh.cmds) /\ Len(sh.pid) = Len(sh.cmds) /\ fds = {}
    BY <1>1, <1>2, <1>3, <1>6 DEF NumCmd
  <2>4. PlaceOK(sh')
    BY <1>1, <2>2, <2>3 DEF IInv, Typed, PlaceOK, Looping
  <2>5. Typed'
    BY <1>1, <2>1, <2>2, <2>4 DEF IInv, Typed
  <2>6. EndsOK(sh')
    BY <2>2, <2>3 DEF EndsOK
  <2>7. \A p : Awaited(sh, p) => Awaited(sh', p)
    <3>1. \A k \in DOMAIN sh.pid : 1 <= k
      BY <1>1, <1>2 DEF Shells
    <3> QED BY <1>1, <2>2, <3>1 DEF Awaited, Looping
  <2> QED BY <1>1, <2>5, <2>6, <2>7 DEF IInv, WaitOK
<1>7. CASE sh.i = NumCmd /\ sh.bg /\ sh' = [Prompt(sh.n) EXCEPT !.fds = fds]
  <2>1. fds = {}
    BY <1>2, <1>3, <1>7 DEF NumCmd
  <2>2. sh' = Prompt(sh.n)
    BY <1>7, <2>1 DEF Prompt
  <2>3. Typed'
    BY <1>1, <1>2, <2>2, PromptOK DEF IInv, Typed
  <2>4. \A p : ~Awaited(sh, p)
    BY <1>1, <1>7 DEF Awaited, Looping
  <2> QED BY <1>1, <1>2, <2>2, <2>3, <2>4, PromptOK DEF IInv, WaitOK
<1> QED BY <1>4, <1>5, <1>6, <1>7

-----------------------------------------------------------------------------
(* A child changes, but neither what it is nor that it has been reaped.     *)
Becomes(p, c) ==
    /\ c \in Children /\ ChildEndsOK(c) /\ c.fg = proc[p].fg
    /\ proc[p].st = "reaped" => c.st = "reaped"

(* Any number of children change so.                                        *)
LEMMA ChildrenOK ==
    ASSUME IInv, NEW f, proc' = [p \in DOMAIN proc |-> f[p]],
           \A p \in DOMAIN proc : Becomes(p, f[p])
    PROVE  /\ proc' \in Seq(Children) /\ Len(proc') = Len(proc) /\ DOMAIN proc' = DOMAIN proc
           /\ \A p \in DOMAIN proc' : /\ ChildEndsOK(proc'[p])
                                      /\ proc'[p].fg /\ proc'[p].st # "reaped" =>
                                            proc[p].fg /\ proc[p].st # "reaped"
<1>1. proc \in Seq(Children)
  BY DEF IInv, Typed
<1>2. DOMAIN proc = 1 .. Len(proc) /\ Len(proc) \in Nat
  BY <1>1
<1>3. proc' \in [1 .. Len(proc) -> Children]
  BY <1>2 DEF Becomes
<1>4. proc' \in Seq(Children) /\ Len(proc') = Len(proc) /\ DOMAIN proc' = DOMAIN proc
  BY <1>2, <1>3, IsASeq
<1> QED BY <1>4 DEF Becomes

LEMMA ChildOK ==
    ASSUME IInv, NEW p \in DOMAIN proc, NEW c, Becomes(p, c), proc' = [proc EXCEPT ![p] = c]
    PROVE  /\ proc' \in Seq(Children) /\ Len(proc') = Len(proc) /\ DOMAIN proc' = DOMAIN proc
           /\ \A q \in DOMAIN proc' : /\ ChildEndsOK(proc'[q])
                                      /\ proc'[q].fg /\ proc'[q].st # "reaped" =>
                                            proc[q].fg /\ proc[q].st # "reaped"
           /\ proc'[p] = c
<1>1. \A q \in DOMAIN proc : proc[q] \in Children
  BY ElementOfSeq DEF IInv, Typed
<1>2. \A q \in DOMAIN proc : Becomes(q, proc[q])
  BY <1>1 DEF IInv, Becomes
<1> DEFINE f == [proc EXCEPT ![p] = c]
<1>3. proc' = [q \in DOMAIN proc |-> f[q]] /\ f[p] = c
  OBVIOUS
<1>4. \A q \in DOMAIN proc : Becomes(q, f[q])
  BY <1>2
<1> HIDE DEF f
<1> QED BY <1>3, <1>4, ChildrenOK

(* A step of the children, to which the shell pays no attention.            *)
LEMMA ChildStepOK ==
    ASSUME IInv, script' = script, sh' = sh, files' \subseteq STRING,
           NEW p \in DOMAIN proc, NEW c, Becomes(p, c), proc' = [proc EXCEPT ![p] = c]
    PROVE  IInv'
<1>1. /\ proc' \in Seq(Children) /\ Len(proc') = Len(proc) /\ DOMAIN proc' = DOMAIN proc
      /\ \A q \in DOMAIN proc' : /\ ChildEndsOK(proc'[q])
                                 /\ proc'[q].fg /\ proc'[q].st # "reaped" =>
                                       proc[q].fg /\ proc[q].st # "reaped"
  BY ChildOK
<1>2. Typed'
  BY <1>1 DEF IInv, Typed
<1>3. WaitOK'
  BY <1>1 DEF IInv, WaitOK
<1> QED BY <1>1, <1>2, <1>3 DEF IInv

LEMMA WaitStepOK ==
    ASSUME IInv, Wait
    PROVE  IInv'
<1>1. /\ sh.pc = "wait" /\ script' = script /\ files' = files /\ sh \in Shells
      /\ sh.n <= Len(script) /\ script \in Seq(Seq(STRING)) /\ files \subseteq STRING
      /\ Len(sh.pid) = Len(sh.cmds) /\ sh.i \in 1 .. Len(sh.cmds) /\ sh.fds \subseteq {}
      /\ proc \in Seq(Children)
      /\ \A k \in DOMAIN sh.pid : sh.pid[k] <= Len(proc)
  BY DEF Wait, IInv, Typed, PlaceOK, EndsOK, Looping
<1>2. /\ sh.n \in Nat /\ sh.i \in Nat /\ Len(sh.cmds) \in Nat /\ Len(proc) \in Nat
      /\ DOMAIN proc = 1 .. Len(proc) /\ DOMAIN sh.pid = 1 .. Len(sh.cmds)
  BY <1>1 DEF Shells
<1> DEFINE for == IF sh.pid[sh.i] = 0 THEN Unreaped ELSE Unreaped \cap {sh.pid[sh.i]}
<1>3. /\ proc' \in Seq(Children) /\ Len(proc') = Len(proc) /\ DOMAIN proc' = DOMAIN proc
      /\ \A q \in DOMAIN proc' : /\ ChildEndsOK(proc'[q])
                                 /\ proc'[q].fg /\ proc'[q].st # "reaped" =>
                                       proc[q].fg /\ proc[q].st # "reaped"
      /\ sh.pid[sh.i] # 0 /\ sh.pid[sh.i] \in DOMAIN proc => proc'[sh.pid[sh.i]].st = "reaped"
  <2>1. CASE \E p \in for : proc[p].st = "zombie" /\ Reap(p)
    <3>1. PICK p \in for : proc[p].st = "zombie" /\ Reap(p)
      BY <2>1
    <3>2. p \in DOMAIN proc /\ (sh.pid[sh.i] # 0 => p = sh.pid[sh.i])
      BY <3>1 DEF Unreaped
    <3> DEFINE c == [proc[p] EXCEPT !.st = "reaped"]
    <3>3. proc[p] \in Children
      BY <1>1, <3>2, ElementOfSeq
    <3>4. c \in Children /\ c.st = "reaped"
      BY <3>3 DEF Children
    <3>5. /\ c.fg = proc[p].fg /\ c.fds = proc[p].fds /\ c.in = proc[p].in /\ c.out = proc[p].out
          /\ c.n = proc[p].n /\ c.i = proc[p].i
      OBVIOUS
    <3>6. proc' = [proc EXCEPT ![p] = c]
      BY <3>1 DEF Reap
    <3> HIDE DEF c, for
    <3>7. Becomes(p, c)
      BY <3>1, <3>2, <3>4, <3>5 DEF Becomes, IInv, ChildEndsOK
    <3> QED BY <3>2, <3>4, <3>6, <3>7, ChildOK
  <2>2. CASE for = {} /\ proc' = proc
    <3>1. sh.pid[sh.i] # 0 /\ sh.pid[sh.i] \in DOMAIN proc => proc[sh.pid[sh.i]].st = "reaped"
      BY <2>2 DEF Unreaped
    <3> QED BY <1>1, <2>2, <3>1 DEF IInv
  <2> QED BY <2>1, <2>2 DEF Wait
<1>4. \A p \in DOMAIN proc' : proc'[p].fg /\ proc'[p].st # "reaped" =>
         /\ ~sh.bg
         /\ \E k \in DOMAIN sh.pid : sh.pid[k] = p /\ sh.i < k
  <2> SUFFICES ASSUME NEW p \in DOMAIN proc', proc'[p].fg, proc'[p].st # "reaped"
               PROVE  ~sh.bg /\ \E k \in DOMAIN sh.pid : sh.pid[k] = p /\ sh.i < k
    OBVIOUS
  <2>1. p \in DOMAIN proc /\ proc[p].fg /\ proc[p].st # "reaped" /\ p # 0
    BY <1>2, <1>3
  <2>2. Awaited(sh, p)
    BY <2>1 DEF IInv, WaitOK
  <2>3. PICK k \in DOMAIN sh.pid : sh.pid[k] = p /\ sh.i <= k
    BY <1>1, <2>2 DEF Awaited, Looping
  <2>4. k # sh.i
    BY <1>3, <2>1, <2>3
  <2>5. sh.i < k
    BY <1>2, <2>3, <2>4
  <2> QED BY <1>1, <2>2, <2>3, <2>5 DEF Awaited, Looping
<1>5. CASE sh.i = NumCmd /\ sh' = Prompt(sh.n)
  <2>1. \A k \in DOMAIN sh.pid : ~(sh.i < k)
    BY <1>2, <1>5 DEF NumCmd
  <2>2. WaitOK'
    BY <1>4, <2>1 DEF WaitOK
  <2>3. Typed'
    BY <1>1, <1>2, <1>3, <1>5, PromptOK DEF Typed
  <2> QED BY <1>2, <1>3, <1>5, <2>2, <2>3, PromptOK DEF IInv
<1>6. CASE sh.i # NumCmd /\ sh' = [sh EXCEPT !.i = sh.i + 1]
  <2>1. sh' \in Shells
    <3> DEFINE j == sh.i + 1
    <3>1. j \in Nat /\ sh' = [sh EXCEPT !.i = j]
      BY <1>2, <1>6
    <3> HIDE DEF j
    <3> QED BY <1>1, <3>1 DEF Shells
  <2>2. /\ sh'.pc = "wait" /\ sh'.n = sh.n /\ sh'.i = sh.i + 1 /\ sh'.argv = sh.argv
        /\ sh'.cmds = sh.cmds /\ sh'.in = sh.in /\ sh'.out = sh.out /\ sh'.bg = sh.bg
        /\ sh'.pid = sh.pid /\ sh'.fds = sh.fds
    BY <1>1, <1>6 DEF Shells
  <2>3. sh.i + 1 \in 1 .. Len(sh.cmds)
    BY <1>1, <1>2, <1>6 DEF NumCmd
  <2>4. PlaceOK(sh')
    BY <1>1, <2>2, <2>3 DEF IInv, Typed, PlaceOK, Looping
  <2>5. Typed'
    BY <1>1, <1>3, <2>1, <2>2, <2>4 DEF Typed
  <2>6. EndsOK(sh')
    BY <1>1, <2>2 DEF EndsOK
  <2>7. WaitOK'
    <3>1. \A k \in DOMAIN sh.pid : sh.i < k => sh.i + 1 <= k
      BY <1>2
    <3> QED BY <1>4, <2>2, <3>1 DEF WaitOK, Awaited
  <2> QED BY <1>3, <2>5, <2>6, <2>7 DEF IInv
<1> QED BY <1>5, <1>6 DEF Wait, Waited

LEMMA ChildKinds ==
    ASSUME IInv, NEW p, Live(p)
    PROVE  /\ p \in DOMAIN proc /\ proc[p] \in Children /\ ChildEndsOK(proc[p])
           /\ proc[p].st \in {"new", "group", "run"} /\ files \subseteq STRING
BY ElementOfSeq DEF IInv, Typed, Live

LEMMA EndedOK ==
    ASSUME IInv, NEW p, Live(p)
    PROVE  Becomes(p, Ended(proc[p]))
<1> DEFINE c == proc[p]
           no == FALSE
           d == [c EXCEPT !.st = "zombie", !.fds = {}, !.in = None, !.out = None, !.streams = {},
                          !.todo = no]
<1>1. c \in Children /\ c.st # "reaped" /\ no \in BOOLEAN
  BY ChildKinds
<1>2. Ended(c) = d
  BY DEF Ended
<1> HIDE DEF c, no
<1>3. d \in Children
  BY <1>1 DEF Children, AllEnds
<1>4. d.fds = {} /\ d.in = None /\ d.out = None /\ d.fg = c.fg
  BY <1>1 DEF Children
<1>5. ChildEndsOK(d)
  BY <1>4 DEF ChildEndsOK
<1> QED BY <1>1, <1>2, <1>3, <1>4, <1>5 DEF Becomes, c

LEMMA EndOK ==
    ASSUME IInv, NEW p, Live(p), End(p), script' = script, sh' = sh, files' = files
    PROVE  IInv'
<1>1. p \in DOMAIN proc /\ files' \subseteq STRING /\ Becomes(p, Ended(proc[p]))
  BY ChildKinds, EndedOK
<1>2. proc' = [proc EXCEPT ![p] = Ended(proc[p])]
  BY DEF End
<1> QED BY <1>1, <1>2, ChildStepOK

LEMMA SetGroupOK ==
    ASSUME IInv, NEW p, SetGroup(p)
    PROVE  IInv'
<1> DEFINE c == proc[p]
           g == IF c.leader = p \/ (c.leader # 0 /\ \E q \in Unreaped : proc[q].pg = c.leader)
                THEN c.leader ELSE 0
           d == [c EXCEPT !.st = "group", !.pg = g]
<1>1. /\ p \in DOMAIN proc /\ c \in Children /\ ChildEndsOK(c) /\ c.st = "new"
      /\ files' \subseteq STRING
  BY ChildKinds DEF SetGroup
<1>2. proc' = [proc EXCEPT ![p] = d]
  BY DEF SetGroup
<1>3. g \in Nat
  BY <1>1 DEF Children
<1> HIDE DEF c, g
<1>4. d \in Children /\ d.fg = c.fg
  BY <1>1, <1>3 DEF Children
<1>5. d.fds = c.fds /\ d.in = c.in /\ d.out = c.out /\ d.n = c.n /\ d.i = c.i /\ d.st = "group"
  BY <1>1 DEF Children
<1>6. Becomes(p, d)
  BY <1>1, <1>4, <1>5 DEF Becomes, ChildEndsOK, c
<1> HIDE DEF d
<1> QED BY <1>1, <1>2, <1>6, ChildStepOK DEF SetGroup

LEMMA ExecOK ==
    ASSUME IInv, NEW p, Exec(p)
    PROVE  IInv'
<1>1. Live(p)
  BY DEF Exec, ExecKeeping
<1>2. CASE End(p) /\ files' = files
  BY <1>1, <1>2, EndOK DEF Exec, ExecKeeping
<1>3. CASE ~(End(p) /\ files' = files)
  <2> DEFINE c == proc[p]
             in == IF c.i > 1 /\ c.rin = None THEN R(c.n, c.i - 1) ELSE None
             out == IF ~c.last /\ c.rout = None THEN W(c.n, c.i) ELSE None
             todo == c.prog # "cat"
             streams == {c.rin, c.rout} \ {None}
             d == [c EXCEPT !.st = "run", !.fds = {}, !.streams = streams, !.in = in, !.out = out,
                            !.todo = todo]
  <2>1. p \in DOMAIN proc /\ c \in Children /\ c.st # "reaped" /\ files \subseteq STRING
    BY <1>1, ChildKinds
  <2>2. proc' = [proc EXCEPT ![p] = d] /\ files' = files \cup ({c.rout} \ {None})
    BY <1>3 DEF Exec, ExecKeeping
  <2>3. /\ in \in AllEnds \cup {None} /\ out \in AllEnds \cup {None} /\ todo \in BOOLEAN
        /\ in \in {R(c.n, c.i - 1), None} /\ out \in {W(c.n, c.i), None} /\ c.rout \in STRING \cup {None}
        /\ streams \in SUBSET STRING
    <3>1. c.n \in Nat /\ c.i \in Nat /\ c.rout \in STRING \cup {None}
          /\ c.rin \in STRING \cup {None}
      BY <2>1 DEF Children
    <3>2. c.i > 1 => R(c.n, c.i - 1) \in AllEnds
      BY <3>1 DEF AllEnds, R
    <3>3. W(c.n, c.i) \in AllEnds
      BY <3>1 DEF AllEnds, W
    <3> HIDE DEF c
    <3> QED BY <3>1, <3>2, <3>3
  <2> HIDE DEF c, in, out, todo, streams
  <2>4. d \in Children
    BY <2>1, <2>3 DEF Children
  <2>5. d.fg = c.fg /\ d.fds = {} /\ d.in = in /\ d.out = out /\ d.n = c.n /\ d.i = c.i
    BY <2>1 DEF Children
  <2>6. ChildEndsOK(d)
    BY <2>3, <2>5 DEF ChildEndsOK, Ends
  <2>7. Becomes(p, d)
    BY <2>1, <2>4, <2>5, <2>6 DEF Becomes, c
  <2>8. files' \subseteq STRING /\ script' = script /\ sh' = sh
    BY <2>1, <2>2, <2>3 DEF Exec, ExecKeeping
  <2> HIDE DEF d
  <2> QED BY <2>1, <2>2, <2>7, <2>8, ChildStepOK
<1> QED BY <1>2, <1>3

(* cat or a writer finds more to do, or has done it.                        *)
LEMMA TodoOK ==
    ASSUME IInv, NEW p, Live(p), NEW b \in BOOLEAN, proc' = [proc EXCEPT ![p].todo = b],
           script' = script, sh' = sh, files' = files
    PROVE  IInv'
<1> DEFINE c == proc[p]
           d == [c EXCEPT !.todo = b]
<1>1. /\ p \in DOMAIN proc /\ c \in Children /\ ChildEndsOK(c) /\ files' \subseteq STRING
  BY ChildKinds
<1>2. proc' = [proc EXCEPT ![p] = d]
  OBVIOUS
<1> HIDE DEF c
<1>3. d \in Children
  BY <1>1 DEF Children
<1>4. /\ d.fds = c.fds /\ d.in = c.in /\ d.out = c.out /\ d.n = c.n /\ d.i = c.i /\ d.st = c.st
      /\ d.fg = c.fg
  BY <1>1 DEF Children
<1>5. Becomes(p, d)
  BY <1>1, <1>3, <1>4 DEF Becomes, ChildEndsOK, c
<1> HIDE DEF d
<1> QED BY <1>1, <1>2, <1>5, ChildStepOK

LEMMA ReadOK ==
    ASSUME IInv, NEW p, Read(p)
    PROVE  IInv'
<1>1. /\ Live(p) /\ script' = script /\ sh' = sh /\ files' = files
      /\ proc' = [proc EXCEPT ![p].todo = TRUE] \/ End(p)
  BY DEF Read
<1> QED BY <1>1, TodoOK, EndOK

LEMMA SameOK ==
    ASSUME IInv, script' = script, sh' = sh, proc' = proc, files' = files
    PROVE  IInv'
BY DEF IInv, Typed, WaitOK

LEMMA WriteOK ==
    ASSUME IInv, NEW p, Write(p)
    PROVE  IInv'
<1>1. /\ Live(p) /\ script' = script /\ sh' = sh /\ files' = files
      /\ proc' = [proc EXCEPT ![p].todo = FALSE] \/ proc' = proc \/ End(p)
  BY DEF Write
<1> QED BY <1>1, TodoOK, EndOK, SameOK

LEMMA InterruptOK ==
    ASSUME IInv, NEW p, Interrupt(p)
    PROVE  IInv'
<1> DEFINE g == proc[p].pg
           f == [q \in DOMAIN proc |->
                   IF Live(q) /\ proc[q].pg = g THEN Ended(proc[q]) ELSE proc[q]]
<1>1. proc' = [q \in DOMAIN proc |-> f[q]] /\ script' = script /\ files' = files
  BY DEF Interrupt
<1>2. \A q \in DOMAIN proc : Becomes(q, f[q])
  <2> SUFFICES ASSUME NEW q \in DOMAIN proc PROVE Becomes(q, f[q])
    OBVIOUS
  <2>1. CASE Live(q) /\ proc[q].pg = g
    BY <2>1, EndedOK
  <2>2. CASE ~(Live(q) /\ proc[q].pg = g)
    <3>1. f[q] = proc[q]
      BY <2>2
    <3>2. proc[q] \in Children /\ ChildEndsOK(proc[q])
      BY ElementOfSeq DEF IInv, Typed
    <3> HIDE DEF f
    <3> QED BY <3>1, <3>2 DEF Becomes
  <2> QED BY <2>1, <2>2
<1> HIDE DEF f
<1>3. /\ proc' \in Seq(Children) /\ Len(proc') = Len(proc) /\ DOMAIN proc' = DOMAIN proc
      /\ \A q \in DOMAIN proc' : /\ ChildEndsOK(proc'[q])
                                 /\ proc'[q].fg /\ proc'[q].st # "reaped" =>
                                       proc[q].fg /\ proc[q].st # "reaped"
  BY <1>1, <1>2, ChildrenOK
<1>4. CASE sh' = sh
  <2>1. Typed'
    BY <1>1, <1>3, <1>4 DEF IInv, Typed
  <2>2. WaitOK'
    BY <1>3, <1>4 DEF IInv, WaitOK
  <2> QED BY <1>3, <1>4, <2>1, <2>2 DEF IInv
<1>5. CASE sh' = [sh EXCEPT !.pc = "killed", !.fds = {}]
  <2>1. sh \in Shells
    BY DEF IInv, Typed
  <2>2. /\ sh' \in Shells /\ sh'.pc = "killed" /\ sh'.fds = {} /\ sh'.n = sh.n /\ sh'.pid = sh.pid
    BY <1>5, <2>1 DEF Shells, Pcs, AllEnds
  <2>3. Typed'
    BY <1>1, <1>3, <2>2 DEF IInv, Typed, PlaceOK, Looping
  <2>4. EndsOK(sh')
    BY <2>2 DEF EndsOK
  <2>5. WaitOK'
    BY <2>2 DEF WaitOK, Awaited, Looping
  <2> QED BY <1>3, <2>3, <2>4, <2>5 DEF IInv
<1> QED BY <1>4, <1>5 DEF Interrupt

LEMMA Inductive == IInv /\ [Next]_vars => IInv'
<1> SUFFICES ASSUME IInv, [Next]_vars PROVE IInv'
  OBVIOUS
<1>1. CASE UNCHANGED vars
  BY <1>1, SameOK DEF vars
<1>2. CASE ShellStep
  BY <1>2, ReadLineOK, ForkOK, CloseOK, WaitStepOK DEF ShellStep
<1>3. ASSUME NEW p \in 1 .. MaxProcs, ChildStep(p) PROVE IInv'
  BY <1>3, SetGroupOK, ExecOK, ReadOK, WriteOK, InterruptOK DEF ChildStep
<1> QED BY <1>1, <1>2, <1>3 DEF Next

(* The inductive invariant.                                                 *)
THEOREM Invariance == Spec => []IInv
<1> QED BY Initially, Inductive, PTL DEF Spec

-----------------------------------------------------------------------------
(* Every line is parsed as parseargs documents, whatever the user types.    *)
THEOREM LinesParsedAsDocumented == Spec => []ParsedAsDocumented
<1>1. IInv => ParsedAsDocumented
  <2> SUFFICES ASSUME IInv, sh.pc \in Looping PROVE ParsedAsDocumented
    BY DEF ParsedAsDocumented, Looping
  <2> DEFINE argv == sh.argv
             a == ParseArgs(argv)
             n == Len(argv)
  <2>1. argv \in Seq(STRING) /\ argv # <<>> /\ sh.cmds = a.cmds /\ sh.in = a.in /\ sh.out = a.out
    BY DEF IInv, Typed, PlaceOK, Shells
  <2>2. Parsed(argv, a, n)
    BY <2>1, ParsedAll
  <2>3. n \in Nat
    BY <2>1
  <2> HIDE DEF a
  <2>4. \A op : UpTo(argv, n, op) = {i \in OperatorsIn(argv) : argv[i] = op}
    <3>1. \A i \in OperatorsIn(argv) : i <= n
      BY <2>3 DEF OperatorsIn
    <3> QED BY <3>1 DEF UpTo
  <2>5. /\ a.cmds[1] = 1
        /\ {a.cmds[k] : k \in 2 .. Len(a.cmds)} = {j + 1 : j \in UpTo(argv, n, "|")}
        /\ Len(a.cmds) = Cardinality(UpTo(argv, n, "|")) + 1
    BY <2>2 DEF Parsed, CommandsOK
  <2>6. \A k \in 1 .. Len(a.cmds) : /\ a.in[k] = LastOf(Of(argv, a, n, k, "<"))
                                    /\ a.out[k] = LastOf(Of(argv, a, n, k, ">"))
    BY <2>2 DEF Parsed, RedirectionsOK
  <2> DEFINE Within(k, op) == {i \in OperatorsIn(argv) :
                                 /\ argv[i] = op /\ i > sh.cmds[k]
                                 /\ k < NumCmd => i < sh.cmds[k + 1]}
  <2>7. \A k, op : Of(argv, a, n, k, op) = Within(k, op)
    BY <2>1, <2>4 DEF Of, NumCmd
  <2> HIDE DEF Within
  <2>8. \A k \in 1 .. NumCmd : /\ sh.in[k] = LastOf(Within(k, "<"))
                               /\ sh.out[k] = LastOf(Within(k, ">"))
    BY <2>1, <2>6, <2>7 DEF NumCmd
  <2>9. /\ NumCmd = Cardinality({i \in OperatorsIn(argv) : argv[i] = "|"}) + 1 /\ sh.cmds[1] = 1
        /\ {sh.cmds[k] : k \in 2 .. NumCmd} = {i + 1 : i \in {j \in OperatorsIn(argv) : argv[j] = "|"}}
    BY <2>1, <2>4, <2>5 DEF NumCmd
  <2> QED BY <2>8, <2>9 DEF ParsedAsDocumented, Within
<1> QED BY <1>1, Invariance, PTL

(* The shell and its programs leave open only the ends of pipes they need.  *)
THEOREM OnlyTheirEnds == Spec => []OnlyItsEnds
<1>1. IInv => OnlyItsEnds
  <2> SUFFICES ASSUME IInv PROVE OnlyItsEnds
    OBVIOUS
  <2>1. sh.pc \in {"prompt", "wait"} => sh.fds = {}
    BY DEF IInv, EndsOK
  <2>2. \A p \in DOMAIN proc : ChildEndsOK(proc[p])
    BY DEF IInv
  <2> QED BY <2>1, <2>2 DEF OnlyItsEnds, ChildEndsOK, Holds
<1> QED BY <1>1, Invariance, PTL

(* At the prompt every child of the foreground has been reaped, whatever    *)
(* forks have failed.                                                       *)
THEOREM WaitedForAll == Spec => []AllWaitedFor
<1>1. IInv => AllWaitedFor
  BY DEF IInv, WaitOK, Awaited, AllWaitedFor
<1> QED BY <1>1, Invariance, PTL

-----------------------------------------------------------------------------
(* The bound on the children is never met: a second invariant over the      *)
(* first.                                                                   *)

(* The commands of the current line that are still to be forked, and room   *)
(* for them: at most total[n] children come of the first n lines.           *)
ToFork(s) ==
    CASE s.pc = "fork" -> Len(s.cmds) - s.i + 1
      [] s.pc = "close" -> Len(s.cmds) - s.i
      [] OTHER -> 0
Totals(total) ==
    /\ total \in [0 .. Len(script) -> 0 .. MaxProcs]
    /\ \A n \in 1 .. Len(script) :
         LET argv == ParseLine(script[n]).argv IN
         argv # <<>> => total[n] >= total[n - 1] + Len(ParseArgs(argv).cmds)
Room == \E total : Totals(total) /\ Len(proc) + ToFork(sh) <= total[sh.n]

ShellBounded(s) ==
    /\ s.i \in 0 .. Len(s.cmds) /\ Len(s.pid) \in {s.i - 1, s.i, Len(s.cmds)}
    /\ s.pc \in Looping => s.n >= 1 /\ Len(s.cmds) <= MaxProcs
(* A child knows the shell's place when it was forked; its output is the    *)
(* pipe of its own command.                                                 *)
ChildBounded(c) ==
    /\ c.n \in 1 .. Len(script) /\ c.i \in 1 .. MaxProcs
    /\ c.leader \in 0 .. Len(proc) /\ c.pg \in 0 .. Len(proc)
    /\ c.out \in {None, W(c.n, c.i)}
Pipes == (1 .. Len(script)) \X (1 .. MaxProcs)

Bounds ==
    /\ script \in Scripts /\ ShellBounded(sh)
    /\ \A p \in DOMAIN proc : ChildBounded(proc[p])
    /\ full \subseteq Pipes /\ Room

LEMMA InitBounds == ASSUME Init PROVE Bounds
<1>1. /\ script \in Scripts /\ Len(script) \in Nat
      /\ sh = Prompt(0) /\ proc = <<>> /\ full = {}
  BY TshAssumption DEF Init
<1>2. /\ sh.pc = "prompt" /\ sh.n = 0 /\ sh.i = 0 /\ sh.cmds = <<>> /\ sh.pid = <<>>
  BY <1>1 DEF Prompt
<1>3. ShellBounded(sh) /\ ToFork(sh) = 0
  BY <1>2 DEF ShellBounded, ToFork, Looping
<1>4. PICK total : Totals(total)
  BY <1>1, ProcsAssumption DEF Totals
<1>5. Len(proc) = 0 /\ DOMAIN proc = {} /\ total[0] \in Nat
  BY <1>1, <1>4 DEF Totals
<1>6. Room
  BY <1>2, <1>3, <1>4, <1>5 DEF Room
<1> QED BY <1>1, <1>3, <1>5, <1>6 DEF Bounds

(* What a child does not change.                                            *)
Alike(c, d) ==
    /\ d.n = c.n /\ d.i = c.i /\ d.leader = c.leader
    /\ d.pg \in {c.pg, c.leader, 0} /\ d.out \in {c.out, None, W(c.n, c.i)}

LEMMA StepBounded ==
    ASSUME IInv, IInv', Bounds, script' = script, DOMAIN proc' = DOMAIN proc,
           \A p \in DOMAIN proc : Alike(proc[p], proc'[p]), full' \subseteq Pipes,
           ShellBounded(sh'), sh'.n = sh.n, ToFork(sh') <= ToFork(sh)
    PROVE  Bounds'
<1>1. Len(proc') = Len(proc) /\ Len(proc) \in Nat
  <2>1. Len(proc) \in Nat /\ Len(proc') \in Nat
        /\ DOMAIN proc = 1 .. Len(proc) /\ DOMAIN proc' = 1 .. Len(proc')
    BY DEF IInv, Typed
  <2> HIDE DEF IInv
  <2>2. \A m, n \in Nat : 1 .. m = 1 .. n => m = n
    <3> SUFFICES ASSUME NEW m \in Nat, NEW n \in Nat, 1 .. m = 1 .. n PROVE m = n
      OBVIOUS
    <3>1. m \in 1 .. m <=> m \in 1 .. n
      OBVIOUS
    <3>2. n \in 1 .. m <=> n \in 1 .. n
      OBVIOUS
    <3> QED BY <3>1, <3>2
  <2> QED BY <2>1, <2>2
<1>2. (\A p \in DOMAIN proc : ChildBounded(proc[p]))'
  <2> SUFFICES ASSUME NEW p \in DOMAIN proc
               PROVE  /\ proc'[p].n \in 1 .. Len(script) /\ proc'[p].i \in 1 .. MaxProcs
                      /\ proc'[p].leader \in 0 .. Len(proc) /\ proc'[p].pg \in 0 .. Len(proc)
                      /\ proc'[p].out \in {None, W(proc'[p].n, proc'[p].i)}
    BY <1>1 DEF ChildBounded
  <2>1. ChildBounded(proc[p]) /\ Alike(proc[p], proc'[p])
    BY DEF Bounds
  <2> QED BY <1>1, <2>1 DEF ChildBounded, Alike
<1>3. sh.n \in 0 .. Len(script) /\ ToFork(sh) \in Int /\ ToFork(sh') \in Int
  <2>1. sh \in Shells /\ sh' \in Shells /\ sh.n <= Len(script)
    BY DEF IInv, Typed
  <2>2. /\ Len(sh.cmds) \in Nat /\ sh.i \in Nat /\ Len(sh'.cmds) \in Nat /\ sh'.i \in Nat
        /\ sh.n \in Nat
    BY <2>1 DEF Shells
  <2>3. Len(script) \in Nat
    BY DEF IInv, Typed
  <2>4. ToFork(sh) \in Int
    BY <2>2 DEF ToFork
  <2>5. ToFork(sh') \in Int
    BY <2>2 DEF ToFork
  <2>6. sh.n \in 0 .. Len(script)
    BY <2>1, <2>2, <2>3
  <2> QED BY <2>4, <2>5, <2>6
<1>4. PICK total : Totals(total) /\ Len(proc) + ToFork(sh) <= total[sh.n]
  BY DEF Bounds, Room
<1>5. total[sh.n] \in Nat
  BY <1>3, <1>4 DEF Totals
<1>6. Totals(total)' /\ Len(proc') + ToFork(sh') <= total[sh'.n]
  BY <1>1, <1>3, <1>4, <1>5 DEF Totals
<1> QED BY <1>2, <1>6 DEF Bounds, Room, Pipes

(* The shell stays where it is, or is killed.                               *)
LEMMA ShellStays ==
    ASSUME IInv, Bounds, sh' = sh \/ sh' = [sh EXCEPT !.pc = "killed", !.fds = {}]
    PROVE  ShellBounded(sh') /\ sh'.n = sh.n /\ ToFork(sh') <= ToFork(sh)
<1>1. sh \in Shells /\ (sh.pc \in {"fork", "close"} => sh.i \in 1 .. Len(sh.cmds))
  BY DEF IInv, Typed, PlaceOK, Looping
<1>2. Len(sh.cmds) \in Nat /\ sh.i \in Nat
  BY <1>1 DEF Shells
<1>3. CASE sh' = [sh EXCEPT !.pc = "killed", !.fds = {}]
  <2>1. /\ sh'.i = sh.i /\ sh'.n = sh.n /\ sh'.cmds = sh.cmds /\ sh'.pid = sh.pid
        /\ sh'.pc = "killed"
    BY <1>1, <1>3 DEF Shells
  <2> QED BY <1>1, <1>2, <2>1 DEF Bounds, ShellBounded, ToFork, Looping
<1>4. CASE sh' = sh
  <2>1. ToFork(sh) \in Int
    BY <1>2 DEF ToFork
  <2> QED BY <1>4, <2>1 DEF Bounds
<1> QED BY <1>3, <1>4

(* One child changes.                                                       *)
LEMMA ChildBoundsKept ==
    ASSUME IInv, IInv', Bounds, NEW p \in DOMAIN proc, NEW d, proc' = [proc EXCEPT ![p] = d],
           Alike(proc[p], d), script' = script, sh' = sh, full' \subseteq Pipes
    PROVE  Bounds'
<1>1. \A q \in DOMAIN proc : Alike(proc[q], proc[q])
  BY DEF Alike
<1>2. DOMAIN proc' = DOMAIN proc /\ \A q \in DOMAIN proc : Alike(proc[q], proc'[q])
  BY <1>1
<1> QED BY <1>2, StepBounded, ShellStays

(* Only the shell moves on, in the same line.                               *)
LEMMA ShellOnlyBounded ==
    ASSUME IInv, IInv', Bounds, UNCHANGED <<script, proc, full>>, ShellBounded(sh'),
           sh'.n = sh.n, ToFork(sh') <= ToFork(sh)
    PROVE  Bounds'
<1>1. \A p \in DOMAIN proc : Alike(proc[p], proc'[p])
  BY DEF Alike
<1> QED BY <1>1, StepBounded DEF Bounds

LEMMA ReadLineBounded ==
    ASSUME IInv, IInv', Bounds, ReadLine
    PROVE  Bounds'
<1>1. /\ sh.pc = "prompt" /\ UNCHANGED <<script, proc, full>> /\ sh \in Shells /\ sh.pid = <<>>
      /\ script \in Seq(Seq(STRING)) /\ sh.n <= Len(script) /\ sh' \in Shells /\ PlaceOK(sh')
      /\ ShellBounded(sh)
  BY DEF ReadLine, IInv, Typed, PlaceOK, Bounds
<1>2. Len(script) \in Nat /\ Len(proc) \in Nat /\ sh.n \in 0 .. Len(script)
  BY <1>1 DEF Shells, IInv, Typed
<1>3. CASE sh' \in {[sh EXCEPT !.pc = "exited"], [sh EXCEPT !.pc = "crashed"]}
  <2>1. /\ sh'.n = sh.n /\ sh'.pid = sh.pid /\ sh'.i = sh.i /\ sh'.cmds = sh.cmds
        /\ sh'.pc \in {"exited", "crashed"}
    BY <1>1, <1>3 DEF Shells
  <2>2. ShellBounded(sh') /\ ToFork(sh') = 0 /\ ToFork(sh) = 0
    BY <1>1, <2>1 DEF ShellBounded, ToFork, Looping
  <2> QED BY <1>1, <2>1, <2>2, ShellOnlyBounded
<1>4. CASE sh' \notin {[sh EXCEPT !.pc = "exited"], [sh EXCEPT !.pc = "crashed"]}
  <2> DEFINE line == script[sh.n + 1]
             argv == ParseLine(line).argv
             a == ParseArgs(argv)
             bg == ParseLine(line).bg
  <2>1. sh.n # Len(script)
    BY <1>1, <1>4 DEF ReadLine
  <2>2. sh.n + 1 \in 1 .. Len(script) /\ (sh.n + 1) - 1 = sh.n
    BY <1>2, <2>1
  <2>3. /\ argv # <<>>
        /\ sh' = [sh EXCEPT !.pc = "fork", !.n = sh.n + 1, !.i = 1, !.argv = argv, !.bg = bg,
                            !.cmds = a.cmds, !.in = a.in, !.out = a.out]
    BY <1>4, <2>1 DEF ReadLine
  <2> HIDE DEF a, bg
  <2>4. /\ sh'.pc = "fork" /\ sh'.n = sh.n + 1 /\ sh'.i = 1 /\ sh'.cmds = a.cmds /\ sh'.pid = <<>>
    BY <1>1, <2>3 DEF Shells
  <2>5. PICK total : Totals(total) /\ Len(proc) + ToFork(sh) <= total[sh.n]
    BY DEF Bounds, Room
  <2>6. total[sh.n + 1] >= total[sh.n] + Len(a.cmds)
    BY <2>2, <2>3, <2>5 DEF Totals, a
  <2>7. /\ total[sh.n] \in 0 .. MaxProcs /\ total[sh.n + 1] \in 0 .. MaxProcs
        /\ Len(a.cmds) \in Nat /\ 1 \in 1 .. Len(a.cmds) /\ MaxProcs \in Nat
    <3>1. sh'.cmds \in Seq(Nat) /\ sh'.i \in 1 .. Len(sh'.cmds)
      BY <1>1, <2>4 DEF PlaceOK, Looping, Shells
    <3>2. a.cmds \in Seq(Nat)
      BY <2>4, <3>1
    <3> QED BY <1>2, <2>2, <2>4, <2>5, <3>1, <3>2, ProcsAssumption DEF Totals
  <2>8. ToFork(sh) = 0 /\ ToFork(sh') = Len(a.cmds)
    BY <1>1, <2>4, <2>7 DEF ToFork
  <2>9. ShellBounded(sh')
    BY <1>2, <2>4, <2>6, <2>7 DEF ShellBounded
  <2>10. Totals(total)' /\ Len(proc') + ToFork(sh') <= total[sh'.n]
    BY <1>1, <1>2, <2>4, <2>5, <2>6, <2>7, <2>8 DEF Totals
  <2>11. (\A p \in DOMAIN proc : ChildBounded(proc[p]))'
    BY <1>1 DEF Bounds, ChildBounded
  <2> QED BY <1>1, <2>9, <2>10, <2>11 DEF Bounds, Room, Pipes
<1> QED BY <1>3, <1>4

LEMMA ForkBounded ==
    ASSUME IInv, IInv', Bounds, Fork
    PROVE  Bounds'
<1> DEFINE fds == sh.fds \cup (IF sh.i < NumCmd THEN Ends(sh.n, sh.i) ELSE {})
           me == Len(proc) + 1
           c == Child(me, fds)
<1>1. /\ sh.pc = "fork" /\ UNCHANGED <<script, full>> /\ sh \in Shells /\ sh' \in Shells
      /\ sh.n <= Len(script) /\ script \in Seq(Seq(STRING)) /\ proc \in Seq(Children)
      /\ proc' \in Seq(Children) /\ Len(sh.pid) = sh.i - 1 /\ sh.i \in 1 .. Len(sh.cmds)
      /\ \A k \in DOMAIN sh.pid : sh.pid[k] <= Len(proc)
  BY DEF Fork, IInv, Typed, PlaceOK, Looping
<1>2. /\ sh.n \in Nat /\ sh.i \in Nat /\ sh.pid \in Seq(Nat) /\ me \in Nat
      /\ Len(sh.cmds) \in Nat /\ Len(proc) \in Nat /\ Len(script) \in Nat /\ MaxProcs \in Nat
  <2>1. MaxProcs \in Nat
    BY ProcsAssumption
  <2>2. Len(proc) \in Nat /\ Len(script) \in Nat
    BY <1>1
  <2>3. sh.n \in Nat /\ sh.i \in Nat /\ sh.pid \in Seq(Nat) /\ sh.cmds \in Seq(Nat)
    BY <1>1 DEF Shells
  <2>4. me \in Nat
    BY <2>2
  <2> QED BY <2>1, <2>2, <2>3, <2>4
<1>3. sh.n \in 1 .. Len(script) /\ sh.i \in 1 .. MaxProcs
  BY <1>1, <1>2 DEF Bounds, ShellBounded, Looping
<1>4. PICK id \in {0, me} :
        /\ sh' = [sh EXCEPT !.pc = "close", !.fds = fds, !.pid = Append(sh.pid, id)]
        /\ id = me => proc' = Append(proc, c)
        /\ id = 0 => proc' = proc
  BY <1>2 DEF Fork
<1>5. /\ sh'.pc = "close" /\ sh'.n = sh.n /\ sh'.i = sh.i /\ sh'.cmds = sh.cmds
  <2> HIDE DEF fds
  <2> QED BY <1>1, <1>4 DEF Shells
<1>6. Len(sh'.pid) = sh.i
  <2>1. sh'.pc = "close" => Len(sh'.pid) = sh'.i
    BY DEF IInv, Typed, PlaceOK
  <2> QED BY <1>5, <2>1
<1>7. ShellBounded(sh')
  BY <1>1, <1>2, <1>3, <1>5, <1>6 DEF Bounds, ShellBounded, Looping
<1>8. /\ c.n = sh.n /\ c.i = sh.i /\ c.pg = 0 /\ c.out = None
      /\ c.leader = IF sh.i = 1 THEN me ELSE sh.pid[1]
  BY DEF Child
<1>9. c.leader \in 0 .. me
  <2>1. sh.i # 1 => 1 \in DOMAIN sh.pid /\ sh.pid[1] \in Nat
    BY <1>1, <1>2
  <2> QED BY <1>1, <1>2, <1>8, <2>1
<1> HIDE DEF fds, c
<1>10. /\ Len(proc') \in Nat /\ Len(proc) <= Len(proc') /\ Len(proc') <= Len(proc) + 1
       /\ \A p \in DOMAIN proc' : (p \in DOMAIN proc /\ proc'[p] = proc[p])
                                    \/ (proc'[p] = c /\ Len(proc') = me)
  <2>1. CASE id = 0
    BY <1>2, <1>4, <2>1
  <2>2. CASE id = me
    <3>1. proc' = Append(proc, c)
      BY <1>4, <2>2
    <3>2. /\ Len(proc') = Len(proc) + 1 /\ DOMAIN proc' = 1 .. Len(proc) + 1
          /\ proc'[Len(proc) + 1] = c /\ \A k \in 1 .. Len(proc) : proc'[k] = proc[k]
      BY <1>1, <3>1, AppendProperties
    <3>3. DOMAIN proc = 1 .. Len(proc)
      BY <1>1
    <3>4. \A p \in 1 .. Len(proc) + 1 : p \in 1 .. Len(proc) \/ p = Len(proc) + 1
      BY <1>2
    <3> QED BY <1>2, <3>2, <3>3, <3>4
  <2> QED BY <2>1, <2>2
<1>11. (\A p \in DOMAIN proc : ChildBounded(proc[p]))'
  <2> SUFFICES ASSUME NEW p \in DOMAIN proc'
               PROVE  /\ proc'[p].n \in 1 .. Len(script') /\ proc'[p].i \in 1 .. MaxProcs
                      /\ proc'[p].leader \in 0 .. Len(proc') /\ proc'[p].pg \in 0 .. Len(proc')
                      /\ proc'[p].out \in {None, W(proc'[p].n, proc'[p].i)}
    BY DEF ChildBounded
  <2>1. CASE p \in DOMAIN proc /\ proc'[p] = proc[p]
    <3>1. ChildBounded(proc[p])
      BY <2>1 DEF Bounds
    <3>2. script' = script /\ \A k \in 0 .. Len(proc) : k \in 0 .. Len(proc')
      BY <1>1, <1>10
    <3> QED BY <2>1, <3>1, <3>2 DEF ChildBounded
  <2>2. CASE proc'[p] = c /\ Len(proc') = me
    <3>1. script' = script /\ 0 \in 0 .. me
      BY <1>1, <1>2
    <3> HIDE DEF me
    <3> QED BY <1>3, <1>8, <1>9, <2>2, <3>1
  <2> QED BY <1>10, <2>1, <2>2
<1>12. PICK total : Totals(total) /\ Len(proc) + ToFork(sh) <= total[sh.n]
  BY DEF Bounds, Room
<1>13. total[sh.n] \in Nat
  BY <1>2, <1>3, <1>12 DEF Totals
<1>14. ToFork(sh) = Len(sh.cmds) - sh.i + 1 /\ ToFork(sh') = Len(sh.cmds) - sh.i
  BY <1>1, <1>5 DEF ToFork
<1>15. Totals(total)' /\ Len(proc') + ToFork(sh') <= total[sh'.n]
  BY <1>1, <1>2, <1>5, <1>10, <1>12, <1>13, <1>14 DEF Totals
<1> QED BY <1>1, <1>7, <1>11, <1>15 DEF Bounds, Room, Pipes

(* Back at the prompt there is nothing to fork.                             *)
LEMMA PromptBounded ==
    ASSUME NEW n, NEW s, s.pc = "prompt", s.n = n, s.i = 0, s.cmds = <<>>, s.pid = <<>>
    PROVE  ShellBounded(s) /\ ToFork(s) = 0
BY DEF ShellBounded, ToFork, Looping

LEMMA CloseBounded ==
    ASSUME IInv, IInv', Bounds, Close
    PROVE  Bounds'
<1> DEFINE fds == sh.fds \ {W(sh.n, sh.i), R(sh.n, sh.i - 1)}
<1>1. /\ sh.pc = "close" /\ UNCHANGED <<script, proc, full>> /\ sh \in Shells
      /\ Len(sh.pid) = sh.i /\ sh.i \in 1 .. Len(sh.cmds) /\ ShellBounded(sh)
  BY DEF Close, IInv, Typed, PlaceOK, Looping, Bounds
<1>2. sh.i \in Nat /\ Len(sh.cmds) \in Nat
  BY <1>1 DEF Shells
<1>3. \/ sh.i < NumCmd /\ sh' = [sh EXCEPT !.pc = "fork", !.i = sh.i + 1, !.fds = fds]
      \/ sh.i = NumCmd /\ ~sh.bg /\ sh' = [sh EXCEPT !.pc = "wait", !.i = 1, !.fds = fds]
      \/ sh' = [Prompt(sh.n) EXCEPT !.fds = fds]
  BY <1>1, <1>2 DEF Close, NextCommand, NumCmd
<1> HIDE DEF fds
<1>4. ToFork(sh) = Len(sh.cmds) - sh.i
  BY <1>1 DEF ToFork
<1>5. CASE sh.i < NumCmd /\ sh' = [sh EXCEPT !.pc = "fork", !.i = sh.i + 1, !.fds = fds]
  <2>1. /\ sh'.pc = "fork" /\ sh'.i = sh.i + 1 /\ sh'.n = sh.n /\ sh'.cmds = sh.cmds
        /\ sh'.pid = sh.pid
    BY <1>1, <1>5 DEF Shells
  <2>2. ShellBounded(sh') /\ ToFork(sh') = ToFork(sh)
    BY <1>1, <1>2, <1>4, <1>5, <2>1 DEF ShellBounded, ToFork, Looping, NumCmd
  <2>3. ToFork(sh) \in Int
    BY <1>2, <1>4
  <2> QED BY <1>1, <2>1, <2>2, <2>3, ShellOnlyBounded
<1>6. CASE sh.i = NumCmd /\ ~sh.bg /\ sh' = [sh EXCEPT !.pc = "wait", !.i = 1, !.fds = fds]
  <2>1. /\ sh'.pc = "wait" /\ sh'.i = 1 /\ sh'.n = sh.n /\ sh'.cmds = sh.cmds
        /\ sh'.pid = sh.pid
    BY <1>1, <1>6 DEF Shells
  <2>2. ShellBounded(sh') /\ ToFork(sh') = 0 /\ ToFork(sh) = 0
    BY <1>1, <1>2, <1>4, <1>6, <2>1 DEF ShellBounded, ToFork, Looping, NumCmd
  <2> QED BY <1>1, <2>1, <2>2, ShellOnlyBounded
<1>7. CASE sh' = [Prompt(sh.n) EXCEPT !.fds = fds]
  <2>1. /\ sh'.pc = "prompt" /\ sh'.i = 0 /\ sh'.n = sh.n /\ sh'.cmds = <<>> /\ sh'.pid = <<>>
    BY <1>7 DEF Prompt
  <2>2. ShellBounded(sh') /\ ToFork(sh') = 0 /\ ToFork(sh) >= 0
    BY <1>1, <1>2, <1>4, <2>1, PromptBounded
  <2> QED BY <1>1, <2>1, <2>2, ShellOnlyBounded
<1> QED BY <1>3, <1>5, <1>6, <1>7

LEMMA WaitBounded ==
    ASSUME IInv, IInv', Bounds, Wait
    PROVE  Bounds'
<1>1. /\ sh.pc = "wait" /\ script' = script /\ full' = full /\ sh \in Shells
      /\ Len(sh.pid) = Len(sh.cmds) /\ sh.i \in 1 .. Len(sh.cmds) /\ ShellBounded(sh)
  BY DEF Wait, IInv, Typed, PlaceOK, Looping, Bounds
<1>2. sh.i \in Nat /\ Len(sh.cmds) \in Nat /\ ToFork(sh) = 0
  BY <1>1 DEF Shells, ToFork
<1>3. /\ DOMAIN proc' = DOMAIN proc
      /\ \A p \in DOMAIN proc : Alike(proc[p], proc'[p])
  <2>1. CASE \E p \in DOMAIN proc : Reap(p)
    <3>1. PICK p \in DOMAIN proc : Reap(p)
      BY <2>1
    <3> DEFINE d == [proc[p] EXCEPT !.st = "reaped"]
    <3>2. proc' = [proc EXCEPT ![p] = d]
      BY <3>1 DEF Reap
    <3>3. d.n = proc[p].n /\ d.i = proc[p].i /\ d.leader = proc[p].leader /\ d.pg = proc[p].pg
          /\ d.out = proc[p].out
      OBVIOUS
    <3> HIDE DEF d
    <3> QED BY <3>2, <3>3 DEF Alike
  <2>2. CASE proc' = proc
    BY <2>2 DEF Alike
  <2> QED BY <2>1, <2>2 DEF Wait, Unreaped
<1>4. /\ ShellBounded(sh') /\ sh'.n = sh.n /\ ToFork(sh') = 0
  <2>1. CASE sh' = Prompt(sh.n)
    <3>1. /\ sh'.pc = "prompt" /\ sh'.i = 0 /\ sh'.n = sh.n /\ sh'.cmds = <<>> /\ sh'.pid = <<>>
      BY <2>1 DEF Prompt
    <3> QED BY <3>1, PromptBounded
  <2>2. CASE sh.i # NumCmd /\ sh' = [sh EXCEPT !.i = sh.i + 1]
    <3>1. /\ sh'.pc = "wait" /\ sh'.i = sh.i + 1 /\ sh'.n = sh.n /\ sh'.cmds = sh.cmds
          /\ sh'.pid = sh.pid
      BY <1>1, <2>2 DEF Shells
    <3> QED BY <1>1, <1>2, <2>2, <3>1 DEF ShellBounded, ToFork, Looping, NumCmd
  <2> QED BY <2>1, <2>2 DEF Wait, Waited
<1> QED BY <1>1, <1>2, <1>3, <1>4, StepBounded DEF Bounds

-----------------------------------------------------------------------------
(* The children.                                                            *)
LEMMA EndedAlike == ASSUME NEW c PROVE Alike(c, Ended(c))
<1> DEFINE d == [c EXCEPT !.st = "zombie", !.fds = {}, !.in = None, !.out = None, !.streams = {},
                         !.todo = FALSE]
<1>1. Ended(c) = d
  BY DEF Ended
<1> QED BY <1>1 DEF Alike

LEMMA EndBounded ==
    ASSUME IInv, IInv', Bounds, NEW p \in DOMAIN proc, End(p), script' = script, sh' = sh,
           full' \subseteq Pipes
    PROVE  Bounds'
<1>1. proc' = [proc EXCEPT ![p] = Ended(proc[p])]
  BY DEF End
<1> QED BY <1>1, EndedAlike, ChildBoundsKept

LEMMA SetGroupBounded ==
    ASSUME IInv, IInv', Bounds, NEW p, SetGroup(p) PROVE Bounds'
<1> DEFINE c == proc[p]
           g == IF c.leader = p \/ (c.leader # 0 /\ \E q \in Unreaped : proc[q].pg = c.leader)
                THEN c.leader ELSE 0
           d == [c EXCEPT !.st = "group", !.pg = g]
<1>1. p \in DOMAIN proc /\ c \in Children /\ UNCHANGED <<script, sh, full>> /\ full \subseteq Pipes
  BY ChildKinds DEF SetGroup, Bounds
<1>2. proc' = [proc EXCEPT ![p] = d]
  BY DEF SetGroup
<1>3. g \in {c.leader, 0}
  OBVIOUS
<1> HIDE DEF c, g
<1>4. Alike(c, d)
  BY <1>1, <1>3 DEF Children, Alike
<1> HIDE DEF d
<1> QED BY <1>1, <1>2, <1>4, ChildBoundsKept DEF c

LEMMA ExecBounded ==
    ASSUME IInv, IInv', Bounds, NEW p, Exec(p) PROVE Bounds'
<1> DEFINE c == proc[p]
           in == IF c.i > 1 /\ c.rin = None THEN R(c.n, c.i - 1) ELSE None
           out == IF ~c.last /\ c.rout = None THEN W(c.n, c.i) ELSE None
           todo == c.prog # "cat"
           streams == {c.rin, c.rout} \ {None}
           d == [c EXCEPT !.st = "run", !.fds = {}, !.streams = streams, !.in = in, !.out = out,
                          !.todo = todo]
<1>1. p \in DOMAIN proc /\ c \in Children /\ UNCHANGED <<script, sh, full>> /\ full \subseteq Pipes
  BY ChildKinds DEF Exec, ExecKeeping, Bounds
<1>2. End(p) \/ proc' = [proc EXCEPT ![p] = d]
  BY DEF Exec, ExecKeeping
<1>3. out \in {None, W(c.n, c.i)}
  OBVIOUS
<1> HIDE DEF c, in, out, todo
<1>4. Alike(c, d)
  BY <1>1, <1>3 DEF Children, Alike
<1> HIDE DEF d
<1> QED BY <1>1, <1>2, <1>4, ChildBoundsKept, EndBounded DEF c

LEMMA TodoBounded ==
    ASSUME IInv, IInv', Bounds, NEW p \in DOMAIN proc, NEW b, proc' = [proc EXCEPT ![p].todo = b],
           script' = script, sh' = sh, full' \subseteq Pipes
    PROVE  Bounds'
<1> DEFINE d == [proc[p] EXCEPT !.todo = b]
<1>1. proc' = [proc EXCEPT ![p] = d]
  OBVIOUS
<1>2. Alike(proc[p], d)
  BY DEF Alike
<1> HIDE DEF d
<1> QED BY <1>1, <1>2, ChildBoundsKept

LEMMA ReadBounded ==
    ASSUME IInv, IInv', Bounds, NEW p, Read(p) PROVE Bounds'
<1>1. /\ p \in DOMAIN proc /\ script' = script /\ sh' = sh /\ full' \subseteq Pipes
      /\ proc' = [proc EXCEPT ![p].todo = TRUE] \/ End(p)
  BY ChildKinds DEF Read, Bounds
<1> QED BY <1>1, TodoBounded, EndBounded

(* What is written goes into the pipe of the child's own command.           *)
LEMMA WriteBounded ==
    ASSUME IInv, IInv', Bounds, NEW p, Write(p) PROVE Bounds'
<1> DEFINE c == proc[p]
           pipe == <<c.out[1], c.out[2]>>
<1>1. /\ p \in DOMAIN proc /\ script' = script /\ sh' = sh /\ full \subseteq Pipes
      /\ proc' = [proc EXCEPT ![p].todo = FALSE] \/ proc' = proc \/ End(p)
      /\ full' = full \/ (full' = full \cup {pipe} /\ c.out # None)
      /\ ChildBounded(c)
  BY ChildKinds DEF Write, Bounds
<1>2. full' \subseteq Pipes
  <2>1. ASSUME c.out # None PROVE pipe \in Pipes
    <3>1. c.out = W(c.n, c.i) /\ c.n \in 1 .. Len(script) /\ c.i \in 1 .. MaxProcs
      BY <1>1, <2>1 DEF ChildBounded
    <3>2. c.out[1] = c.n /\ c.out[2] = c.i
      BY <3>1 DEF W
    <3> QED BY <3>1, <3>2 DEF Pipes
  <2> QED BY <1>1, <2>1
<1>3. proc' = proc => \A q \in DOMAIN proc : Alike(proc[q], proc'[q])
  BY DEF Alike
<1> QED BY <1>1, <1>2, <1>3, TodoBounded, EndBounded, StepBounded, ShellStays

LEMMA InterruptBounded ==
    ASSUME IInv, IInv', Bounds, NEW p, Interrupt(p) PROVE Bounds'
<1>1. /\ DOMAIN proc' = DOMAIN proc /\ script' = script /\ full' = full
      /\ sh' = sh \/ sh' = [sh EXCEPT !.pc = "killed", !.fds = {}]
      /\ \A q \in DOMAIN proc : proc'[q] \in {Ended(proc[q]), proc[q]}
  BY DEF Interrupt
<1>2. \A q \in DOMAIN proc : Alike(proc[q], Ended(proc[q])) /\ Alike(proc[q], proc[q])
  BY EndedAlike DEF Alike
<1>3. \A q \in DOMAIN proc : Alike(proc[q], proc'[q])
  BY <1>1, <1>2
<1> QED BY <1>1, <1>3, StepBounded, ShellStays DEF Bounds

LEMMA StepsBounded ==
    ASSUME IInv, IInv', Bounds, [Next]_vars PROVE Bounds'
<1>1. CASE UNCHANGED vars
  BY <1>1, ShellOnlyBounded, ShellStays DEF vars
<1>2. CASE ShellStep
  BY <1>2, ReadLineBounded, ForkBounded, CloseBounded, WaitBounded DEF ShellStep
<1>3. ASSUME NEW p \in 1 .. MaxProcs, ChildStep(p) PROVE Bounds'
  BY <1>3, SetGroupBounded, ExecBounded, ReadBounded, WriteBounded, InterruptBounded DEF ChildStep
<1> QED BY <1>1, <1>2, <1>3 DEF Next

(* No script has more children than MaxProcs, whatever forks fail; every     *)
(* child is in the shell's group or in that of a child of the shell, and     *)
(* pid[] has an entry for each command that has been forked.                 *)
THEOREM TypeCorrect == Spec => []TypeOK
<1>1. Init => Bounds
  BY InitBounds
<1>2. IInv /\ IInv' /\ Bounds /\ [Next]_vars => Bounds'
  BY StepsBounded
<1>3. Spec => []Bounds
  BY <1>1, <1>2, Invariance, PTL DEF Spec
<1>4. IInv /\ Bounds => TypeOK
  <2> SUFFICES ASSUME IInv, Bounds PROVE TypeOK
    OBVIOUS
  <2>1. sh \in Shells /\ proc \in Seq(Children) /\ sh.n <= Len(script) /\ Len(script) \in Nat
    BY DEF IInv, Typed
  <2>2. sh.pc \in Pcs /\ sh.n \in 0 .. Len(script)
    BY <2>1 DEF Shells
  <2>3. Range(sh.pid) \subseteq 0 .. Len(proc)
    <3>1. \A k \in DOMAIN sh.pid : sh.pid[k] \in Nat /\ sh.pid[k] <= Len(proc)
      BY <2>1 DEF IInv, Typed, Shells
    <3> QED BY <2>1, <3>1 DEF Range
  <2>4. Len(proc) \in 0 .. MaxProcs
    <3>1. PICK total : Totals(total) /\ Len(proc) + ToFork(sh) <= total[sh.n]
      BY DEF Bounds, Room
    <3>2. total[sh.n] \in 0 .. MaxProcs
      BY <2>2, <3>1 DEF Totals
    <3>3. ToFork(sh) \in Nat
      <4>1. sh.pc \in {"fork", "close"} => sh.i \in 1 .. Len(sh.cmds)
        BY DEF IInv, Typed, PlaceOK, Looping
      <4>2. sh.i \in Nat /\ Len(sh.cmds) \in Nat
        BY <2>1 DEF Shells
      <4> QED BY <4>1, <4>2 DEF ToFork
    <3>4. Len(proc) \in Nat /\ MaxProcs \in Nat
      BY <2>1, ProcsAssumption
    <3> QED BY <3>1, <3>2, <3>3, <3>4
  <2>5. \A p \in DOMAIN proc : /\ proc[p].st \in {"new", "group", "run", "zombie", "reaped"}
                               /\ proc[p].pg \in 0 .. Len(proc)
    <3>1. \A p \in DOMAIN proc : proc[p] \in Children
      BY <2>1, ElementOfSeq
    <3> QED BY <3>1 DEF Children, Bounds, ChildBounded
  <2> QED BY <2>2, <2>3, <2>4, <2>5 DEF TypeOK, Bounds, ShellBounded, NumCmd, Pcs, Pipes
<1> QED BY <1>3, <1>4, Invariance, PTL
=============================================================================
