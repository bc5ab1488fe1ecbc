------------------------------ MODULE Signals ------------------------------
(***************************************************************************)
(* hw-signals: the process that runs sleep_block_loop of signals.c, with   *)
(* its ten handlers, and its parent, which has become killer.c and sends   *)
(* it the signals of one of ten scenarios.                                 *)
(*                                                                         *)
(* A process runs until it sleeps; the clock, in seconds, advances only    *)
(* when nobody can run.  Everything that falls into one second happens in  *)
(* any order: two sleeps that end together are a tie.                      *)
(*                                                                         *)
(* sa_mask is never set before sigaction is called.  It is whatever the    *)
(* stack holds, the same for all handlers: any member of Masks.            *)
(***************************************************************************)
EXTENDS Integers, Sequences
LOCAL INSTANCE FiniteSetsExt
LOCAL INSTANCE SequencesExt

CONSTANTS
    Scenarios,      \* the scenarios that may be asked for
    Masks           \* what sa_mask may hold

HUP == 1   INT == 2   QUIT == 3  USR1 == 10  USR2 == 12
TERM == 15 STKFLT == 16 CHLD == 17 PWR == 30 SYS == 31
Signal == {HUP, INT, QUIT, USR1, USR2, TERM, STKFLT, CHLD, PWR, SYS}

ASSUME SignalsAssumption == Scenarios \subseteq 0 .. 9 /\ Masks \subseteq SUBSET Signal

VARIABLES
    scenario, sa_mask,
    clock,          \* seconds
    killer,         \* the parent: its next statement, when it wakes up
    stack,          \* the child's frames: main's, then the handlers'
    foo, block,     \* its two globals
    mask, pending,  \* its blocked signals, and those sent and not yet received
    default,        \* SIGTERM is back to its default
    set,            \* the mask the loop has made up and not yet installed
    kid,            \* the process forked by sig_handler5
    out,            \* what has been printed
    alive

vars == <<scenario, sa_mask, clock, killer, stack, foo, block, mask, pending, default, set, kid, out, alive>>

ECHILD == 10
KidPid == 100       \* any number that is no other output
Junk == -7          \* an uninitialised status

-----------------------------------------------------------------------------
(* The statements of each scenario, up to the waitpid that ends all.        *)
Kill(s) == <<"kill", s>>
Sleep(n) == <<"sleep", n>>
Silence(n) == <<Sleep(n), Kill(USR2), Sleep(1), Kill(TERM)>>
Script ==
    [s \in 0 .. 9 |->
       CASE s = 0 -> <<Kill(INT)>>
         [] s = 1 -> Tail(Silence(0))
         [] s = 2 -> <<Kill(INT)>> \o Silence(4)
         [] s = 3 -> <<Kill(INT), Sleep(5), Kill(INT)>> \o Silence(4)
         [] s = 4 -> <<Kill(INT), Sleep(2), Kill(HUP)>> \o Silence(4)
         [] s = 5 -> <<Kill(INT)>> \o Tail(Silence(0))
         [] s = 6 -> <<Kill(INT), Sleep(4), Kill(USR1), Sleep(1), Kill(STKFLT)>> \o Tail(Silence(0))
         [] s = 7 -> <<Kill(INT), Sleep(4), Kill(USR1)>> \o Tail(Silence(0))
         [] s = 8 -> <<Kill(INT), Sleep(5), Kill(SYS), Sleep(1), Kill(USR1), Sleep(1),
                       Kill(PWR), Sleep(1), Kill(TERM)>> \o Tail(Silence(0))
         [] s = 9 -> <<Kill(SYS), Sleep(1), Kill(QUIT), Sleep(5), Kill(SYS)>> \o Silence(4)]

(* The handlers, one statement with at most one system call at a time, and  *)
(* the loop of main, which is at the bottom of the stack.                   *)
Put(n) == <<"print", n>>
Do(f) == <<f, 0>>
Main == 0
Code ==
    [f \in Signal \cup {Main} |->
       CASE f \in {HUP, INT} -> <<Put(1), Sleep(4), Put(2)>>
         [] f = QUIT -> <<Put(8), Do("raise INT"), Sleep(4), Put(9)>>
         [] f = TERM -> <<Do("print foo")>>
         [] f = PWR -> <<Do("set foo")>>
         [] f = USR1 -> <<Do("fork")>>
         [] f = STKFLT -> <<Do("poll")>>
         [] f = SYS -> <<Do("toggle")>>
         [] f = USR2 -> <<Do("default")>>
         [] f = CHLD -> <<Do("wait")>>
         [] f = Main -> FlattenSeq([i \in 1 .. 20 |-> <<Do("read block"), Do("set mask"), Sleep(1)>>])
                          \o <<Put(25), Do("exit")>>]

(* A frame is awake once the clock has reached wake.                        *)
Frame(f) == [fn |-> f, pc |-> 1, wake |-> 0, saved |-> mask]

Init ==
    /\ scenario \in Scenarios /\ sa_mask \in Masks
    /\ clock = 0 /\ killer = [pc |-> 1, wake |-> 0]
    /\ stack = <<[fn |-> Main, pc |-> 1, wake |-> 0, saved |-> {}]>>
    /\ foo = -1 /\ block = FALSE
    /\ mask = {} /\ pending = {} /\ default = FALSE /\ set = {}
    /\ kid = "none" /\ out = <<>> /\ alive = TRUE

Top == Last(stack)
Op == Code[Top.fn][Top.pc]
Deliverable == pending \ mask
Awake(t) == t.wake <= clock

(* The kernel delivers the lowest number first and starts no handler before *)
(* all that can be delivered have their frames.  The sleep underneath       *)
(* returns early, SA_RESTART or not.                                        *)
Deliver ==
    /\ alive /\ Deliverable # {}
    /\ LET s == Min(Deliverable) IN
         /\ pending' = pending \ {s}
         /\ \/ /\ s = TERM /\ default
               /\ alive' = FALSE
               /\ UNCHANGED <<stack, mask>>
            \/ /\ ~(s = TERM /\ default)
               /\ stack' = Append([stack EXCEPT ![Len(stack)].wake = 0], Frame(s))
               /\ mask' = mask \cup {s} \cup sa_mask
               /\ UNCHANGED alive
    /\ UNCHANGED <<scenario, sa_mask, clock, killer, foo, block, default, set, kid, out>>

(* The next statement of the frame on top is o.                             *)
At(o) ==
    /\ alive /\ Deliverable = {} /\ Awake(Top)
    /\ Top.pc <= Len(Code[Top.fn]) /\ Op[1] = o
    /\ stack' = [stack EXCEPT ![Len(stack)] =
                    [@ EXCEPT !.pc = @ + 1, !.wake = IF o = "sleep" THEN clock + Op[2] ELSE 0]]
    /\ UNCHANGED <<scenario, sa_mask, clock, killer>>

PrintSomething ==
    /\ \/ At("print") /\ out' = Append(out, Op[2])
       \/ At("print foo") /\ out' = Append(out, foo)
    /\ UNCHANGED <<foo, block, mask, pending, default, set, kid, alive>>
GoToSleep == At("sleep") /\ UNCHANGED <<foo, block, mask, pending, default, set, kid, out, alive>>

sig_handler2_Raise ==
    /\ At("raise INT") /\ pending' = pending \cup {INT}
    /\ UNCHANGED <<foo, block, mask, default, set, kid, out, alive>>
sig_handler4 ==
    /\ At("set foo") /\ foo' = (IF foo > 0 THEN 6 ELSE foo)
    /\ UNCHANGED <<block, mask, pending, default, set, kid, out, alive>>
sig_handler5 ==
    /\ At("fork") /\ foo' = KidPid /\ kid' = "running"
    /\ UNCHANGED <<block, mask, pending, default, set, out, alive>>
sig_handler6 ==
    /\ At("poll")
    /\ kid' = (IF kid = "zombie" THEN "none" ELSE kid)
    /\ out' = (IF kid = "none" THEN Append(out, ECHILD) ELSE out)
    /\ UNCHANGED <<foo, block, mask, pending, default, set, alive>>
sig_handler7 ==
    /\ At("toggle") /\ block' = ~block
    /\ UNCHANGED <<foo, mask, pending, default, set, kid, out, alive>>
(* Mutant: sig_handler8 resets SIGQUIT instead of SIGTERM.                  *)
sig_handler8_OtherSignal == At("default") /\ UNCHANGED <<foo, block, mask, pending, default, set, kid, out, alive>>

sig_handler8 ==
    /\ At("default") /\ default' = TRUE
    /\ UNCHANGED <<foo, block, mask, pending, set, kid, out, alive>>

(* Mutant: sig_handler9 waits in a loop until waitpid returns 0.            *)
sig_handler9_Loops ==
    /\ alive /\ Deliverable = {} /\ Awake(Top)
    /\ Top.pc <= Len(Code[Top.fn]) /\ Op[1] = "wait"
    /\ kid = "zombie" /\ kid' = "none"
    /\ UNCHANGED <<scenario, sa_mask, clock, killer, stack, foo, block, mask, pending,
                   default, set, out, alive>>

(* waitpid blocks while the kid runs, and fails, leaving status as it was,  *)
(* when there is none.                                                      *)
sig_handler9 ==
    /\ At("wait") /\ kid # "running"
    /\ kid' = "none"
    /\ out' = Append(out, IF kid = "zombie" THEN 7 ELSE Junk)
    /\ UNCHANGED <<foo, block, mask, pending, default, set, alive>>

(* The loop reads block, installs the mask, sleeps: signals come between.   *)
Blocked == IF block THEN {INT, CHLD} ELSE {}
sleep_block_loop ==
    \/ /\ At("read block") /\ set' = Blocked
       /\ UNCHANGED <<foo, block, mask, pending, default, kid, out, alive>>
    \/ /\ At("set mask") /\ mask' = set
       /\ UNCHANGED <<foo, block, pending, default, set, kid, out, alive>>
    \/ /\ At("exit") /\ alive' = FALSE
       /\ UNCHANGED <<foo, block, mask, pending, default, set, kid, out>>

HandlerReturns ==
    /\ alive /\ Deliverable = {} /\ Awake(Top) /\ Top.pc > Len(Code[Top.fn])
    /\ stack' = Front(stack) /\ mask' = Top.saved
    /\ UNCHANGED <<scenario, sa_mask, clock, killer, foo, block, pending, default, set, kid, out, alive>>

KidExits ==
    /\ kid = "running" /\ kid' = "zombie"
    /\ pending' = pending \cup {CHLD}
    /\ UNCHANGED <<scenario, sa_mask, clock, killer, stack, foo, block, mask, default, set, out, alive>>

KillerReady == killer.pc <= Len(Script[scenario]) /\ Awake(killer)
KillerSteps ==
    /\ KillerReady
    /\ LET o == Script[scenario][killer.pc] IN
         /\ killer' = [pc |-> killer.pc + 1,
                       wake |-> IF o[1] = "sleep" THEN clock + o[2] ELSE 0]
         /\ pending' = (IF o[1] = "kill" THEN pending \cup {o[2]} ELSE pending)
    /\ UNCHANGED <<scenario, sa_mask, clock, stack, foo, block, mask, default, set, kid, out, alive>>

Tick ==
    /\ ~KillerReady /\ kid # "running"
    /\ alive => Deliverable = {} /\ ~Awake(Top)
    /\ alive \/ ~Awake(killer)
    /\ clock' = clock + 1
    /\ UNCHANGED <<scenario, sa_mask, killer, stack, foo, block, mask, pending, default, set, kid, out, alive>>

Next ==
    \/ Deliver \/ PrintSomething \/ GoToSleep \/ HandlerReturns
    \/ sig_handler2_Raise \/ sig_handler4 \/ sig_handler5 \/ sig_handler6
    \/ sig_handler7 \/ sig_handler8 \/ sig_handler9
    \/ sleep_block_loop \/ KidExits \/ KillerSteps \/ Tick

(* The kernel lets everybody run who can, and seconds go by.                *)
Spec == Init /\ [][Next]_vars /\ WF_vars(Next)

Over == ~alive /\ ~KillerReady /\ Awake(killer)

-----------------------------------------------------------------------------
(* What driver.py expects of each scenario.                                 *)
Solution ==
    [s \in 0 .. 9 |->
       CASE s = 0 -> <<1, 2, 25>>
         [] s = 1 -> <<>>
         [] s = 2 -> <<1, 2>>
         [] s = 3 -> <<1, 2, 1, 2>>
         [] s = 4 -> <<1, 1, 2, 2>>
         [] s = 5 -> <<1>>
         [] s = 6 -> <<1, 2, 7, 10>>
         [] s = 7 -> <<1, 2, 7>>
         [] s = 8 -> <<1, 2, 6>>
         [] s = 9 -> <<8, 9, 1, 2>>]

(* Where the signals are a second apart and handlers nest, whatever falls   *)
(* together within a second the output is the one expected; in scenarios 6, *)
(* 7 and 9, where two sleeps end together or the loop may sleep on with the *)
(* mask of before, at least the same numbers come out, in some order.  In   *)
(* scenario 5 SIGUSR2 may cut the sleep of SIGINT's handler short, and in 8 *)
(* the kid's end may come before SIGCHLD is blocked: each adds one number,  *)
(* in one place, and nothing else may happen.                               *)
(* (sig_handler1 to 9, sleep_block_loop and killer.c's main)                *)
AsExpected ==
    Over /\ sa_mask = {} =>
        /\ scenario \in 0 .. 4 => out = Solution[scenario]
        /\ scenario = 5 => out \in {Solution[5], <<1, 2>>}
        /\ scenario = 8 => out \in {Solution[8], <<1, 2, 7, 6>>}
        /\ scenario \in {6, 7, 9} => /\ Len(out) = Len(Solution[scenario])
                                     /\ ToSet(out) = ToSet(Solution[scenario])

(* Whatever mask the handlers were installed with, every scenario ends: no  *)
(* handler waits for ever in waitpid, and SIGTERM kills, or the loop runs   *)
(* out (sig_handler9, sleep_block_loop).                                    *)
Ends == <>Over
=============================================================================
