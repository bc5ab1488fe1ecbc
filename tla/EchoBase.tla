------------------------------ MODULE EchoBase ------------------------------
(***************************************************************************)
(* What the echo servers share: their variables, echo() of echo.c with the *)
(* Rio functions and wrappers of csapp.c, and how a process ends.  Each    *)
(* server is a module of its own; Echo composes them.                      *)
(***************************************************************************)
EXTENDS Conns

CONSTANTS
    Systems,        \* the designs and limits considered
    Workers,        \* threads of the pool
    None

VARIABLES
    sys,            \* [design, window, tasks, fds]: the server and its limits
    main,           \* [at, fd]: the main thread
    task,           \* task[c]: what handles connection c
    kids,           \* the forking server's zombies, and its signal handler
    pool,           \* the prethreaded server's queue, workers, counter and mutex
    ev              \* the epoll server's edges, batch and hang-ups in it

echoVars == <<sys, main, task, kids, pool, ev>>
vars == <<connVars, echoVars>>

NoTask == [at |-> "none", rio |-> rio_readinitb, todo |-> <<>>, reg |-> 0]

BaseInit ==
    /\ sys \in Systems
    /\ main = [at |-> "setup", fd |-> None]
    /\ task = [c \in Clients |-> NoTask]
    /\ kids = [zombies |-> {}, chld |-> FALSE, handling |-> FALSE]
    /\ pool = [queue |-> <<>>, holds |-> [w \in Workers |-> None], running |-> {},
               byte_cnt |-> 0, mutex |-> None]
    /\ ev = [edge |-> {}, batch |-> {}, hup |-> {}]

Up == main.at \notin {"setup", "exited"}
OpenFds == {c \in Clients : "main" \in conn[c].open}
FdsLeft == Cardinality(OpenFds) < sys.fds

(* Options, addresses, bind and listen: the port may be in use.             *)
Listens ==
    /\ main.at = "setup"
    /\ \E at \in {"accept", "exited"} : main' = [main EXCEPT !.at = at]
    /\ UNCHANGED <<connVars, sys, task>>

(* exit: every descriptor of the process is closed, and its threads end.    *)
Exit ==
    /\ main' = [at |-> "exited", fd |-> None]
    /\ task' = [c \in Clients |-> NoTask]
    /\ conn' = AllClosed
    /\ UNCHANGED <<kind, msg, backlog, sys>>

(* Takes what is first in the backlog.                                      *)
Accepts ==
    /\ main.at = "accept" /\ backlog # <<>>
    /\ conn' = Accepted /\ backlog' = Tail(backlog)
    /\ UNCHANGED <<kind, msg, sys>>

SetTask(c, t) == task' = [task EXCEPT ![c] = t]
Begun(c) == [NoTask EXCEPT !.at = "read"]

-----------------------------------------------------------------------------
(* Bytes arrive in any pieces, so a read takes all there is; a refill is    *)
(* one step.  After the line, echo writes it and echo_cnt counts it.        *)
LineOr(r, next) ==
    IF LineRead(r) THEN [at |-> next, rio |-> Returned(r), todo |-> r.user, reg |-> 0]
                   ELSE [at |-> "read", rio |-> r, todo |-> <<>>, reg |-> 0]

(* Rio_readlineb, as long as there is something to read.                    *)
Rio_readlineb(c, next) ==
    /\ task[c].at = "read"
    /\ \/ /\ NeedsRead(task[c].rio) /\ Ready(c)
          /\ LET n == Min({RioBuf, Len(conn[c].in)}) IN
               /\ Changes(c, [conn[c] EXCEPT !.in = Drop(@, n)])
               /\ SetTask(c, LineOr(Copied(Refilled(task[c].rio, SubSeq(conn[c].in, 1, n))), next))
       \/ /\ task[c].rio.buf # <<>>
          /\ SetTask(c, LineOr(Copied(task[c].rio), next))
          /\ UNCHANGED connVars
    /\ UNCHANGED <<sys, main>>

(* At the end of the file what there is of a line is returned; then 0.      *)
RioEnd(c, next) ==
    /\ task[c].at = "read" /\ NeedsRead(task[c].rio) /\ AtEnd(c)
    /\ LET r == task[c].rio IN
         SetTask(c, IF r.user = <<>> THEN [task[c] EXCEPT !.at = "close"]
                    ELSE [at |-> next, rio |-> Returned(r), todo |-> r.user, reg |-> 0])
    /\ UNCHANGED <<connVars, sys, main>>

(* rio_writen: write after write until nothing is left.                     *)
rio_writen(c) ==
    /\ task[c].at = "write" /\ ~conn[c].gone
    /\ LET n == Min({Len(task[c].todo), sys.window - Len(conn[c].out)}) IN
         /\ n > 0
         /\ Changes(c, [conn[c] EXCEPT !.out = @ \o SubSeq(task[c].todo, 1, n)])
         /\ SetTask(c, [task[c] EXCEPT !.todo = Drop(@, n),
                                       !.at = IF n = Len(task[c].todo) THEN "read" ELSE "write"])
    /\ UNCHANGED <<sys, main>>

(* A read or a write that fails: the wrappers of csapp.c end the process,   *)
(* if SIGPIPE has not.                                                      *)
Fails(c) ==
    \/ task[c].at = "read" /\ NeedsRead(task[c].rio) /\ Broken(c)
    \/ task[c].at = "write" /\ conn[c].gone

(* echo                                                                     *)
echo(c) == Rio_readlineb(c, "write") \/ RioEnd(c, "write") \/ rio_writen(c)
=============================================================================
