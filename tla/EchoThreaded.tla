---------------------------- MODULE EchoThreaded ---------------------------
(* echoservert.c: a detached thread for every connection, which is passed    *)
(* its descriptor in a block of its own.                                     *)
EXTENDS EchoBase

Threads == {c \in Clients : task[c].at # "none"}

ThreadListens == sys.design = "threaded" /\ Listens /\ UNCHANGED <<kids, pool, ev>>

(* Without a free descriptor accept fails at once, and its -1 goes to the   *)
(* new thread like any descriptor.                                          *)
ThreadAccept ==
    /\ sys.design = "threaded" /\ main.at = "accept"
    /\ \/ /\ FdsLeft /\ Accepts
          /\ main' = [at |-> "create", fd |-> Head(backlog)]
       \/ /\ ~FdsLeft
          /\ main' = [at |-> "create", fd |-> None]
          /\ UNCHANGED <<connVars, sys>>
    /\ UNCHANGED <<task, kids, pool, ev>>

(* pthread_create may fail, unnoticed.  A thread that is passed -1 ends the *)
(* process; when, does not matter to the others, who run until then.        *)
ThreadCreate ==
    /\ sys.design = "threaded" /\ main.at = "create"
    /\ LET room == Cardinality(Threads) < sys.tasks IN
       \/ /\ room /\ main.fd # None
          /\ SetTask(main.fd, [NoTask EXCEPT !.at = "created"])
          /\ main' = [main EXCEPT !.at = "accept"]
          /\ UNCHANGED <<connVars, sys>>
       \/ room /\ main.fd = None /\ Exit
       \/ /\ ~room
          /\ main' = [main EXCEPT !.at = "accept"]
          /\ UNCHANGED <<connVars, sys, task>>
    /\ UNCHANGED <<kids, pool, ev>>

ThreadStart(c) ==
    /\ sys.design = "threaded" /\ task[c].at = "created"
    /\ SetTask(c, Begun(c))
    /\ UNCHANGED <<connVars, sys, main, kids, pool, ev>>

ThreadEchoes(c) ==
    /\ sys.design = "threaded"
    /\ echo(c) \/ (Fails(c) /\ Exit)
    /\ UNCHANGED <<kids, pool, ev>>

ThreadCloses(c) ==
    /\ sys.design = "threaded" /\ task[c].at = "close"
    /\ conn' = Without(c, "main")
    /\ SetTask(c, NoTask)
    /\ UNCHANGED <<kind, msg, backlog, sys, main, kids, pool, ev>>

ThreadMain == ThreadListens \/ ThreadAccept \/ ThreadCreate
Thread(c) == ThreadStart(c) \/ ThreadEchoes(c) \/ ThreadCloses(c)
=============================================================================
