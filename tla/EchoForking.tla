---------------------------- MODULE EchoForking ----------------------------
(* echoserverp.c: a child for every connection, reaped by the handler of     *)
(* SIGCHLD, which interrupts main wherever it is.                            *)
EXTENDS EchoBase

Main == sys.design = "forking" /\ ~kids.handling
Children == {c \in Clients : task[c].at \in {"read", "write", "close"}}

ForkListens == Main /\ Listens /\ UNCHANGED <<kids, pool, ev>>

ForkAccept ==
    /\ Main /\ Accepts
    /\ main' = [at |-> "fork", fd |-> Head(backlog)]
    /\ UNCHANGED <<task, kids, pool, ev>>

(* Nobody looks at what fork returns but the child: without one, the parent *)
(* closes the connection all the same.                                      *)
Fork ==
    /\ Main /\ main.at = "fork"
    /\ main' = [main EXCEPT !.at = "close"]
    /\ \/ /\ Cardinality(Children \cup kids.zombies) < sys.tasks
          /\ conn' = [conn EXCEPT ![main.fd].open = {"main", "child"}]
          /\ SetTask(main.fd, Begun(main.fd))
       \/ /\ Cardinality(Children \cup kids.zombies) >= sys.tasks
          /\ UNCHANGED <<conn, task>>
    /\ UNCHANGED <<kind, msg, backlog, sys, kids, pool, ev>>

(* Mutant: the parent does not close its descriptor.                        *)
ForkClose_Forgotten ==
    /\ Main /\ main.at = "close"
    /\ main' = [at |-> "accept", fd |-> None]
    /\ UNCHANGED <<connVars, sys, task, kids, pool, ev>>

ForkClose ==
    /\ Main /\ main.at = "close"
    /\ conn' = Without(main.fd, "main")
    /\ main' = [at |-> "accept", fd |-> None]
    /\ UNCHANGED <<kind, msg, backlog, sys, task, kids, pool, ev>>

ChildEchoes(c) == sys.design = "forking" /\ echo(c) /\ UNCHANGED <<kids, pool, ev>>

(* After echo and close, or because a call failed.                          *)
ChildExits(c) ==
    /\ sys.design = "forking" /\ (task[c].at = "close" \/ Fails(c))
    /\ conn' = Without(c, "child")
    /\ SetTask(c, NoTask)
    /\ kids' = [kids EXCEPT !.zombies = @ \cup {c}, !.chld = TRUE]
    /\ UNCHANGED <<kind, msg, backlog, sys, main, pool, ev>>

Caught ==
    /\ Main /\ kids.chld
    /\ kids' = [kids EXCEPT !.chld = FALSE, !.handling = TRUE]
    /\ UNCHANGED <<connVars, sys, main, task, pool, ev>>

(* Mutant: one call of waitpid for each signal.                             *)
sigchld_handler_Once ==
    /\ kids.handling
    /\ \E z \in SUBSET kids.zombies :
         /\ Cardinality(z) = Min({1, Cardinality(kids.zombies)})
         /\ kids' = [kids EXCEPT !.zombies = @ \ z, !.handling = FALSE]
    /\ UNCHANGED <<connVars, sys, main, task, pool, ev>>

(* waitpid until it finds nobody.                                           *)
sigchld_handler ==
    /\ kids.handling
    /\ \/ \E c \in kids.zombies : kids' = [kids EXCEPT !.zombies = @ \ {c}]
       \/ kids.zombies = {} /\ kids' = [kids EXCEPT !.handling = FALSE]
    /\ UNCHANGED <<connVars, sys, main, task, pool, ev>>

ForkMain == ForkListens \/ ForkAccept \/ Fork \/ ForkClose \/ Caught \/ sigchld_handler
ForkChild(c) == ChildEchoes(c) \/ ChildExits(c)
=============================================================================
