--------------------------- MODULE EchoIterative ---------------------------
(* echoserveri.c and hw-sockets/server.c: one connection after another.  The *)
(* latter (design "recv") receives and sends itself, sleeps in between,      *)
(* carries on after an error and never closes a connection.                  *)
EXTENDS EchoBase

Others == <<kids, pool, ev>>

IterListens == sys.design = "iterative" /\ Listens /\ UNCHANGED Others

IterAccept ==
    /\ sys.design = "iterative" /\ Accepts
    /\ main' = [at |-> "echo", fd |-> Head(backlog)]
    /\ SetTask(Head(backlog), Begun(Head(backlog)))
    /\ UNCHANGED Others

IterEcho ==
    /\ sys.design = "iterative" /\ main.at = "echo"
    /\ \/ echo(main.fd)
       \/ Fails(main.fd) /\ Exit
    /\ UNCHANGED Others

IterClose ==
    /\ sys.design = "iterative" /\ main.at = "echo" /\ task[main.fd].at = "close"
    /\ conn' = Without(main.fd, "main")
    /\ SetTask(main.fd, NoTask)
    /\ main' = [at |-> "accept", fd |-> None]
    /\ UNCHANGED <<kind, msg, backlog, sys, Others>>

IterStep == IterListens \/ IterAccept \/ IterEcho \/ IterClose

RecvListens == sys.design = "recv" /\ Listens /\ UNCHANGED Others

(* accept needs a free descriptor before it waits.                          *)
RecvAccept ==
    /\ sys.design = "recv" /\ main.at = "accept"
    /\ \/ ~FdsLeft /\ Exit
       \/ /\ FdsLeft /\ Accepts
          /\ main' = [at |-> "echo", fd |-> Head(backlog)]
          /\ SetTask(Head(backlog), Begun(Head(backlog)))
    /\ UNCHANGED Others

(* MaxLine stands for BUF_SIZE.                                             *)
RecvRecv ==
    LET c == main.fd
        n == Min({MaxLine, Len(conn[c].in)})
    IN
    /\ sys.design = "recv" /\ main.at = "echo" /\ task[c].at = "read"
    /\ \/ /\ Ready(c)
          /\ Changes(c, [conn[c] EXCEPT !.in = Drop(@, n)])
          /\ SetTask(c, [task[c] EXCEPT !.at = "write", !.todo = SubSeq(conn[c].in, 1, n)])
          /\ UNCHANGED main
       \/ /\ AtEnd(c)
          /\ SetTask(c, NoTask)
          /\ main' = [at |-> "accept", fd |-> None]
          /\ UNCHANGED connVars
       \/ /\ Broken(c)
          /\ conn' = Told(c)
          /\ UNCHANGED <<kind, msg, backlog, main, task>>
    /\ UNCHANGED <<sys, Others>>

(* A blocking send takes everything, in pieces.  The first call after a     *)
(* reset fails, the next one is answered with SIGPIPE.                      *)
RecvSend ==
    LET c == main.fd IN
    /\ sys.design = "recv" /\ main.at = "echo"
    /\ \/ rio_writen(c)
       \/ /\ task[c].at = "write" /\ conn[c].err
          /\ conn' = Told(c)
          /\ SetTask(c, Begun(c))
          /\ UNCHANGED <<kind, msg, backlog, sys, main>>
       \/ task[c].at = "write" /\ conn[c].gone /\ ~conn[c].err /\ Exit
    /\ UNCHANGED Others

RecvStep == RecvListens \/ RecvAccept \/ RecvRecv \/ RecvSend
=============================================================================
