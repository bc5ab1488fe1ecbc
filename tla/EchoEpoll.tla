----------------------------- MODULE EchoEpoll -----------------------------
(* echoservere.c: one thread, non-blocking sockets and edge-triggered        *)
(* events, of which None stands for the listening socket's.                  *)
EXTENDS EchoBase

Keep == UNCHANGED <<kids, pool>>

EpollListens == sys.design = "epoll" /\ Listens /\ UNCHANGED ev /\ Keep

(* epoll_wait takes all the edges there are, and says which are of a        *)
(* connection that has been reset by then (EPOLLERR, EPOLLHUP).             *)
EpollWait ==
    /\ sys.design = "epoll" /\ main.at = "accept" /\ ev.edge # {}
    /\ ev' = [edge |-> {}, batch |-> ev.edge, hup |-> {c \in ev.edge \ {None} : conn[c].gone}]
    /\ main' = [main EXCEPT !.at = "events"]
    /\ UNCHANGED <<connVars, sys, task>> /\ Keep

NextEvent ==
    /\ sys.design = "epoll" /\ main.at = "events"
    /\ \/ \E e \in ev.batch \ ev.hup :
            /\ ev' = [ev EXCEPT !.batch = @ \ {e}]
            /\ main' = [at |-> IF e = None THEN "accepting" ELSE "recv", fd |-> e]
       \/ ev.batch = {} /\ main' = [main EXCEPT !.at = "accept"] /\ UNCHANGED ev
    /\ UNCHANGED <<connVars, sys, task>> /\ Keep

(* An event with EPOLLERR or EPOLLHUP: nothing more is read.                *)
EpollHangUp ==
    /\ sys.design = "epoll" /\ main.at = "events"
    /\ \E c \in ev.batch \cap ev.hup :
         /\ conn' = Without(c, "main")
         /\ ev' = [ev EXCEPT !.batch = @ \ {c}, !.edge = @ \ {c}]
    /\ UNCHANGED <<kind, msg, backlog, sys, main, task>> /\ Keep

(* Mutant: one connection is accepted for each event.                       *)
EpollAccept_One ==
    /\ sys.design = "epoll" /\ main.at = "accepting"
    /\ \/ ~FdsLeft /\ Exit /\ UNCHANGED ev
       \/ /\ FdsLeft /\ backlog = <<>>
          /\ main' = [main EXCEPT !.at = "events"]
          /\ UNCHANGED <<connVars, sys, task, ev>>
       \/ /\ FdsLeft /\ backlog # <<>>
          /\ main' = [main EXCEPT !.at = "events"]
          /\ conn' = Accepted /\ backlog' = Tail(backlog)
          /\ ev' = [ev EXCEPT !.edge = @ \cup {c \in {Head(backlog)} : Arrived(c)}]
          /\ UNCHANGED <<kind, msg, sys, task>>
    /\ Keep

(* The loop of accept, until nobody waits; registering a socket on which    *)
(* something has already happened raises its edge.                          *)
EpollAccept ==
    /\ sys.design = "epoll" /\ main.at = "accepting"
    /\ \/ ~FdsLeft /\ Exit /\ UNCHANGED ev
       \/ /\ FdsLeft /\ backlog = <<>>
          /\ main' = [main EXCEPT !.at = "events"]
          /\ UNCHANGED <<connVars, sys, task, ev>>
       \/ /\ FdsLeft /\ backlog # <<>>
          /\ conn' = Accepted /\ backlog' = Tail(backlog)
          /\ ev' = [ev EXCEPT !.edge = @ \cup {c \in {Head(backlog)} : Arrived(c)}]
          /\ UNCHANGED <<kind, msg, sys, main, task>>
    /\ Keep

(* recv takes MAXLINE bytes at most.                                        *)
EpollRecv ==
    LET c == main.fd
        n == Min({MaxLine, Len(conn[c].in)})
    IN
    /\ sys.design = "epoll" /\ main.at = "recv" /\ Ready(c)
    /\ Changes(c, [conn[c] EXCEPT !.in = Drop(@, n)])
    /\ SetTask(c, [NoTask EXCEPT !.at = "write", !.todo = SubSeq(conn[c].in, 1, n)])
    /\ main' = [main EXCEPT !.at = "send"]
    /\ UNCHANGED <<sys, ev>> /\ Keep

(* Mutant: an event of input is enough to read once.                        *)
EpollSend_Once ==
    LET c == main.fd
        todo == task[c].todo
        n == Min({Len(todo), sys.window - Len(conn[c].out)})
    IN
    /\ sys.design = "epoll" /\ main.at = "send"
    /\ Changes(c, [conn[c] EXCEPT !.out = @ \o SubSeq(todo, 1, n)])
    /\ SetTask(c, NoTask) /\ main' = [at |-> "events", fd |-> None]
    /\ UNCHANGED <<sys, ev>> /\ Keep

(* A send whose result nobody looks at: what finds no room is lost.  The    *)
(* first one after a reset fails, the next one is answered with SIGPIPE.    *)
EpollSend ==
    LET c == main.fd
        todo == task[c].todo
        n == Min({Len(todo), sys.window - Len(conn[c].out)})
    IN
    /\ sys.design = "epoll" /\ main.at = "send"
    /\ \/ /\ ~conn[c].gone
          /\ Changes(c, [conn[c] EXCEPT !.out = @ \o SubSeq(todo, 1, n)])
          /\ SetTask(c, NoTask) /\ main' = [main EXCEPT !.at = "recv"]
          /\ UNCHANGED sys
       \/ /\ conn[c].err
          /\ conn' = Told(c)
          /\ SetTask(c, NoTask) /\ main' = [main EXCEPT !.at = "recv"]
          /\ UNCHANGED <<kind, msg, backlog, sys>>
       \/ conn[c].gone /\ ~conn[c].err /\ Exit
    /\ UNCHANGED ev /\ Keep

(* At the end of the file, or after an error.                               *)
EpollCloses ==
    LET c == main.fd IN
    /\ sys.design = "epoll" /\ main.at = "recv" /\ (AtEnd(c) \/ Broken(c))
    /\ conn' = Without(c, "main")
    /\ main' = [at |-> "events", fd |-> None]
    /\ ev' = [ev EXCEPT !.edge = @ \ {c}]
    /\ UNCHANGED <<kind, msg, backlog, sys, task>> /\ Keep

(* EAGAIN: nothing more to read.                                            *)
EpollDry ==
    LET c == main.fd IN
    /\ sys.design = "epoll" /\ main.at = "recv" /\ ~Arrived(c)
    /\ main' = [at |-> "events", fd |-> None]
    /\ UNCHANGED <<connVars, sys, task, ev>> /\ Keep

EpollStep ==
    \/ EpollListens \/ EpollWait \/ NextEvent \/ EpollHangUp \/ EpollAccept
    \/ EpollRecv \/ EpollSend \/ EpollCloses \/ EpollDry
=============================================================================
