-------------------------------- MODULE Echo --------------------------------
(***************************************************************************)
(* The echo servers beside their clients: the same clients for each        *)
(* design, and one statement of what an echo server owes them.             *)
(***************************************************************************)
EXTENDS EchoIterative, EchoForking, EchoThreaded, EchoPool, EchoEpoll

CONSTANTS
    Mixes,          \* the combinations of clients considered
    Messages        \* what each of them sends

ASSUME EchoAssumption ==
    /\ IsFiniteSet(Clients) /\ Mixes \subseteq [Clients -> Kinds]
    /\ Messages \in [Clients -> Seq(Clients \cup {NL})]
    /\ None \notin Clients /\ Bad \notin Clients
    /\ Workers \cap {None, Uninit} = {} /\ None # Uninit
    /\ \A s \in Systems : s.window \in Nat \ {0} /\ s.tasks \in Nat \ {0} /\ s.fds \in Nat \ {0}

Init == ConnInit(Mixes, Messages) /\ BaseInit

(* What a client does shows to epoll as an edge, of its socket if that is   *)
(* registered, or of the listening one.                                     *)
Client(c) ==
    /\ \/ /\ Up /\ Connect(c)
          /\ ev' = IF sys.design = "epoll" THEN [ev EXCEPT !.edge = @ \cup {None}] ELSE ev
       \/ /\ ClientSend(c) \/ ClientShut(c) \/ ClientReset(c)
          /\ ev' = IF sys.design = "epoll" /\ conn[c].open # {}
                   THEN [ev EXCEPT !.edge = @ \cup {c}] ELSE ev
       \/ ClientRead(c) /\ UNCHANGED ev
    /\ UNCHANGED <<sys, main, task, kids, pool>>

MainStep == IterStep \/ RecvStep \/ ForkMain \/ ThreadMain \/ PoolMain \/ EpollStep
TaskStep(c) == ForkChild(c) \/ Thread(c)

Next ==
    \/ MainStep
    \/ \E c \in Clients : Client(c) \/ TaskStep(c)
    \/ \E w \in Workers : handle_clients(w)

Spec == Init /\ [][Next]_vars

(* Threads and processes run, and a client that has connected goes on to    *)
(* send, shut down and read; nobody has to connect or to reset.             *)
FairSpec ==
    /\ Spec /\ WF_vars(MainStep)
    /\ \A c \in Clients : WF_vars(TaskStep(c)) /\ WF_vars(ClientStep(c) /\ Client(c))
    /\ \A w \in Workers : WF_vars(handle_clients(w))
-----------------------------------------------------------------------------
(* What has been received of a connection and not yet been sent back.       *)
Underway(c) == task[c].todo \o task[c].rio.user \o task[c].rio.buf

(* Bytes travel in order and none is lost, doubled or mixed up with those   *)
(* of another connection: what a client has got, what is on its way back,   *)
(* what the server holds, what is on its way there and what is still to be  *)
(* sent make up the client's message.  Except if the client resets, if the  *)
(* server has exited, or for the epoll server with a window that its        *)
(* unchecked send can fill.                                                 *)
EchoExact ==
    \A c \in Clients :
        \/ conn[c].gone \/ main.at = "exited"
        \/ sys.design = "epoll" /\ sys.window < Len(msg[c])
        \/ conn[c].got \o conn[c].out \o Underway(c) \o conn[c].in \o conn[c].unsent = msg[c]

(* Every descriptor of a connection is one that somebody is going to close: *)
(* main, the queue, a thread or the child.  The epoll server lets go of it  *)
(* between events, so there whatever has happened to an open connection     *)
(* must have an event still to come, or be what it is about to read.        *)
(* Except in hw-sockets/server.c, which never closes any although its       *)
(* README (313) asks for it, and in echoservert.c without a thread for it.  *)
DescriptorsOwned ==
    \A c \in Clients :
        /\ "child" \in conn[c].open => task[c].at # "none"
        /\ "main" \in conn[c].open =>
              \/ main.fd = c
              \/ sys.design \in {"threaded", "pool"} /\ task[c].at # "none"
              \/ c \in ToSet(pool.queue)
              \/ sys.design = "epoll" /\ (Arrived(c) => c \in ev.edge \cup ev.batch)
              \/ sys.design = "recv"
              \/ sys.design = "threaded" /\ sys.tasks < Cardinality(Clients)

(* byte_cnt, once nobody is about to change it, is the number of bytes that *)
(* have come in whole lines, whichever threads counted them at a time, as   *)
(* far as an int can say it.                                                *)
CountExact ==
    sys.design = "pool" /\ main.at # "exited" /\ pool.mutex = None =>
        LET uncounted(c) == Len(conn[c].unsent \o conn[c].in \o task[c].rio.buf \o task[c].rio.user)
                            + (IF task[c].at = "P" THEN Len(task[c].todo) ELSE 0) IN
        (\E c \in Clients : conn[c].gone)
        \/ pool.byte_cnt = AsInt(SumFunction([c \in Clients |-> Len(msg[c]) - uncounted(c)]))

(* Whom each server has to serve, given what it depends on.  One that       *)
(* stalls holds up everybody in echoserveri.c, and one thread in            *)
(* echoservert_pre.c; a reset ends the servers that run in one process,     *)
(* echoservere.c if it comes between epoll_wait and the second send.        *)
(* hw-sockets/server.c, which closes nothing, finishes with nobody.         *)
Depends(c) ==
    LET others == {kind[d] : d \in Clients \ {c}}
        n == Cardinality(Clients) IN
    \/ sys.design = "iterative" /\ others \subseteq {"ok", "early", "absent"}
    \/ sys.design = "forking" /\ sys.tasks >= n
    \/ sys.design = "threaded" /\ "resets" \notin others /\ sys.tasks >= n /\ sys.fds > n
    \/ sys.design = "pool" /\ "resets" \notin others /\ sys.tasks >= n /\ sys.fds > n
    \/ sys.design = "epoll" /\ "resets" \notin others /\ sys.fds > n /\ sys.window >= Len(msg[c])

(* A client that connects, sends, shuts down and reads ends up with all of  *)
(* its message and the end of the connection, whatever the others do.       *)
Served ==
    <>[](\A c \in Clients :
            kind[c] = "ok" /\ Depends(c) /\ conn[c].up => conn[c].got = msg[c] /\ Finished(c))

(* However many children have ended behind one SIGCHLD, each is reaped.     *)
Reaped == <>[](kids.zombies = {})
=============================================================================
