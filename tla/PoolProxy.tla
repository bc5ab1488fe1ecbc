----------------------------- MODULE PoolProxy -----------------------------
(***************************************************************************)
(* The thread-pool HTTP proxy of lab-proxy-threadpool/proxy.c: the main    *)
(* thread accepts connections and passes their descriptors through the     *)
(* shared buffer (BoundedFifo, which Sbuf implements) to worker threads,   *)
(* each of which reads a request, opens a connection to the server the     *)
(* request names, forwards the request and returns the answer.             *)
(*                                                                         *)
(* The process's descriptor table is part of the state, because the code   *)
(* uses descriptor numbers after they are closed and the kernel gives out  *)
(* the lowest free number again.  So is each worker's stack buffer, which  *)
(* handle_client never clears: what an earlier request left there is       *)
(* searched for the end of the headers together with what has just been    *)
(* received.  A request is sent in two parts, the second ends with the     *)
(* blank line, and a part is identified by the client that sent it.        *)
(***************************************************************************)
EXTENDS Integers, Sequences, FiniteSets

CONSTANTS
    Clients,
    Workers,        \* the NUM_THREADS detached threads
    Main,           \* the main thread
    SbufSize,       \* SBUFSIZE
    MaxFd,          \* descriptors 1 .. MaxFd can be open beside the listening one
    Addresses,      \* how many addresses getaddrinfo returns for a host
    Mixes,          \* which assignments of kinds to the clients a run considers
    Free, None, Junk

Kinds ==
    {"ok",          \* sends its request at once to a server that answers
     "slow",        \* sends its request in two parts
     "quits",       \* shuts its connection down after the first part, or none
     "malformed",   \* sends headers that parse_req rejects
     "noscheme",    \* sends headers without //
     "nohost",      \* names a host that getaddrinfo cannot resolve
     "refused",     \* names a server that refuses the connection
     "hangs",       \* names a server that accepts and never answers
     "absent"}      \* never connects

ASSUME PoolAssumption ==
    /\ SbufSize \in Nat \ {0} /\ MaxFd \in Nat \ {0} /\ Addresses \in Nat \ {0}
    /\ Mixes \subseteq [Clients -> Kinds]
    /\ Main \notin Workers /\ Clients \cap Workers = {}
    /\ {Free, None, Junk} \cap (Clients \cup Workers) = {} /\ None # Junk
    /\ IsFiniteSet(Clients)

Fds == 1 .. MaxFd
BadFd == -1
Cells == Clients \cup {None, Junk}
Requests == Cells \X Cells      \* what the two parts of a buffer hold
Answers == Requests \cup {Junk}

VARIABLES
    \* clients and servers
    kind,           \* kind[c]: how client c behaves
    sent,           \* sent[c]: parts that c has sent (0 .. 2)
    eof,            \* eof[c]: c has shut down its sending side
    conn,           \* conn[c]: "none", "pending", "open" or "closed"
    backlog,        \* connections waiting to be accepted, oldest first
    recvd,          \* recvd[c]: parts of c's that the proxy has read
    reply,          \* reply[c]: what has been written to c's connection
    asked,          \* asked[w]: requests written to the connection w opened
    answer,         \* answer[w]: "no", "sent", "reset" or "end"
    \* the proxy
    running,        \* the process has not called exit
    file,           \* file[f]: the client or the worker's connection open as f
    thread,         \* thread[w]: worker w's place in the code and its locals
    queue, phase, val                   \* the shared buffer

clients == <<kind, sent, eof>>
network == <<recvd, reply, asked, answer>>
fifo == <<queue, phase, val>>
vars == <<clients, conn, backlog, network, running, file, thread, fifo>>

Q == INSTANCE BoundedFifo WITH
       Producers <- {Main}, Consumers <- Workers, N <- SbufSize,
       Items <- Fds \cup {BadFd}, Zero <- 0

Locals ==
    [pc : {"sbuf", "recv", "parse", "resolve", "socket", "connect",
           "write", "read", "reply", "close", "closesock", "spin"},
     new_sfd : Fds \cup {BadFd, 0},     \* the client's descriptor
     buf : Requests,                    \* what the stack buffer holds
     nread : 0 .. 2,                    \* nread of the first loop, in parts
     rp : 0 .. Addresses,               \* addresses tried
     socket_sfd : Fds \cup {BadFd, 0},  \* the server's descriptor
     new_buf : Seq(Answers),            \* what has been read from socket_sfd
     short : 0 .. 1]                    \* what -1 results took from nread

TypeOK ==
    /\ kind \in [Clients -> Kinds]
    /\ sent \in [Clients -> 0 .. 2] /\ recvd \in [Clients -> 0 .. 2]
    /\ eof \in [Clients -> BOOLEAN]
    /\ conn \in [Clients -> {"none", "pending", "open", "closed"}]
    /\ backlog \in Seq(Clients)
    /\ reply \in [Clients -> Seq([body : Seq(Answers), extra : 0 .. 1])]
    /\ asked \in [Workers -> Seq(Answers)]
    /\ answer \in [Workers -> {"no", "sent", "reset", "end"}]
    /\ running \in BOOLEAN
    /\ file \in [Fds -> Clients \cup Workers \cup {Free}]
    /\ thread \in [Workers -> Locals]
    /\ Q!FifoTypeOK

(* The listening socket is open and the workers have been created; a new    *)
(* thread's stack is zero.                                                  *)
Init ==
    /\ kind \in Mixes
    /\ sent = [c \in Clients |-> 0] /\ recvd = [c \in Clients |-> 0]
    /\ eof = [c \in Clients |-> FALSE]
    /\ conn = [c \in Clients |-> "none"] /\ backlog = <<>>
    /\ reply = [c \in Clients |-> <<>>]
    /\ asked = [w \in Workers |-> <<>>] /\ answer = [w \in Workers |-> "no"]
    /\ running = TRUE
    /\ file = [f \in Fds |-> Free]
    /\ thread = [w \in Workers |->
                   [pc |-> "sbuf", new_sfd |-> 0, buf |-> <<None, None>>, nread |-> 0,
                    rp |-> 0, socket_sfd |-> 0, new_buf |-> <<>>, short |-> 0]]
    /\ Q!Init

-----------------------------------------------------------------------------
(* Clients and servers.                                                     *)

ClientConnect(c) ==
    /\ conn[c] = "none" /\ kind[c] # "absent"
    /\ conn' = [conn EXCEPT ![c] = "pending"]
    /\ backlog' = Append(backlog, c)
    /\ UNCHANGED <<clients, network, running, file, thread, fifo>>

(* slow-client.py makes two calls to send(); other clients make one, and    *)
(* one that gives up sends at most the first part.                          *)
ClientSend(c) ==
    /\ conn[c] \in {"pending", "open"} /\ ~eof[c]
    /\ sent[c] < (IF kind[c] = "quits" THEN 1 ELSE 2)
    /\ sent' = [sent EXCEPT ![c] = IF kind[c] \in {"slow", "quits"} THEN @ + 1 ELSE 2]
    /\ UNCHANGED <<kind, eof, conn, backlog, network, running, file, thread, fifo>>

ClientQuit(c) ==
    /\ kind[c] = "quits" /\ conn[c] \in {"pending", "open"} /\ ~eof[c]
    /\ eof' = [eof EXCEPT ![c] = TRUE]
    /\ UNCHANGED <<kind, sent, conn, backlog, network, running, file, thread, fifo>>

(* The server that w's request names answers the first request it is sent.  *)
ServerAnswer(w) ==
    /\ asked[w] # <<>> /\ answer[w] = "no"
    /\ kind[thread[w].buf[1]] # "hangs"
    /\ answer' = [answer EXCEPT ![w] = "sent"]
    /\ UNCHANGED <<clients, conn, backlog, recvd, reply, asked, running, file, thread, fifo>>

-----------------------------------------------------------------------------
(* The descriptor table.                                                    *)

FreeFds == {f \in Fds : file[f] = Free}
Lowest(S) == CHOOSE f \in S : \A g \in S : f <= g

(* What descriptor f refers to: a client, a worker's connection, or Free.    *)
FileOf(f) == IF f \in Fds THEN file[f] ELSE Free

(* close(f): closing a number that is not open is an error nobody checks.    *)
CloseFd(f) ==
    /\ file' = [g \in Fds |-> IF g = f THEN Free ELSE file[g]]
    /\ conn' = [c \in Clients |-> IF FileOf(f) = c THEN "closed" ELSE conn[c]]

-----------------------------------------------------------------------------
(* main: accept, then sbuf_insert.  accept takes a free descriptor before   *)
(* it looks at the backlog, and its failure is passed on like a descriptor. *)
MainAccept ==
    \/ /\ FreeFds # {} /\ backlog # <<>>
       /\ file' = [file EXCEPT ![Lowest(FreeFds)] = Head(backlog)]
       /\ conn' = [conn EXCEPT ![Head(backlog)] = "open"]
       /\ backlog' = Tail(backlog)
       /\ Q!BeginInsert(Main, Lowest(FreeFds))
       /\ UNCHANGED <<clients, network, running, thread>>
    \/ /\ FreeFds = {}
       /\ Q!BeginInsert(Main, BadFd)
       /\ UNCHANGED <<clients, conn, backlog, network, running, file, thread>>

MainInsert ==
    /\ Q!Insert(Main) \/ Q!Return(Main)
    /\ UNCHANGED <<clients, conn, backlog, network, running, file, thread>>

-----------------------------------------------------------------------------
(* Worker w is at statement "from"; its locals become "new".                *)
At(w, from) == thread[w].pc = from
Become(w, new) == thread' = [thread EXCEPT ![w] = new]
Goto(w, to) == Become(w, [thread[w] EXCEPT !.pc = to])

(* detach_thread: a worker takes a descriptor from the buffer ...           *)
Take(w) ==
    /\ At(w, "sbuf")
    /\ Q!BeginRemove(w) \/ Q!Remove(w)
    /\ UNCHANGED <<clients, conn, backlog, network, running, file, thread>>

Handle_StaticLocal(w) ==
    /\ At(w, "sbuf") /\ Q!Return(w)
    /\ thread' = [x \in Workers |-> [thread[x] EXCEPT !.new_sfd = val[w],
                                                     !.pc = IF x = w THEN "recv" ELSE @]]
    /\ UNCHANGED <<clients, conn, backlog, network, running, file>>
(* ... and calls handle_client(new_sfd).                                    *)
Handle(w) ==
    /\ At(w, "sbuf") /\ Q!Return(w)
    /\ Become(w, [thread[w] EXCEPT !.pc = "recv", !.new_sfd = val[w]])
    /\ UNCHANGED <<clients, conn, backlog, network, running, file>>

(* all_headers_received: strstr for the blank line, which ends the second   *)
(* part of a request and also the headers of a server's answer.             *)
Complete(b) == b[1] = Junk \/ (b[1] # None /\ b[2] # None)

(* recv writes k parts that come from x at &buf[nread].  If the buffer then *)
(* has a blank line, be it an old one, the loop ends.                       *)
RecvGot(w, k, x) ==
    LET n == thread[w].nread
        new == [i \in 1 .. 2 |-> IF i \in n+1 .. n+k THEN x ELSE thread[w].buf[i]]
    IN  Become(w, [thread[w] EXCEPT !.buf = new,
                                    !.nread = IF n + k > 2 THEN 2 ELSE n + k,
                                    !.pc = IF Complete(new) THEN "parse" ELSE "recv"])

(* recv returned 0 or -1: the loop does not notice, and looks again at what *)
(* the buffer already holds.  If that has no blank line the loop spins.     *)
RecvNothing(w) == Goto(w, IF Complete(thread[w].buf) THEN "parse" ELSE "spin")

Recv(w) ==
    LET x == FileOf(thread[w].new_sfd) IN
    /\ At(w, "recv")
    /\ \/ /\ x \in Clients /\ sent[x] > recvd[x]
          /\ RecvGot(w, sent[x] - recvd[x], x)
          /\ recvd' = [recvd EXCEPT ![x] = sent[x]]
          /\ UNCHANGED answer
       \/ /\ x \in Workers /\ answer[x] = "sent"
          /\ RecvGot(w, 1, Junk)
          /\ answer' = [answer EXCEPT ![x] = "end"]
          /\ UNCHANGED recvd
       \/ /\ \/ x = Free
             \/ x \in Clients /\ sent[x] = recvd[x] /\ eof[x]
             \/ x \in Workers /\ answer[x] \in {"reset", "end"}
          /\ RecvNothing(w)
          /\ UNCHANGED <<recvd, answer>>
    /\ UNCHANGED <<clients, conn, backlog, reply, asked, running, file, fifo>>

(* parse_req: what the request in w's buffer asks for.  Without // the code *)
(* takes the length of NULL.  What has come from elsewhere may have one or  *)
(* not, and none that can be resolved.                                      *)
Host(w) == kind[thread[w].buf[1]]
Rejected(w) == thread[w].buf[1] = Junk \/ Host(w) = "malformed"
Crashes(w) == thread[w].buf[1] = Junk \/ Host(w) = "noscheme"

(* handle_client returns: what the next call sets anew is forgotten.        *)
Returned(l) == [l EXCEPT !.pc = "sbuf", !.new_sfd = 0, !.nread = 0, !.rp = 0, !.socket_sfd = 0,
                         !.new_buf = <<>>, !.short = 0]

Segfault(w) == Crashes(w) /\ running' = FALSE /\ UNCHANGED <<file, conn, thread>>
Accepts(w) ==
    ~Rejected(w) /\ ~Crashes(w) /\ Goto(w, "resolve") /\ UNCHANGED <<file, conn, running>>

Parse_NoClose(w) ==
    /\ At(w, "parse")
    /\ \/ Rejected(w) /\ Become(w, Returned(thread[w])) /\ UNCHANGED <<file, conn, running>>
       \/ Segfault(w) \/ Accepts(w)
    /\ UNCHANGED <<clients, backlog, network, fifo>>
(* A request that is rejected ends the call, with only new_sfd closed.      *)
Parse(w) ==
    /\ At(w, "parse")
    /\ \/ /\ Rejected(w)
          /\ CloseFd(thread[w].new_sfd) /\ Become(w, Returned(thread[w]))
          /\ UNCHANGED running
       \/ Segfault(w) \/ Accepts(w)
    /\ UNCHANGED <<clients, backlog, network, fifo>>

(* getaddrinfo: its failure ends the whole process.                         *)
Resolve(w) ==
    /\ At(w, "resolve")
    /\ running' = (Host(w) # "nohost")
    /\ IF running' THEN Goto(w, "socket") ELSE UNCHANGED thread
    /\ UNCHANGED <<clients, conn, backlog, network, file, fifo>>

(* The loop over the addresses: socket, connect, close.                     *)
Socket(w) ==
    /\ At(w, "socket") /\ thread[w].rp < Addresses
    /\ IF FreeFds # {}
       THEN /\ file' = [file EXCEPT ![Lowest(FreeFds)] = w]
            /\ Become(w, [thread[w] EXCEPT !.pc = "connect", !.socket_sfd = Lowest(FreeFds)])
            /\ asked' = [asked EXCEPT ![w] = <<>>]
            /\ answer' = [answer EXCEPT ![w] = "no"]
       ELSE /\ Become(w, [thread[w] EXCEPT !.socket_sfd = BadFd, !.rp = @ + 1])
            /\ UNCHANGED <<file, asked, answer>>
    /\ UNCHANGED <<clients, conn, backlog, recvd, reply, running, fifo>>

(* connect, and close followed by rp = rp->ai_next if it fails.             *)
ConnectOr(w, tried) ==
    /\ At(w, "connect")
    /\ IF Host(w) # "refused" /\ FileOf(thread[w].socket_sfd) = w
       THEN Goto(w, "write") /\ UNCHANGED <<file, conn>>
       ELSE /\ CloseFd(thread[w].socket_sfd)
            /\ Become(w, [thread[w] EXCEPT !.pc = "socket", !.rp = tried])
    /\ UNCHANGED <<clients, backlog, network, fifo>>

Connect_CountsTwice(w) == ConnectOr(w, thread[w].rp + 2) /\ UNCHANGED running
Connect(w) == ConnectOr(w, thread[w].rp + 1) /\ UNCHANGED running

(* No address is left: the code goes on with the number it closed last.     *)
NoAddress(w) ==
    /\ At(w, "socket") /\ thread[w].rp = Addresses
    /\ Goto(w, "write")
    /\ UNCHANGED <<clients, conn, backlog, network, running, file, fifo>>

(* write(f, x): to a client, to a worker's server, or nowhere.              *)
WriteTo(f, x, extra) ==
    /\ reply' = [c \in Clients |->
                   IF FileOf(f) = c THEN Append(reply[c], [body |-> x, extra |-> extra])
                   ELSE reply[c]]
    /\ asked' = [w \in Workers |-> IF FileOf(f) = w THEN asked[w] \o x ELSE asked[w]]

WriteRequest(w) ==
    /\ At(w, "write")
    /\ WriteTo(thread[w].socket_sfd, <<thread[w].buf>>, 0)
    /\ Goto(w, "read")
    /\ UNCHANGED <<clients, conn, backlog, recvd, answer, running, file, fifo>>

(* The loop over recv, left only on 0.  A server that closes with unread    *)
(* input resets the connection: one -1 follows its answer, and then 0.  On  *)
(* a number that is not open -1 follows -1 for ever; the worker is lost.    *)
ReadResponse(w) ==
    LET x == FileOf(thread[w].socket_sfd)
        Got(answers) == Become(w, [thread[w] EXCEPT !.new_buf = Append(@, answers)])
    IN
    /\ At(w, "read")
    /\ \/ /\ x \in Workers /\ answer[x] = "sent"
          /\ \E after \in {"reset", "end"} : answer' = [answer EXCEPT ![x] = after]
          /\ Got(Head(asked[x]))
          /\ UNCHANGED recvd
       \/ /\ x \in Workers /\ answer[x] = "reset"
          /\ answer' = [answer EXCEPT ![x] = "end"]
          /\ Become(w, [thread[w] EXCEPT !.short = 1])
          /\ UNCHANGED recvd
       \/ /\ x \in Clients /\ sent[x] > recvd[x]
          /\ recvd' = [recvd EXCEPT ![x] = sent[x]]
          /\ Got(Junk)
          /\ UNCHANGED answer
       \/ /\ \/ x \in Workers /\ answer[x] = "end"
             \/ x \in Clients /\ sent[x] = recvd[x] /\ eof[x]
          /\ Goto(w, "reply")
          /\ UNCHANGED <<recvd, answer>>
       \/ /\ x = Free
          /\ Goto(w, "spin")
          /\ UNCHANGED <<recvd, answer>>
    /\ UNCHANGED <<clients, conn, backlog, reply, asked, running, file, fifo>>

(* write(new_sfd, new_buf, nread + 1): nread has lost one for each -1.      *)
ReplyOn(w, f) ==
    /\ At(w, "reply")
    /\ WriteTo(f, thread[w].new_buf, 1 - thread[w].short)
    /\ Goto(w, "close")
    /\ UNCHANGED <<clients, conn, backlog, recvd, answer, running, file, fifo>>

Reply_ToServer(w) == ReplyOn(w, thread[w].socket_sfd)
Reply(w) == ReplyOn(w, thread[w].new_sfd)

Close_Forgotten(w) ==
    /\ At(w, "close")
    /\ Goto(w, "closesock")
    /\ UNCHANGED <<clients, conn, backlog, network, running, file, fifo>>
Close(w) ==
    /\ At(w, "close")
    /\ CloseFd(thread[w].new_sfd)
    /\ Goto(w, "closesock")
    /\ UNCHANGED <<clients, backlog, network, running, fifo>>

(* The last close, of descriptor f, after which the locals are "new".        *)
CloseLast(w, f, new) ==
    /\ At(w, "closesock")
    /\ CloseFd(f)
    /\ Become(w, new)
    /\ UNCHANGED <<clients, backlog, network, running, fifo>>

CloseSock_KeepsCount(w) ==
    CloseLast(w, thread[w].socket_sfd, [Returned(thread[w]) EXCEPT !.nread = thread[w].nread])
CloseSock_ClosesClientAgain(w) == CloseLast(w, thread[w].new_sfd, Returned(thread[w]))
CloseSock(w) == CloseLast(w, thread[w].socket_sfd, Returned(thread[w]))

-----------------------------------------------------------------------------
MainStep == running /\ (MainAccept \/ MainInsert)

WorkerStep(w) ==
    /\ running
    /\ \/ Take(w) \/ Handle(w) \/ Recv(w) \/ Parse(w) \/ Resolve(w)
       \/ Socket(w) \/ Connect(w) \/ NoAddress(w) \/ WriteRequest(w)
       \/ ReadResponse(w) \/ Reply(w) \/ Close(w) \/ CloseSock(w)

Next ==
    \/ \E c \in Clients : running /\ (ClientConnect(c) \/ ClientSend(c) \/ ClientQuit(c))
    \/ \E w \in Workers : running /\ ServerAnswer(w)
    \/ MainStep
    \/ \E w \in Workers : WorkerStep(w)

Spec == Init /\ [][Next]_vars

(* The threads are scheduled, a client that has connected sends what it has *)
(* to send, and a server that answers at all does so (there are finitely    *)
(* many sends and answers, so that one of them always comes next is enough).*)
(* No client has to connect.                                                *)
FairSpec ==
    /\ Spec
    /\ WF_vars(MainStep)
    /\ \A w \in Workers : WF_vars(WorkerStep(w))
    /\ WF_vars(running /\ \E w \in Workers : ServerAnswer(w))
    /\ WF_vars(running /\ \E c \in Clients : ClientSend(c))

-----------------------------------------------------------------------------
Whole(c) == kind[c] \notin {"slow", "quits"}

(* Servers that refuse connections are the subject of a run of their own.   *)
NoneRefused == \A c \in Clients : kind[c] # "refused"

(* A client that sends its request at once is sent the server's answer to   *)
(* that request, at most once, and nothing else (driver.py:571: what comes  *)
(* through the proxy is compared with what comes directly from the server). *)
Isolation ==
    \A c \in Clients : Whole(c) =>
        reply[c] = <<>> \/ (Len(reply[c]) = 1 /\ reply[c][1].body = << <<c, c>> >>)

(* The isolation of the answers when no connection is refused.              *)
AnswersIsolated == NoneRefused => Isolation

(* What is parsed and forwarded for a client of S is its request, all of it. *)
ReadEntirely(S) ==
    \A w \in Workers :
        LET c == FileOf(thread[w].new_sfd) IN
        thread[w].pc \in {"parse", "resolve", "socket", "connect", "write"} /\ c \in S
            => thread[w].buf = <<c, c>>

(* It is so for the clients that send their request at once, whatever an    *)
(* earlier or a slower client left in the worker's buffer.  For slow ones   *)
(* it is not: buf is never cleared, and "Read from the socket into a buffer *)
(* until the entire HTTP req has been received" (proxy.c:339) takes the end *)
(* of an earlier request for theirs.                                        *)
WholeRequestsRead == NoneRefused => ReadEntirely({c \in Clients : Whole(c)})

(* Who holds descriptor f: main or the buffer, a worker as its client's, a  *)
(* worker as its server's.                                                  *)
InBuffer(f) == (phase[Main] = "called" /\ val[Main] = f)
               \/ (\E i \in DOMAIN queue : queue[i] = f)
               \/ (\E w \in Workers : phase[w] = "done" /\ val[w] = f)
AsClient(f) ==
    {w \in Workers : thread[w].new_sfd = f /\ thread[w].pc \notin {"sbuf", "closesock"}}
AsServer(f) ==
    {w \in Workers : /\ thread[w].socket_sfd = f
                     /\ thread[w].pc \in {"connect", "write", "read", "reply", "close", "closesock"}}

(* Every open descriptor has exactly one holder, which will close it, and   *)
(* every descriptor held is open: none leaks, none is closed twice and none *)
(* is used for another connection than the one it was made for.            *)
DescriptorsOwned ==
    NoneRefused => \A f \in Fds :
        /\ (InBuffer(f) => file[f] \in Clients /\ AsClient(f) = {})
        /\ (AsClient(f) # {} => file[f] \in Clients)
        /\ (file[f] \in Clients => InBuffer(f) \/ Cardinality(AsClient(f)) = 1)
        /\ (file[f] \in Workers => AsServer(f) = {file[f]})
        /\ (AsServer(f) # {} => file[f] \in Workers)

(* Each client that gives up costs at most one worker of the pool; others   *)
(* are lost only to an accept or a socket that failed.                      *)
LostWorkers ==
    NoneRefused =>
      Cardinality({w \in Workers : /\ thread[w].pc = "spin"
                                   /\ BadFd \notin {thread[w].new_sfd, thread[w].socket_sfd}})
      <= Cardinality({c \in Clients : kind[c] = "quits" /\ eof[c]})

(* While fewer clients than there are workers give up or wait for a server  *)
(* that never answers, every other client that connects is served (driver:  *)
(* "while it is busy with another request").                                *)
Answered ==
    \A c \in Clients : kind[c] = "ok" /\ conn[c] = "pending" ~> reply[c] # <<>>
Disposed ==
    \A c \in Clients :
        kind[c] \in {"ok", "slow", "malformed"} /\ conn[c] = "pending" ~> conn[c] = "closed"

=============================================================================
