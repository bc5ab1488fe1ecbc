----------------------------- MODULE EpollProxy ----------------------------
(***************************************************************************)
(* The event-driven HTTP proxy of lab-proxy-iomultiplex/proxy.c: a single  *)
(* thread waits on an epoll instance for edge-triggered events and drives  *)
(* each request, a struct request_info on the heap, through the states     *)
(* READ_REQUEST, SEND_REQUEST, READ_RESPONSE and SEND_RESPONSE.            *)
(*                                                                         *)
(* An event carries a pointer to its request, several events are fetched   *)
(* at once and handled one after the other, and the code frees requests,   *)
(* closes descriptors and never initialises what malloc returns.  So the   *)
(* heap and the descriptor table are part of the state: what becomes of a  *)
(* freed block, and what a new block contains, is a choice among what the  *)
(* allocator can do.  A request is sent in two parts, "head" and "end",    *)
(* the second of which has the blank line; so has the "answer" of a        *)
(* server, whose second part is the "rest".                                *)
(***************************************************************************)
EXTENDS Integers, Sequences, FiniteSets, SequencesExt

CONSTANTS
    Clients,
    MaxFd,          \* descriptors 0 .. MaxFd exist; 0 is standard input
    Blocks,         \* the addresses malloc returns
    Systems,        \* the systems a run considers: see SystemType
    Mixes,          \* which assignments of kinds to the clients a run considers
    Listener,       \* the request_info of the listening socket
    None

Kinds ==
    {"ok",          \* sends its request at once to a server that answers
     "slow",        \* sends its request in two parts, as do "quits" and "resets"
     "big",         \* is sent an answer that a write may take only in part
     "quits",       \* shuts down its sending side before its request is complete
     "resets",      \* resets its connection, at any time
     "malformed",   \* sends headers that parse_request rejects
     "nohost",      \* names a host that getaddrinfo cannot resolve
     "refused",     \* names a server that refuses the connection
     "hangs",       \* names a server that accepts and never answers
     "serverresets"}    \* names a server that resets the connection, at any time

(* What the program runs on: what free may do with a block (see Release),   *)
(* and the largest descriptor that the limit on open files allows.          *)
SystemType ==
    [frees : (SUBSET {"unmapped", "merged", "linked"}) \ {{}}, limit : 1 .. MaxFd]

ASSUME EpollAssumption ==
    /\ MaxFd \in Nat \ {0} /\ IsFiniteSet(Clients)
    /\ Systems \subseteq SystemType
    /\ Mixes \subseteq [Clients -> Kinds]
    /\ {Listener, None} \cap (Clients \cup Blocks) = {}

Fds == 0 .. MaxFd
Cells == (Clients \X {"head", "end", "answer", "rest", "request"}) \cup {None}

VARIABLES
    \* clients
    kind, sent, recvd,  \* as in PoolProxy
    eof, rst,           \* clients that have shut down, or reset, their connection
    conn,               \* conn[c]: "none", "pending", "open" or "closed"
    backlog,            \* connections waiting to be accepted, oldest first
    reply,              \* reply[c]: what has been written to c's connection
    \* the kernel
    system,             \* the system the program runs on
    file,               \* file[f]: what descriptor f is open on
    reg,                \* reg[f]: data.ptr of f in epoll_reading_fd, or None
    wreg,               \* descriptors in epoll_write_fd, on which nobody waits
    ready,              \* descriptors with an edge that has not been fetched
    lready,             \* the same of the listening socket
    \* the process
    mem, heap,          \* contents and status of each block
    pc,                 \* what the process does next
    active,             \* active_request, or the request of handle_client
    batch,              \* events fetched and not yet looked at
    sig_flag            \* SIGINT has been caught

given == <<kind, system>>            \* never changes
peers == <<given, sent, recvd, eof, rst, conn, backlog, reply>>
kernel == <<file, reg, wreg, ready, lready>>
process == <<mem, heap, pc, active, batch, sig_flag>>
vars == <<peers, kernel, process>>

Alive == pc \notin {"hung", "crashed", "exited", "stopped"}

BadFd == -1
Wild == 5           \* a value of current_state that is none of the five

(* struct request_info, with buffers as long as what was written to them.   *)
Zeroed == [client_fd |-> 0, server_fd |-> 0, current_state |-> 0,
           read_buffer |-> <<>>, write_buffer |-> <<>>, total_write_amount |-> 0,
           written_bytes_server |-> 0, read_bytes_server |-> 0,
           read_bytes_client |-> 0, written_bytes_client |-> 0]

Closed == [type |-> "free", of |-> None, st |-> "none", got |-> FALSE]

Steps == <<"read_request", "send_request", "read_response", "send_response">>

TypeOK ==
    /\ kind \in [Clients -> Kinds]
    /\ sent \in [Clients -> 0 .. 2] /\ recvd \in [Clients -> 0 .. 2]
    /\ eof \subseteq Clients /\ rst \subseteq Clients
    /\ conn \in [Clients -> {"none", "pending", "open", "closed"}]
    /\ backlog \in Seq(Clients)
    /\ reply \in [Clients -> Seq(Cells)]
    /\ system \in Systems
    /\ file \in [Fds -> [type : {"free", "stdin", "client", "server"}, of : Clients \cup {None},
                         st : {"none", "new", "asked", "answered", "closed", "reset"},
                         got : BOOLEAN]]
    /\ reg \in [Fds -> Blocks \cup {None}] /\ wreg \subseteq Fds
    /\ ready \subseteq Fds /\ lready \in BOOLEAN
    /\ \A b \in Blocks :
         /\ {mem[b].client_fd, mem[b].server_fd} \subseteq Fds \cup {BadFd}
         /\ mem[b].current_state \in 0 .. Wild
         /\ {mem[b].read_bytes_client, mem[b].read_bytes_server, mem[b].total_write_amount,
              mem[b].written_bytes_client, mem[b].written_bytes_server} \subseteq Nat
         /\ mem[b].read_buffer \in Seq(Cells) /\ mem[b].write_buffer \in Seq(Cells)
    /\ heap \in [Blocks -> {"unused", "live", "unmapped", "merged", "linked"}]
    /\ pc \in {"event", "accept", "open", "hung", "crashed", "exited", "stopped"} \cup Range(Steps)
    /\ active \in Blocks \cup {None} /\ sig_flag \in BOOLEAN
    /\ batch \subseteq [ptr : Blocks \cup {Listener}, fd : Fds \cup {None}, hup : BOOLEAN]

Init ==
    /\ kind \in Mixes /\ system \in Systems
    /\ sent = [c \in Clients |-> 0] /\ recvd = [c \in Clients |-> 0]
    /\ eof = {} /\ rst = {}
    /\ conn = [c \in Clients |-> "none"] /\ backlog = <<>>
    /\ reply = [c \in Clients |-> <<>>]
    /\ file = [f \in Fds |-> IF f = 0 THEN [Closed EXCEPT !.type = "stdin"] ELSE Closed]
    /\ reg = [f \in Fds |-> None] /\ wreg = {} /\ ready = {} /\ lready = FALSE
    /\ mem = [b \in Blocks |-> Zeroed] /\ heap = [b \in Blocks |-> "unused"]
    /\ pc = "event" /\ active = None /\ batch = {} /\ sig_flag = FALSE

-----------------------------------------------------------------------------
(* Clients and servers.  What they do wakes the epoll instance if their     *)
(* connection is registered with it: an edge.                               *)
Wake(F) == ready' = ready \cup {f \in F : reg[f] # None}
FdsOf(c) == {f \in Fds : file[f].type = "client" /\ file[f].of = c}

ClientConnect(c) ==
    /\ conn[c] = "none"
    /\ conn' = [conn EXCEPT ![c] = "pending"]
    /\ backlog' = Append(backlog, c)
    /\ lready' = TRUE
    /\ UNCHANGED <<given, sent, recvd, eof, rst, reply, file, reg, wreg, ready, process>>

ClientSend(c) ==
    /\ conn[c] \in {"pending", "open"} /\ c \notin eof \cup rst
    /\ sent[c] < (IF kind[c] = "quits" THEN 1 ELSE 2)
    /\ sent' = [sent EXCEPT ![c] = IF kind[c] \in {"slow", "quits", "resets"} THEN @ + 1 ELSE 2]
    /\ Wake(FdsOf(c))
    /\ UNCHANGED <<given, recvd, eof, rst, conn, backlog, reply,
                   file, reg, wreg, lready, process>>

ClientLeave(c) ==
    /\ conn[c] \in {"pending", "open"} /\ c \notin eof \cup rst
    /\ \/ kind[c] = "quits" /\ eof' = eof \cup {c} /\ UNCHANGED rst
       \/ kind[c] = "resets" /\ rst' = rst \cup {c} /\ UNCHANGED eof
    /\ Wake(FdsOf(c))
    /\ UNCHANGED <<given, sent, recvd, conn, backlog, reply,
                   file, reg, wreg, lready, process>>

(* A server answers, closes once it has answered, or resets the connection. *)
ServerStep(f) ==
    LET k == kind[file[f].of] IN
    /\ file[f].type = "server"
    /\ \/ /\ file[f].st = "asked" /\ k # "hangs"
          /\ file' = [file EXCEPT ![f].st = "answered"]
       \/ /\ file[f].st = "answered"
          /\ file' = [file EXCEPT ![f].st = "closed"]
       \/ /\ file[f].st # "reset" /\ k = "serverresets"
          /\ file' = [file EXCEPT ![f].st = "reset"]
    /\ Wake({f})
    /\ UNCHANGED <<peers, reg, wreg, lready, process>>

-----------------------------------------------------------------------------
(* Descriptors.                                                             *)
FreeFds == {f \in 0 .. system.limit : file[f].type = "free"}
Lowest(S) == CHOOSE f \in S : \A g \in S : f <= g
FileOf(f) == IF f \in Fds THEN file[f] ELSE Closed

(* What recv(f) finds: the cells that can be read, whether the other side   *)
(* has closed, and whether recv fails.                                      *)
Input(f) ==
    LET o == FileOf(f) IN
    CASE o.type = "client" ->
           [cells |-> [i \in 1 .. sent[o.of] - recvd[o.of] |->
                         <<o.of, IF recvd[o.of] + i = 1 THEN "head" ELSE "end">>],
            eof |-> o.of \in eof, error |-> o.of \in rst]
      [] o.type = "server" ->
           [cells |-> IF o.st \in {"answered", "closed"} /\ ~o.got
                      THEN << <<o.of, "answer">>, <<o.of, "rest">> >> ELSE <<>>,
            eof |-> o.st = "closed", error |-> o.st = "reset"]
      [] OTHER -> [cells |-> <<>>, eof |-> FALSE, error |-> TRUE]

Readable(f) == Input(f).cells # <<>> \/ Input(f).eof \/ Input(f).error

(* recv(f) has taken all there was to take.                                 *)
Taken(f) ==
    LET o == FileOf(f) IN
    /\ recvd' = IF o.type = "client" THEN [recvd EXCEPT ![o.of] = sent[o.of]] ELSE recvd
    /\ file' = IF o.type = "server" /\ o.st \in {"answered", "closed"}
               THEN [file EXCEPT ![f].got = TRUE] ELSE file

CloseFds_KeepsEdges(F) ==
    /\ file' = [f \in Fds |-> IF f \in F THEN Closed ELSE file[f]]
    /\ reg' = [f \in Fds |-> IF f \in F THEN None ELSE reg[f]]
    /\ wreg' = wreg \ F /\ UNCHANGED ready
    /\ conn' = [c \in Clients |-> IF FdsOf(c) \cap F # {} THEN "closed" ELSE conn[c]]
(* close() of the descriptors of F, which also leave the epoll instances.   *)
CloseFds(F) ==
    /\ file' = [f \in Fds |-> IF f \in F THEN Closed ELSE file[f]]
    /\ reg' = [f \in Fds |-> IF f \in F THEN None ELSE reg[f]]
    /\ wreg' = wreg \ F /\ ready' = ready \ F
    /\ conn' = [c \in Clients |-> IF FdsOf(c) \cap F # {} THEN "closed" ELSE conn[c]]

(* EPOLL_CTL_ADD fails for a descriptor that is closed or already there.    *)
CanAdd(f, registered) == FileOf(f).type # "free" /\ f \notin registered
Registered == {f \in Fds : reg[f] # None}

-----------------------------------------------------------------------------
(* The heap.  A block is about 2 MB: the first to be freed is returned to   *)
(* the kernel (unmapped), a later one merges with the top of the heap and   *)
(* keeps its contents, or is linked into a free list, whose pointers then   *)
(* cover the first three fields.  A read of an unmapped block is fatal, and *)
(* so is a second free.                                                     *)
Unmapped(b) == heap[b] = "unmapped"
Freed(b) == heap[b] # "live"

Release(b) ==
    \E how \in system.frees :
        /\ heap' = [heap EXCEPT ![b] = how]
        /\ mem' = IF how = "linked"
                  THEN [mem EXCEPT ![b].client_fd = BadFd, ![b].server_fd = BadFd,
                                   ![b].current_state = Wild]
                  ELSE mem

(* malloc returns a block that was never used, which is zero, or one that   *)
(* has been freed and not unmapped, with what it still holds.               *)
Mallocs == {b \in Blocks : heap[b] \in {"unused", "merged", "linked"}}

-----------------------------------------------------------------------------
(* main: epoll_wait fetches every edge that is still of interest, each with *)
(* the pointer it was registered with; then the events are looked at.       *)
Events ==
    {[ptr |-> reg[f], fd |-> f, hup |-> Input(f).error] : f \in {g \in ready : Readable(g)}}
    \cup (IF lready /\ backlog # <<>>
          THEN {[ptr |-> Listener, fd |-> None, hup |-> FALSE]} ELSE {})

Sleeping == pc = "event" /\ batch = {} /\ Events = {}

Wait ==
    /\ pc = "event" /\ batch = {} /\ Events # {}
    /\ batch' = Events
    /\ ready' = {} /\ lready' = FALSE
    /\ UNCHANGED <<peers, file, reg, wreg, mem, heap, pc, active, sig_flag>>

(* The handler of SIGINT sets sig_flag.  epoll_wait, if the process sleeps  *)
(* in it, returns EINTR, SA_RESTART or not, and that ends the loop.  One    *)
(* SIGINT is enough: a second could only come before the next timeout.      *)
Signal ==
    /\ Alive /\ ~sig_flag
    /\ sig_flag' = TRUE
    /\ \/ Sleeping /\ pc' = "stopped"
       \/ UNCHANGED pc
    /\ UNCHANGED <<peers, kernel, mem, heap, active, batch>>

Timeout_NoCheck == Sleeping /\ UNCHANGED vars
(* Nothing happens for a second: the only place where sig_flag is read.      *)
Timeout ==
    /\ Sleeping /\ sig_flag
    /\ pc' = "stopped"
    /\ UNCHANGED <<peers, kernel, mem, heap, active, batch, sig_flag>>

(* EPOLLERR or EPOLLHUP: close both descriptors and free the request.       *)
HangUp ==
    \E e \in batch :
        /\ pc = "event" /\ e.hup
        /\ batch' = batch \ {e}
        /\ IF Freed(e.ptr)
           THEN pc' = "crashed" /\ UNCHANGED <<peers, kernel, mem, heap>>
           ELSE /\ CloseFds({mem[e.ptr].client_fd, mem[e.ptr].server_fd})
                /\ Release(e.ptr)
                /\ UNCHANGED <<given, sent, recvd, eof, rst, backlog, reply, lready, pc>>
        /\ UNCHANGED <<active, sig_flag>>

-----------------------------------------------------------------------------
(* handle_new_clients: accept until there is no more.  accept wants a free  *)
(* descriptor before it looks, and any other failure ends the process.  Of  *)
(* the new request only client_fd is set.                                   *)
AcceptInto(S, next) ==
    /\ pc = "accept"
    /\ \/ /\ FreeFds = {}
          /\ pc' = "exited"
          /\ UNCHANGED <<peers, kernel, mem, heap>>
       \/ /\ FreeFds # {} /\ backlog = <<>>
          /\ pc' = "event"
          /\ UNCHANGED <<peers, kernel, mem, heap>>
       \/ \E b \in S :
            LET f == Lowest(FreeFds)
                c == Head(backlog)
            IN  /\ FreeFds # {} /\ backlog # <<>>
                /\ backlog' = Tail(backlog)
                /\ conn' = [conn EXCEPT ![c] = "open"]
                /\ file' = [file EXCEPT ![f] = [Closed EXCEPT !.type = "client", !.of = c]]
                /\ reg' = [reg EXCEPT ![f] = b]
                /\ ready' = ready \cup (IF sent[c] > 0 \/ c \in eof \cup rst THEN {f} ELSE {})
                /\ mem' = [mem EXCEPT ![b].client_fd = f]
                /\ heap' = [heap EXCEPT ![b] = "live"]
                /\ pc' = next
                /\ UNCHANGED <<given, sent, recvd, eof, rst, reply, wreg, lready>>
    /\ UNCHANGED <<active, batch, sig_flag>>

Accept_SharesRequest ==
    LET live == {b \in Blocks : heap[b] = "live"} IN
    AcceptInto(IF live = {} THEN Mallocs ELSE live, "accept")
Accept_Once == AcceptInto(Mallocs, "event")
Accept == AcceptInto(Mallocs, "accept")

-----------------------------------------------------------------------------
Continue_OnePerEvent(i, b) ==
    /\ pc' = IF i = 0 /\ mem'[b].current_state \in 0 .. 3 THEN Steps[mem'[b].current_state + 1]
             ELSE "event"
    /\ active' = IF pc' = "event" THEN None ELSE b
(* handle_client calls the function of each state the request is in, one    *)
(* after the other: after the first i of them it goes on with request b if  *)
(* current_state says so.  It looks at current_state even if the function   *)
(* before has freed the request.                                            *)
Continue(i, b) ==
    LET go == heap'[b] # "unmapped" /\ mem'[b].current_state \in i .. 3 IN
    /\ pc' = CASE heap'[b] = "unmapped" -> "crashed"
               [] go -> Steps[mem'[b].current_state + 1]
               [] OTHER -> "event"
    /\ active' = IF go THEN b ELSE None

Dispatch ==
    \E e \in batch :
        /\ pc = "event" /\ ~e.hup
        /\ batch' = batch \ {e}
        /\ UNCHANGED <<peers, kernel, mem, heap, sig_flag>>
        /\ IF e.ptr = Listener THEN pc' = "accept" /\ UNCHANGED active ELSE Continue(0, e.ptr)

request == mem[active]
Becomes(new) == mem' = [mem EXCEPT ![active] = new] /\ UNCHANGED heap

(* The request is given up: descriptors F are closed and it is freed.       *)
GiveUp(F) ==
    /\ CloseFds(F) /\ Release(active)
    /\ UNCHANGED <<given, sent, recvd, eof, rst, backlog, reply, lready>>

Put(buf, off, cells) ==
    [i \in 1 .. (IF Len(buf) > off + Len(cells) THEN Len(buf) ELSE off + Len(cells)) |->
        IF i \in off + 1 .. off + Len(cells) THEN cells[i - off]
        ELSE IF i <= Len(buf) THEN buf[i] ELSE None]
Clear(buf, n) == [i \in DOMAIN buf |-> IF i <= n THEN None ELSE buf[i]]

(* What recv returned is added to a counter.                                *)
Count(bytes, cells) == bytes + Len(cells)

(* all_headers_received: strstr stops at the first zero byte.               *)
Complete(buf) ==
    \E i \in DOMAIN buf : /\ \A j \in 1 .. i : buf[j] # None
                          /\ buf[i][2] \in {"end", "answer"}

(* READ_REQUEST, the loop: recv until the headers are complete or nothing   *)
(* is there.  recv returning 0 is not looked at: the loop never ends.       *)
ReadRequest ==
    LET in == Input(request.client_fd)
        new == Put(request.read_buffer, request.read_bytes_client, in.cells)
    IN
    /\ pc = "read_request"
    /\ \/ /\ in.cells # <<>>
          /\ Taken(request.client_fd)
          /\ Becomes([request EXCEPT
                !.read_buffer = new,
                !.read_bytes_client = Count(request.read_bytes_client, in.cells)])
          /\ pc' = IF Complete(new) THEN "open" ELSE "read_request"
          /\ UNCHANGED <<given, sent, eof, rst, conn, backlog, reply,
                         reg, wreg, ready, lready, active>>
       \/ /\ in.cells = <<>> /\ in.error
          /\ GiveUp({request.client_fd})
          /\ Continue(1, active)
       \/ /\ in.cells = <<>> /\ ~in.error /\ ~in.eof
          /\ UNCHANGED <<peers, kernel, mem, heap>>
          /\ Continue(1, active)
       \/ /\ in.cells = <<>> /\ ~in.error /\ in.eof
          /\ pc' = IF Complete(request.read_buffer) THEN "open" ELSE "hung"
          /\ UNCHANGED <<peers, kernel, mem, heap, active>>
    /\ UNCHANGED <<batch, sig_flag>>

(* READ_REQUEST, the rest: parse_request, getaddrinfo, connect, register    *)
(* with the other epoll instance, and erase the buffer.                     *)
Open ==
    LET c == request.read_buffer[1][1]
        f == Lowest(FreeFds)
    IN
    /\ pc = "open"
    /\ \/ /\ kind[c] \in {"malformed", "nohost", "refused"} \/ FreeFds = {}
          /\ GiveUp({request.client_fd})
       \/ /\ kind[c] \notin {"malformed", "nohost", "refused"} /\ FreeFds # {}
          /\ file' = [file EXCEPT ![f] = [type |-> "server", of |-> c, st |-> "new", got |-> FALSE]]
          /\ wreg' = wreg \cup {f}
          /\ Becomes([request EXCEPT
                !.server_fd = f, !.current_state = 1,
                !.write_buffer = Put(request.write_buffer, 0, << <<c, "request">> >>),
                !.total_write_amount = 1,
                !.read_buffer = Clear(request.read_buffer, request.read_bytes_client)])
          /\ UNCHANGED <<peers, reg, ready, lready>>
    /\ Continue(1, active)
    /\ UNCHANGED <<batch, sig_flag>>

(* write(f, cells): a client is sent the cells, a server asked its request.  *)
Sent(f, cells) == [c \in Clients |-> IF f \in FdsOf(c) THEN reply[c] \o cells ELSE reply[c]]
Asked(f, cells) ==
    IF FileOf(f).st = "new" /\ cells = << <<FileOf(f).of, "request">> >>
    THEN [file EXCEPT ![f].st = "asked"] ELSE file

Cut(buf, off, n) == [i \in 1 .. n |-> IF off + i <= Len(buf) THEN buf[off + i] ELSE None]
WriteFails(f) == FileOf(f).type = "free" \/ (FileOf(f).type # "stdin" /\ Input(f).error)

(* SEND_REQUEST: the socket of a new connection takes the whole request.    *)
SendRequest ==
    LET f == request.server_fd
        n == request.written_bytes_server + request.total_write_amount
    IN
    /\ pc = "send_request"
    /\ \/ /\ WriteFails(f)
          /\ GiveUp({request.client_fd, f})
          /\ Continue(2, active)
       \/ /\ ~WriteFails(f) /\ CanAdd(f, Registered)
          /\ LET cells == Cut(request.write_buffer, request.written_bytes_server,
                              request.total_write_amount)
             IN  reply' = Sent(f, cells) /\ file' = Asked(f, cells)
          /\ reg' = [reg EXCEPT ![f] = active]
          /\ ready' = IF Readable(f) THEN ready \cup {f} ELSE ready
          /\ Becomes([request EXCEPT
                !.written_bytes_server = n, !.current_state = 2,
                !.write_buffer = Clear(request.write_buffer, n)])
          /\ UNCHANGED <<given, sent, recvd, eof, rst, conn, backlog, wreg, lready>>
          /\ Continue(2, active)
       \/ /\ ~WriteFails(f) /\ ~CanAdd(f, Registered)
          /\ pc' = "exited"
          /\ UNCHANGED <<peers, kernel, mem, heap, active>>
    /\ UNCHANGED <<batch, sig_flag>>

(* READ_RESPONSE: recv until the server has closed.                         *)
ReadResponse ==
    LET f == request.server_fd
        in == Input(f)
    IN
    /\ pc = "read_response"
    /\ \/ /\ in.cells # <<>>
          /\ Taken(f)
          /\ Becomes([request EXCEPT
                !.read_buffer = Put(request.read_buffer, request.read_bytes_server, in.cells),
                !.read_bytes_server = Count(request.read_bytes_server, in.cells)])
          /\ UNCHANGED <<given, sent, eof, rst, conn, backlog, reply,
                         reg, wreg, ready, lready, pc, active>>
       \/ /\ in.cells = <<>> /\ in.error
          /\ GiveUp({request.client_fd})
          /\ Continue(3, active)
       \/ /\ in.cells = <<>> /\ ~in.error /\ in.eof /\ CanAdd(request.client_fd, wreg)
          /\ wreg' = wreg \cup {request.client_fd}
          /\ Becomes([request EXCEPT
                !.total_write_amount = request.read_bytes_server, !.current_state = 3])
          /\ UNCHANGED <<peers, file, reg, ready, lready>>
          /\ Continue(3, active)
       \/ /\ in.cells = <<>> /\ ~in.error /\ in.eof /\ ~CanAdd(request.client_fd, wreg)
          /\ pc' = "exited"
          /\ UNCHANGED <<peers, kernel, mem, heap, active>>
       \/ /\ in.cells = <<>> /\ ~in.error /\ ~in.eof
          /\ UNCHANGED <<peers, kernel, mem, heap>>
          /\ Continue(3, active)
    /\ UNCHANGED <<batch, sig_flag>>

Finish_LeavesServer(written) ==
    /\ CloseFds({request.client_fd})
    /\ Becomes([request EXCEPT !.written_bytes_client = written, !.current_state = 4])
Finish_Frees(written) ==
    CloseFds({request.client_fd, request.server_fd}) /\ Release(active)
(* Everything is written: both connections are closed; the request is kept. *)
Finish(written) ==
    /\ CloseFds({request.client_fd, request.server_fd})
    /\ Becomes([request EXCEPT !.written_bytes_client = written, !.current_state = 4])

(* SEND_RESPONSE: write until everything is written or the socket is full.  *)
(* Every call asks for total_write_amount again.                            *)
SendResponse ==
    LET f == request.client_fd
        total == request.total_write_amount
        big == \E c \in Clients : f \in FdsOf(c) /\ kind[c] = "big"
    IN
    /\ pc = "send_response"
    /\ \/ /\ WriteFails(f)
          /\ GiveUp({f, request.server_fd})
          /\ Continue(4, active)
       \/ /\ ~WriteFails(f) /\ big /\ total > 0
          /\ UNCHANGED <<peers, kernel, mem, heap>>
          /\ Continue(4, active)
       \/ \E n \in 0 .. total :
            LET written == request.written_bytes_client + n IN
            /\ ~WriteFails(f)
            /\ n = total \/ (n > 0 /\ big)
            /\ reply' = Sent(f, Cut(request.read_buffer, request.written_bytes_client, n))
            /\ IF written >= total
               THEN Finish(written) /\ Continue(4, active)
               ELSE /\ Becomes([request EXCEPT !.written_bytes_client = written])
                    /\ UNCHANGED <<conn, file, reg, wreg, ready, pc, active>>
            /\ UNCHANGED <<given, sent, recvd, eof, rst, backlog, lready>>
    /\ UNCHANGED <<batch, sig_flag>>

-----------------------------------------------------------------------------
ProcessStep ==
    \/ Wait \/ Timeout \/ HangUp \/ Dispatch \/ Accept
    \/ ReadRequest \/ Open \/ SendRequest \/ ReadResponse \/ SendResponse

Next ==
    \/ ProcessStep \/ Signal
    \/ \E c \in Clients : /\ Alive
                          /\ ClientConnect(c) \/ ClientSend(c) \/ ClientLeave(c)
    \/ \E f \in Fds : Alive /\ ServerStep(f)

Spec == Init /\ [][Next]_vars

(* The process is scheduled, clients send what they have to send, and a     *)
(* server that answers does so.  No client has to connect or to leave, and  *)
(* nobody has to send SIGINT.                                               *)
FairSpec ==
    /\ Spec
    /\ WF_vars(ProcessStep)
    /\ \A c \in Clients : WF_vars(Alive /\ ClientSend(c))
    /\ \A f \in Fds : WF_vars(Alive /\ ServerStep(f))

-----------------------------------------------------------------------------
Live(b) == heap[b] = "live" /\ mem[b].current_state # 4

(* Connections are closed by the proxy only: no client and no server leaves *)
(* before it has been served.                                               *)
NoneLeaves == \A c \in Clients : kind[c] \notin {"quits", "resets", "serverresets"}

(* Edge-triggered events are not repeated: whenever the process goes to     *)
(* sleep, a request that can go on because its connection has input has an  *)
(* edge that is still to be fetched; so has the listening socket.           *)
NoLostEdge ==
    NoneLeaves /\ pc = "event" /\ batch = {} =>
        /\ backlog # <<>> => lready
        /\ \A b \in Blocks : Live(b) =>
            /\ (mem[b].current_state = 0 /\ Readable(mem[b].client_fd) => mem[b].client_fd \in ready)
            /\ (mem[b].current_state = 2 /\ Readable(mem[b].server_fd) => mem[b].server_fd \in ready)

(* Every open descriptor belongs to exactly one request that is under way,  *)
(* whose events it delivers, and will be closed by it.                      *)
DescriptorsOwned ==
    NoneLeaves => \A f \in Fds :
        LET client == {b \in Blocks : Live(b) /\ mem[b].client_fd = f}
            server == {b \in Blocks : Live(b) /\ mem[b].server_fd = f /\ mem[b].current_state # 0}
        IN  /\ file[f].type = "client" => client = {reg[f]} /\ server = {}
            /\ file[f].type = "server" =>
                 \E b \in Blocks : server = {b} /\ client = {} /\ reg[f] \in {b, None}
            /\ file[f].type \in {"free", "stdin"} => client \cup server = {}

(* A client is sent the answer to its own request, from its beginning, once *)
(* -- on a system where malloc never returns a request_info with the old    *)
(* contents, and if no client resets its connection: what its EPOLLHUP      *)
(* closes as server_fd nothing has initialised, and is in the end another   *)
(* client's.  A client whose answer takes several writes, each of which asks *)
(* for the whole length again, is sent something else, but nothing that is  *)
(* somebody else's.                                                         *)
AnswerTo(c) == << <<c, "answer">>, <<c, "rest">> >>
Isolation ==
    "merged" \notin system.frees /\ (\A c \in Clients : kind[c] # "resets") =>
        \A c \in Clients :
            IF kind[c] = "big" THEN Range(reply[c]) \subseteq Range(AnswerTo(c)) \cup {None}
            ELSE IsPrefix(reply[c], AnswerTo(c))

(* With descriptors enough for every request, the process stops serving     *)
(* only for one of these reasons, whatever the order of events: a request   *)
(* was given up, which may leave pointers to freed memory and descriptors   *)
(* that are closed or somebody else's, or a client closed its side before   *)
(* its request was complete, and recv returns 0 for ever.                   *)
GivesUp == {"resets", "malformed", "nohost", "refused", "serverresets"}
NoneGaveUp == \A c \in Clients : kind[c] \in GivesUp => conn[c] = "none"
StopCauses ==
    system.limit > 2 * Cardinality(Clients) /\ NoneGaveUp =>
        /\ pc \notin {"crashed", "exited"}
        /\ pc = "hung" => \E c \in eof : recvd[c] = sent[c]

(* Every client that connects is sent the whole answer, and its connection  *)
(* is closed, unless the process is told to stop first.                     *)
Answered ==
    \A c \in Clients : kind[c] \in {"ok", "slow"} /\ conn[c] = "pending"
                         ~> (conn[c] = "closed" /\ Len(reply[c]) = 2) \/ sig_flag

(* After SIGINT the process stops by itself, once no event comes for a      *)
(* second, even when it caught the signal while it was handling events.     *)
Stops == sig_flag ~> ~Alive

=============================================================================
