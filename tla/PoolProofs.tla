----------------------------- MODULE PoolProofs -----------------------------
(***************************************************************************)
(* Proofs about PoolProxy, for any number of clients, workers, descriptors *)
(* and addresses and any size of the buffer: its types, and, when no       *)
(* server refuses a connection, that every descriptor has one holder, that *)
(* what is read for a client is its request, that the answers stay apart,  *)
(* and how many workers are lost.                                          *)
(*                                                                         *)
(* The inductive invariant has a part for the types (Typed) and one for    *)
(* the rest (Safe).  Its centre is Owned: a client's descriptor is in one  *)
(* place of four, main's hand, the queue, the hand of a worker that has    *)
(* just taken it or that of the worker that serves it.  From this the      *)
(* steps of a worker concern its own client and its own server, and the    *)
(* other workers' parts of the invariant are kept.                         *)
(***************************************************************************)
EXTENDS PoolProxy, Induction, SequenceTheorems

(* Type correctness needs that a descriptor is passed to and taken from the *)
(* buffer, that an answer that has been sent answers a request, and how far *)
(* the loop over the addresses is.                                          *)
InCall ==
    /\ phase[Main] = "called" => val[Main] \in Fds \cup {BadFd}
    /\ \A w \in Workers : phase[w] = "done" => val[w] \in Fds \cup {BadFd}
ClientsTyped ==
    /\ kind \in [Clients -> Kinds]
    /\ sent \in [Clients -> 0 .. 2] /\ recvd \in [Clients -> 0 .. 2]
    /\ eof \in [Clients -> BOOLEAN]
    /\ conn \in [Clients -> {"none", "pending", "open", "closed"}]
    /\ backlog \in Seq(Clients)
    /\ \A c \in Clients : recvd[c] <= sent[c]
ServersTyped ==
    /\ reply \in [Clients -> Seq([body : Seq(Answers), extra : 0 .. 1])]
    /\ asked \in [Workers -> Seq(Answers)]
    /\ answer \in [Workers -> {"no", "sent", "reset", "end"}]
    /\ \A w \in Workers : answer[w] = "sent" => asked[w] # <<>>
ProxyTyped ==
    /\ running \in BOOLEAN
    /\ file \in [Fds -> Clients \cup Workers \cup {Free}]
    /\ thread \in [Workers -> Locals]
    /\ \A w \in Workers : thread[w].pc = "connect" => thread[w].rp < Addresses

Typed == ClientsTyped /\ ServersTyped /\ ProxyTyped /\ Q!FifoTypeOK /\ InCall

(* Descriptor f is in main's hand, in the queue, or worker w's: just taken  *)
(* from the queue or that of its client.                                    *)
InHand(f) == phase[Main] = "called" /\ val[Main] = f
InQueue(f) == \E i \in DOMAIN queue : queue[i] = f
Serving == {"recv", "parse", "resolve", "socket", "connect", "write", "read", "reply", "close", "spin"}
Handles(w, f) == thread[w].new_sfd = f /\ thread[w].pc \in Serving
Handed(w, f) == (phase[w] = "done" /\ val[w] = f) \/ Handles(w, f)

(* Where a worker's socket_sfd is open.                                     *)
Opened == {"connect", "write", "read", "reply", "close", "closesock"}

Owned(f) ==
    /\ file[f] \in Clients <=> InHand(f) \/ InQueue(f) \/ \E w \in Workers : Handed(w, f)
    /\ ~ (InHand(f) /\ InQueue(f))
    /\ \A i, j \in DOMAIN queue : queue[i] = f /\ queue[j] = f => i = j
    /\ \A w \in Workers : Handed(w, f) => ~InHand(f) /\ ~InQueue(f)
    /\ \A w, x \in Workers : Handed(w, f) /\ Handed(x, f) => w = x
    /\ \A w \in Workers : file[f] = w <=> thread[w].socket_sfd = f /\ thread[w].pc \in Opened

(* A client's connection is in the backlog, or open as one descriptor.      *)
Connected ==
    /\ \A f, g \in Fds : file[f] \in Clients /\ file[f] = file[g] => f = g
    /\ \A f \in Fds : file[f] \in Clients => conn[file[f]] = "open"
    /\ \A i, j \in DOMAIN backlog : backlog[i] = backlog[j] => i = j
    /\ \A i \in DOMAIN backlog : conn[backlog[i]] = "pending"

(* The locals of worker w, where it is.                                     *)
Socketless == {"sbuf", "recv", "parse", "resolve"}
Answering == {"reply", "close", "closesock"}
LocalOK(l, ph, as, an) ==
    /\ l.pc # "sbuf" => ph = "idle" /\ l.new_sfd \in Fds \cup {BadFd}
    /\ l.pc = "sbuf" => l.nread = 0
    /\ l.pc \in Socketless => l.rp = 0 /\ l.socket_sfd = 0
    /\ l.pc = "socket" => l.socket_sfd = IF l.rp = 0 THEN 0 ELSE BadFd
    /\ l.pc \in {"connect"} \cup Answering => l.socket_sfd \in Fds
    /\ l.pc \in {"write", "read"} => l.socket_sfd \in Fds \cup {BadFd}
    /\ l.pc \in Socketless \cup {"socket", "connect", "write"} => l.new_buf = <<>>
    /\ l.pc = "parse" => l.buf[1] # None
    /\ l.pc \in {"resolve", "socket", "connect", "write", "read", "reply"} => l.buf[1] \in Clients
    /\ l.pc \in {"connect", "write"} /\ l.socket_sfd \in Fds => as = <<>> /\ an = "no"
    /\ l.pc = "read" /\ l.socket_sfd \in Fds =>
          /\ as = <<l.buf>>
          /\ l.new_buf = IF an \in {"no", "sent"} THEN <<>> ELSE <<l.buf>>
    /\ l.pc = "reply" => l.new_buf = <<l.buf>>

(* A client that no worker serves has been neither read from nor written to,*)
(* and one that sends its request at once is read from once and written to  *)
(* once, the answer to its request.                                         *)
Fresh(c) == recvd[c] = 0 /\ reply[c] = <<>>
Replied(c) == Len(reply[c]) = 1 /\ reply[c][1].body = << <<c, c>> >>
ClientOK(c) ==
    /\ eof[c] => kind[c] = "quits"
    /\ Whole(c) => sent[c] \in {0, 2} /\ recvd[c] \in {0, 2}
    /\ Whole(c) => reply[c] = <<>> \/ Replied(c)
    /\ conn[c] \in {"none", "pending"} => Fresh(c)
    /\ \A f \in Fds : file[f] = c /\ (\A w \in Workers : ~Handles(w, f)) => Fresh(c)

Begun == {"parse", "resolve", "socket", "connect", "write", "read", "reply"}
ServesOK(w) ==
    LET l == thread[w]
        c == FileOf(l.new_sfd)
    IN  /\ l.pc = "recv" /\ c \in Clients /\ Whole(c) => Fresh(c) /\ l.nread = 0
        /\ l.pc \in Begun /\ c \in Clients /\ Whole(c) => reply[c] = <<>> /\ l.buf = <<c, c>>
        /\ l.pc = "spin" /\ BadFd \notin {l.new_sfd, l.socket_sfd} =>
              c \in Clients /\ kind[c] = "quits" /\ eof[c]

Safe ==
    /\ \A f \in Fds : Owned(f)
    /\ Connected
    /\ \A w \in Workers : LocalOK(thread[w], phase[w], asked[w], answer[w])
    /\ \A c \in Clients : ClientOK(c)
    /\ \A w \in Workers : ServesOK(w)

IInv == Typed /\ (NoneRefused => Safe)

-----------------------------------------------------------------------------
(* Types.                                                                   *)

Types == /\ SbufSize \in Nat \ {0} /\ MaxFd \in Nat \ {0} /\ Addresses \in Nat \ {0}
         /\ Main \notin Workers /\ BadFd \notin Fds /\ 0 \notin Fds /\ BadFd # 0
         /\ Free \notin Clients /\ Free \notin Workers /\ Clients \cap Workers = {}

LEMMA TypesOK == Types
BY PoolAssumption DEF Types, Fds, BadFd

LEMMA LowestOK ==
    ASSUME NEW S \in SUBSET Fds, S # {}
    PROVE  Lowest(S) \in S
<1>1. PICK m \in S : TRUE
  OBVIOUS
<1> DEFINE N == {n \in Nat : \A f \in S : n <= f}
           T == {n \in Nat : \A k \in Nat : k <= n => k \in N}
<1>2. \A f \in S : f \in Nat
  BY TypesOK DEF Fds, Types
<1>3. 0 \in T
  BY <1>2
<1>4. \E n \in Nat : n \in T /\ n + 1 \notin T
  <2> SUFFICES ASSUME \A n \in Nat : n \in T => n + 1 \in T PROVE FALSE
    OBVIOUS
  <2>1. Nat \subseteq T
    <3> HIDE DEF T
    <3> QED BY <1>3, NatSetInduction
  <2>2. m + 1 \in N
    BY <1>2, <2>1
  <2> QED BY <1>2, <2>2
<1>5. PICK n \in Nat : n \in T /\ n + 1 \notin T
  BY <1>4
<1>6. n \in N /\ n + 1 \notin N
  BY <1>5
<1>7. PICK f \in S : ~(n + 1 <= f)
  BY <1>6
<1>8. \A g \in S : f <= g
  BY <1>2, <1>6, <1>7
<1> QED BY <1>8 DEF Lowest

(* A worker's locals change to others of their type.                        *)
LEMMA BecomeTyped ==
    ASSUME thread \in [Workers -> Locals], NEW w \in Workers, NEW l \in Locals, Become(w, l)
    PROVE  thread' \in [Workers -> Locals] /\ thread'[w] = l
           /\ \A x \in Workers : x # w => thread'[x] = thread[x]
BY DEF Become

LEMMA GotoTyped ==
    ASSUME thread \in [Workers -> Locals], NEW w \in Workers, NEW to, Goto(w, to),
           to \in {"sbuf", "recv", "parse", "resolve", "socket", "connect",
                   "write", "read", "reply", "close", "closesock", "spin"}
    PROVE  /\ thread' \in [Workers -> Locals]
           /\ thread'[w] = [thread[w] EXCEPT !.pc = to]
           /\ \A x \in Workers : x # w => thread'[x] = thread[x]
<1>1. thread[w] \in Locals
  OBVIOUS
<1>2. [thread[w] EXCEPT !.pc = to] \in Locals
  BY <1>1 DEF Locals
<1> QED BY <1>2, BecomeTyped DEF Goto

(* The fields of a thread's locals.                                         *)
LEMMA FieldTypes ==
    ASSUME NEW l \in Locals
    PROVE  /\ l.new_sfd \in Fds \cup {BadFd, 0} /\ l.socket_sfd \in Fds \cup {BadFd, 0}
           /\ l.buf \in Requests /\ l.nread \in 0 .. 2 /\ l.rp \in 0 .. Addresses
           /\ l.new_buf \in Seq(Answers) /\ l.short \in 0 .. 1
           /\ l.pc \in {"sbuf", "recv", "parse", "resolve", "socket", "connect",
                        "write", "read", "reply", "close", "closesock", "spin"}
BY DEF Locals

LEMMA ReturnedTyped ==
    ASSUME NEW l \in Locals
    PROVE  /\ Returned(l) \in Locals
           /\ Returned(l).pc = "sbuf" /\ Returned(l).new_sfd = 0 /\ Returned(l).nread = 0
           /\ Returned(l).rp = 0 /\ Returned(l).socket_sfd = 0 /\ Returned(l).new_buf = <<>>
           /\ Returned(l).buf = l.buf
<1> DEFINE e == <<>>
<1>1. e \in Seq(Answers) /\ 0 \in 0 .. 2 /\ 0 \in 0 .. Addresses /\ 0 \in 0 .. 1
  BY TypesOK DEF Types
<1>2. Returned(l) = [l EXCEPT !.pc = "sbuf", !.new_sfd = 0, !.nread = 0, !.rp = 0,
                              !.socket_sfd = 0, !.new_buf = e, !.short = 0]
  BY DEF Returned
<1> HIDE DEF e
<1> QED BY <1>1, <1>2 DEF Locals, e

LEMMA FileOfTyped ==
    ASSUME TypeOK, NEW f
    PROVE  FileOf(f) \in Clients \cup Workers \cup {Free}
BY DEF TypeOK, FileOf

LEMMA CloseTyped ==
    ASSUME TypeOK, NEW f, CloseFd(f)
    PROVE  /\ file' \in [Fds -> Clients \cup Workers \cup {Free}]
           /\ conn' \in [Clients -> {"none", "pending", "open", "closed"}]
BY DEF TypeOK, CloseFd

LEMMA WriteTyped ==
    ASSUME TypeOK, NEW f, NEW x \in Seq(Answers), NEW extra \in 0 .. 1, WriteTo(f, x, extra)
    PROVE  /\ reply' \in [Clients -> Seq([body : Seq(Answers), extra : 0 .. 1])]
           /\ asked' \in [Workers -> Seq(Answers)]
           /\ \A w \in Workers : asked[w] # <<>> => asked'[w] # <<>>
<1>1. \A c \in Clients : Append(reply[c], [body |-> x, extra |-> extra])
                           \in Seq([body : Seq(Answers), extra : 0 .. 1])
  BY AppendProperties DEF TypeOK
<1>2. \A w \in Workers : /\ asked[w] \o x \in Seq(Answers)
                         /\ asked[w] # <<>> => asked[w] \o x # <<>>
  BY ConcatProperties, ConcatEqualIffEmpty DEF TypeOK
<1>3. reply' \in [Clients -> Seq([body : Seq(Answers), extra : 0 .. 1])]
  BY <1>1 DEF TypeOK, WriteTo
<1>4. asked' \in [Workers -> Seq(Answers)] /\ \A w \in Workers : asked[w] # <<>> => asked'[w] # <<>>
  BY <1>2 DEF TypeOK, WriteTo
<1> QED BY <1>3, <1>4

(* The calls on the buffer.                                                 *)
LEMMA FifoTyped ==
    ASSUME TypeOK, InCall,
           \/ \E f \in Fds \cup {BadFd} : Q!BeginInsert(Main, f)
           \/ Q!Insert(Main) \/ Q!Return(Main)
           \/ \E w \in Workers : Q!BeginRemove(w) \/ Q!Remove(w) \/ Q!Return(w)
    PROVE  (Q!FifoTypeOK)' /\ InCall'
<1> DEFINE I == Fds \cup {BadFd}
           FifoOK == /\ queue \in Seq(I) /\ Len(queue) <= SbufSize
                     /\ phase \in [{Main} \cup Workers -> {"idle", "called", "done"}]
                     /\ val \in [{Main} \cup Workers -> I \cup {0}]
                     /\ phase[Main] = "called" => val[Main] \in I
                     /\ \A w \in Workers : phase[w] = "done" => val[w] \in I
<1>1. FifoOK /\ Main \notin Workers /\ SbufSize \in Nat
  BY TypesOK DEF TypeOK, InCall, Q!FifoTypeOK, Q!Threads, Types
<1> SUFFICES FifoOK'
  BY DEF Q!FifoTypeOK, Q!Threads, InCall
<1>2. I' = I
  BY DEF Fds, BadFd
<1> HIDE DEF I
<1>3. CASE \E f \in I : Q!BeginInsert(Main, f)
  BY <1>1, <1>2, <1>3 DEF Q!BeginInsert
<1>4. CASE Q!Insert(Main)
  <2>1. val[Main] \in I /\ Len(queue) < SbufSize /\ queue' = Append(queue, val[Main])
    BY <1>1, <1>4 DEF Q!Insert
  <2>2. queue' \in Seq(I) /\ Len(queue') = Len(queue) + 1 /\ Len(queue) \in Nat
    BY <1>1, <2>1, AppendProperties
  <2>3. Len(queue') <= SbufSize
    BY <1>1, <2>1, <2>2
  <2> QED BY <1>1, <1>2, <1>4, <2>2, <2>3 DEF Q!Insert
<1>5. CASE Q!Return(Main) \/ \E w \in Workers : Q!BeginRemove(w) \/ Q!Return(w)
  BY <1>1, <1>2, <1>5 DEF Q!Return, Q!BeginRemove
<1>6. CASE \E w \in Workers : Q!Remove(w)
  <2>1. PICK w \in Workers : Q!Remove(w)
    BY <1>6
  <2>2. queue # <<>> /\ queue' = Tail(queue) /\ val' = [val EXCEPT ![w] = Head(queue)]
    BY <2>1 DEF Q!Remove
  <2>3. Head(queue) \in I /\ queue' \in Seq(I) /\ Len(queue') = Len(queue) - 1 /\ Len(queue) \in Nat
    BY <1>1, <2>2, HeadTailProperties
  <2>4. Len(queue') <= SbufSize
    BY <1>1, <2>3
  <2> QED BY <1>1, <1>2, <2>1, <2>2, <2>3, <2>4 DEF Q!Remove
<1> QED BY <1>3, <1>4, <1>5, <1>6 DEF I

LEMMA TypedTypeOK == Typed => TypeOK /\ InCall
BY DEF Typed, TypeOK, ClientsTyped, ServersTyped, ProxyTyped

LEMMA SameFifo ==
    ASSUME Typed, UNCHANGED fifo
    PROVE  (Q!FifoTypeOK)' /\ InCall'
BY DEF Typed, InCall, Q!FifoTypeOK, fifo, Fds, BadFd

LEMMA InitTyped == Init => Typed
<1> SUFFICES ASSUME Init PROVE Typed
  OBVIOUS
<1> DEFINE no == <<>>
           l == [pc |-> "sbuf", new_sfd |-> 0, buf |-> <<None, None>>, nread |-> 0,
                 rp |-> 0, socket_sfd |-> 0, new_buf |-> no, short |-> 0]
           t == [w \in Workers |-> l]
<1>1. l \in Locals
  <2>1. <<None, None>> \in Requests
    BY DEF Requests, Cells
  <2>2. no \in Seq(Answers) /\ 0 \in 0 .. Addresses
    BY TypesOK DEF Types
  <2> HIDE DEF no
  <2> QED BY <2>1, <2>2 DEF Locals
<1>2. thread = t
  BY DEF Init
<1>3. ClientsTyped
  BY PoolAssumption DEF Init, ClientsTyped
<1>4. ServersTyped
  BY DEF Init, ServersTyped
<1>5. ProxyTyped
  <2>1. thread \in [Workers -> Locals] /\ \A w \in Workers : thread[w].pc = "sbuf"
    BY <1>1, <1>2
  <2> QED BY <2>1 DEF Init, ProxyTyped
<1>6. Q!FifoTypeOK /\ InCall
  BY TypesOK DEF Init, Q!Init, Q!FifoTypeOK, Q!Threads, InCall, Types
<1> QED BY <1>3, <1>4, <1>5, <1>6 DEF Typed

LEMMA ConnectTyped ==
    ASSUME Typed, NEW c \in Clients, ClientConnect(c)
    PROVE  Typed'
<1>1. backlog' \in Seq(Clients)
  BY AppendProperties DEF ClientConnect, Typed, ClientsTyped
<1>2. ClientsTyped'
  BY <1>1 DEF Typed, ClientsTyped, ClientConnect, clients, network
<1> QED BY <1>2, SameFifo
        DEF Typed, ServersTyped, ProxyTyped, ClientConnect, clients, network

LEMMA SendTyped ==
    ASSUME Typed, NEW c \in Clients, ClientSend(c) \/ ClientQuit(c)
    PROVE  Typed'
<1>1. ClientsTyped'
  <2>1. CASE ClientQuit(c)
    BY <2>1 DEF Typed, ClientsTyped, ClientQuit, network
  <2>2. CASE ClientSend(c)
    <3>1. sent[c] \in 0 .. 2 /\ recvd[c] \in 0 .. 2 /\ recvd[c] <= sent[c]
      BY DEF Typed, ClientsTyped
    <3> DEFINE k == IF kind[c] \in {"slow", "quits"} THEN sent[c] + 1 ELSE 2
    <3>2. k \in 0 .. 2 /\ sent[c] <= k
      <4>1. sent[c] < 2
        BY <2>2, <3>1 DEF ClientSend
      <4> QED BY <3>1, <4>1
    <3>5. sent' = [sent EXCEPT ![c] = k]
      BY <2>2 DEF ClientSend
    <3> HIDE DEF k
    <3>3. UNCHANGED <<kind, eof, conn, backlog, recvd>>
      BY <2>2 DEF ClientSend, network
    <3>4. sent' \in [Clients -> 0 .. 2] /\ \A d \in Clients : recvd'[d] <= sent'[d]
      BY <3>1, <3>2, <3>3, <3>5 DEF Typed, ClientsTyped
    <3> QED BY <3>3, <3>4 DEF Typed, ClientsTyped
  <2> QED BY <2>1, <2>2
<1> QED BY <1>1, SameFifo DEF Typed, ServersTyped, ProxyTyped, ClientSend, ClientQuit, network

LEMMA ServerTyped ==
    ASSUME Typed, NEW w \in Workers, ServerAnswer(w)
    PROVE  Typed'
<1>1. ServersTyped'
  BY DEF Typed, ServersTyped, ServerAnswer
<1> QED BY <1>1, SameFifo DEF Typed, ClientsTyped, ProxyTyped, ServerAnswer, clients

LEMMA AcceptTyped ==
    ASSUME Typed, MainAccept
    PROVE  Typed'
<1>1. TypeOK /\ InCall
  BY TypedTypeOK
<1>2. CASE FreeFds # {} /\ backlog # <<>> /\ Q!BeginInsert(Main, Lowest(FreeFds))
           /\ file' = [file EXCEPT ![Lowest(FreeFds)] = Head(backlog)]
           /\ conn' = [conn EXCEPT ![Head(backlog)] = "open"]
           /\ backlog' = Tail(backlog)
           /\ UNCHANGED <<clients, network, running, thread>>
  <2>1. Lowest(FreeFds) \in Fds /\ Lowest(FreeFds) \in Fds \cup {BadFd}
    BY <1>2, LowestOK DEF FreeFds
  <2>2. Head(backlog) \in Clients /\ backlog' \in Seq(Clients)
    BY <1>1, <1>2, HeadTailProperties DEF TypeOK
  <2>3. ClientsTyped'
    BY <1>2, <2>2 DEF Typed, ClientsTyped, clients, network
  <2>4. ProxyTyped'
    BY <1>2, <2>1, <2>2 DEF Typed, ProxyTyped
  <2>5. (Q!FifoTypeOK)' /\ InCall'
    BY <1>1, <1>2, <2>1, FifoTyped
  <2> QED BY <1>2, <2>3, <2>4, <2>5 DEF Typed, ServersTyped, network
<1>3. CASE Q!BeginInsert(Main, BadFd)
           /\ UNCHANGED <<clients, conn, backlog, network, running, file, thread>>
  <2>1. (Q!FifoTypeOK)' /\ InCall'
    BY <1>1, <1>3, FifoTyped
  <2> QED BY <1>3, <2>1 DEF Typed, ClientsTyped, ServersTyped, ProxyTyped, clients, network
<1> QED BY <1>2, <1>3 DEF MainAccept

LEMMA BufferTyped ==
    ASSUME Typed, MainInsert \/ \E w \in Workers : Take(w)
    PROVE  Typed'
<1>1. UNCHANGED <<clients, conn, backlog, network, running, file, thread>>
  BY DEF MainInsert, Take
<1>2. (Q!FifoTypeOK)' /\ InCall'
  BY FifoTyped, TypedTypeOK DEF MainInsert, Take
<1> QED BY <1>1, <1>2 DEF Typed, ClientsTyped, ServersTyped, ProxyTyped, clients, network

(* The worker's steps.                                                      *)
LEMMA HandleTyped ==
    ASSUME Typed, NEW w \in Workers, Handle(w)
    PROVE  Typed'
<1>1. UNCHANGED <<clients, conn, backlog, network, running, file>>
  BY DEF Handle
<1>2. (Q!FifoTypeOK)' /\ InCall'
  BY FifoTyped, TypedTypeOK DEF Handle
<1> DEFINE l == [thread[w] EXCEPT !.pc = "recv", !.new_sfd = val[w]]
<1>3. thread \in [Workers -> Locals] /\ thread[w] \in Locals /\ val[w] \in Fds \cup {BadFd}
  BY DEF Handle, Typed, ProxyTyped, InCall, Q!Return
<1>4. l \in Locals /\ l.pc = "recv"
  BY <1>3 DEF Locals
<1>5. /\ thread' \in [Workers -> Locals] /\ thread'[w] = l
      /\ \A x \in Workers : x # w => thread'[x] = thread[x]
  <2> HIDE DEF l
  <2>1. Become(w, l)
    BY DEF Handle, l
  <2> QED BY <1>3, <1>4, <2>1, BecomeTyped
<1>6. ProxyTyped'
  <2> HIDE DEF l
  <2> QED BY <1>1, <1>4, <1>5 DEF Typed, ProxyTyped
<1> QED BY <1>1, <1>2, <1>6 DEF Typed, ClientsTyped, ServersTyped, clients, network

(* What remains to be shown of a step of w to locals of the right type.      *)
LEMMA WorkerTyped ==
    ASSUME Typed, NEW w \in Workers, NEW l \in Locals, Become(w, l), UNCHANGED fifo,
           l.pc = "connect" => l.rp < Addresses, ClientsTyped', ServersTyped',
           running' \in BOOLEAN, file' \in [Fds -> Clients \cup Workers \cup {Free}]
    PROVE  Typed'
<1>1. thread \in [Workers -> Locals]
  BY DEF Typed, ProxyTyped
<1>2. /\ thread' \in [Workers -> Locals] /\ thread'[w] = l
      /\ \A x \in Workers : x # w => thread'[x] = thread[x]
  BY <1>1, BecomeTyped
<1>3. ProxyTyped'
  BY <1>2 DEF Typed, ProxyTyped
<1> QED BY <1>3, SameFifo DEF Typed

(* A step of w that only goes elsewhere.                                    *)
LEMMA GoneTyped ==
    ASSUME Typed, NEW w \in Workers, NEW to, Goto(w, to), UNCHANGED fifo,
           to \in {"sbuf", "recv", "parse", "resolve", "socket",
                   "write", "read", "reply", "close", "closesock", "spin"},
           ClientsTyped', ServersTyped',
           running' \in BOOLEAN, file' \in [Fds -> Clients \cup Workers \cup {Free}]
    PROVE  Typed'
<1> DEFINE l == [thread[w] EXCEPT !.pc = to]
<1>1. thread[w] \in Locals
  BY DEF Typed, ProxyTyped
<1>2. l \in Locals /\ l.pc # "connect"
  BY <1>1 DEF Locals
<1>3. Become(w, l)
  BY DEF Goto
<1> HIDE DEF l
<1> QED BY <1>2, <1>3, WorkerTyped

LEMMA SameClients ==
    ASSUME Typed, UNCHANGED <<clients, conn, backlog, recvd>>
    PROVE  ClientsTyped'
BY DEF Typed, ClientsTyped, clients

LEMMA SameServers ==
    ASSUME Typed, UNCHANGED <<reply, asked, answer>>
    PROVE  ServersTyped'
BY DEF Typed, ServersTyped

LEMMA RecvTyped ==
    ASSUME Typed, NEW w \in Workers, Recv(w)
    PROVE  Typed'
<1> DEFINE x == FileOf(thread[w].new_sfd)
<1>1. /\ UNCHANGED <<clients, conn, backlog, reply, asked, running, file, fifo>>
      /\ running' \in BOOLEAN /\ file' \in [Fds -> Clients \cup Workers \cup {Free}]
  BY DEF Recv, Typed, ProxyTyped
<1>2. thread[w] \in Locals
  BY DEF Typed, ProxyTyped
<1>3. ASSUME NEW k \in 0 .. 2, NEW y \in Cells, RecvGot(w, k, y), ClientsTyped', ServersTyped'
      PROVE  Typed'
  <2> DEFINE n == thread[w].nread
             new == [i \in 1 .. 2 |-> IF i \in n+1 .. n+k THEN y ELSE thread[w].buf[i]]
             m == IF n + k > 2 THEN 2 ELSE n + k
             to == IF Complete(new) THEN "parse" ELSE "recv"
             l == [thread[w] EXCEPT !.buf = new, !.nread = m, !.pc = to]
  <2>1. thread[w].buf \in Cells \X Cells /\ n \in 0 .. 2
    BY <1>2 DEF Locals, Requests
  <2>2. new \in Requests
    <3>1. new = <<new[1], new[2]>> /\ new[1] \in Cells /\ new[2] \in Cells
      BY <2>1
    <3> HIDE DEF new
    <3> QED BY <3>1 DEF Requests
  <2>3. m \in 0 .. 2 /\ to \in {"parse", "recv"}
    BY <2>1
  <2>4. Become(w, l)
    BY <1>3 DEF RecvGot
  <2> HIDE DEF new, m, to
  <2>5. l \in Locals /\ l.pc # "connect"
    BY <1>2, <2>2, <2>3 DEF Locals
  <2> HIDE DEF l
  <2> QED BY <1>1, <1>3, <2>4, <2>5, WorkerTyped
<1>4. CASE /\ x \in Clients /\ sent[x] > recvd[x] /\ RecvGot(w, sent[x] - recvd[x], x)
           /\ recvd' = [recvd EXCEPT ![x] = sent[x]] /\ UNCHANGED answer
  <2> HIDE DEF x
  <2>1. sent[x] \in 0 .. 2 /\ recvd[x] \in 0 .. 2 /\ recvd[x] <= sent[x] /\ x \in Cells
    BY <1>4 DEF Typed, ClientsTyped, Cells
  <2>2. sent[x] - recvd[x] \in 0 .. 2
    BY <2>1
  <2>3. ClientsTyped'
    BY <1>1, <1>4, <2>1 DEF Typed, ClientsTyped, clients
  <2> QED BY <1>1, <1>3, <1>4, <2>1, <2>2, <2>3, SameServers
<1>5. CASE /\ x \in Workers /\ answer[x] = "sent" /\ RecvGot(w, 1, Junk)
           /\ answer' = [answer EXCEPT ![x] = "end"] /\ UNCHANGED recvd
  <2> HIDE DEF x
  <2>1. ServersTyped'
    BY <1>1, <1>5 DEF Typed, ServersTyped
  <2>2. Junk \in Cells /\ 1 \in 0 .. 2
    BY DEF Cells
  <2> QED BY <1>1, <1>3, <1>5, <2>1, <2>2, SameClients
<1>6. CASE RecvNothing(w) /\ UNCHANGED <<recvd, answer>>
  BY <1>1, <1>6, SameClients, SameServers, GoneTyped DEF RecvNothing
<1> QED BY <1>4, <1>5, <1>6 DEF Recv

LEMMA ClosedTyped ==
    ASSUME Typed, NEW f, CloseFd(f), UNCHANGED <<clients, backlog, network, running>>
    PROVE  /\ ClientsTyped' /\ ServersTyped'
           /\ running' \in BOOLEAN /\ file' \in [Fds -> Clients \cup Workers \cup {Free}]
<1>1. /\ file' \in [Fds -> Clients \cup Workers \cup {Free}]
      /\ conn' \in [Clients -> {"none", "pending", "open", "closed"}]
  BY TypedTypeOK, CloseTyped
<1>2. ClientsTyped'
  BY <1>1 DEF Typed, ClientsTyped, clients, network
<1>3. ServersTyped'
  BY SameServers DEF network
<1> QED BY <1>1, <1>2, <1>3 DEF Typed, ProxyTyped

LEMMA ReturnTyped ==
    ASSUME Typed, NEW w \in Workers, NEW f, CloseFd(f), Become(w, Returned(thread[w])),
           UNCHANGED <<clients, backlog, network, running, fifo>>
    PROVE  Typed'
<1>1. thread[w] \in Locals
  BY DEF Typed, ProxyTyped
<1>2. Returned(thread[w]) \in Locals /\ Returned(thread[w]).pc # "connect"
  BY <1>1, ReturnedTyped
<1> QED BY <1>2, ClosedTyped, WorkerTyped

LEMMA ParseTyped ==
    ASSUME Typed, NEW w \in Workers, Parse(w)
    PROVE  Typed'
<1>1. UNCHANGED <<clients, backlog, network, fifo>>
  BY DEF Parse
<1>2. CASE CloseFd(thread[w].new_sfd) /\ Become(w, Returned(thread[w])) /\ UNCHANGED running
  BY <1>1, <1>2, ReturnTyped
<1>3. CASE Accepts(w)
  <2>1. Goto(w, "resolve") /\ UNCHANGED <<file, conn, running>>
    BY <1>3 DEF Accepts
  <2>2. running' \in BOOLEAN /\ file' \in [Fds -> Clients \cup Workers \cup {Free}]
    BY <2>1 DEF Typed, ProxyTyped
  <2> QED BY <1>1, <2>1, <2>2, SameClients, SameServers, GoneTyped DEF network
<1>4. CASE Segfault(w)
  <2>1. running' \in BOOLEAN /\ UNCHANGED <<file, conn, thread>>
    BY <1>4 DEF Segfault
  <2>2. ClientsTyped' /\ ServersTyped'
    BY <1>1, <2>1, SameClients, SameServers DEF Typed, network
  <2> QED BY <1>1, <2>1, <2>2, SameFifo DEF Typed, ProxyTyped
<1> QED BY <1>2, <1>3, <1>4 DEF Parse

LEMMA ResolveTyped ==
    ASSUME Typed, NEW w \in Workers, Resolve(w)
    PROVE  Typed'
<1>1. UNCHANGED <<clients, conn, backlog, network, file, fifo>> /\ running' \in BOOLEAN
  BY DEF Resolve
<1>2. file' \in [Fds -> Clients \cup Workers \cup {Free}] /\ ClientsTyped' /\ ServersTyped'
  BY <1>1, SameClients, SameServers DEF Typed, ProxyTyped, network
<1>3. CASE Goto(w, "socket")
  BY <1>1, <1>2, <1>3, GoneTyped
<1>4. CASE UNCHANGED thread
  BY <1>1, <1>2, <1>4, SameFifo DEF Typed, ProxyTyped
<1> QED BY <1>3, <1>4 DEF Resolve

LEMMA SocketTyped ==
    ASSUME Typed, NEW w \in Workers, Socket(w)
    PROVE  Typed'
<1>1. UNCHANGED <<clients, conn, backlog, recvd, reply, running, fifo>> /\ thread[w].rp < Addresses
  BY DEF Socket
<1>2. ClientsTyped' /\ running' \in BOOLEAN
  BY <1>1, SameClients DEF Typed, ProxyTyped
<1>3. thread[w] \in Locals /\ thread[w].rp \in 0 .. Addresses
  BY DEF Typed, ProxyTyped, Locals
<1>4. CASE FreeFds # {}
  <2> DEFINE f == Lowest(FreeFds)
             l == [thread[w] EXCEPT !.pc = "connect", !.socket_sfd = f]
  <2>1. f \in Fds
    BY <1>4, LowestOK DEF FreeFds
  <2>2. /\ file' = [file EXCEPT ![f] = w] /\ Become(w, l)
        /\ asked' = [asked EXCEPT ![w] = <<>>] /\ answer' = [answer EXCEPT ![w] = "no"]
    BY <1>4 DEF Socket
  <2> HIDE DEF f
  <2>3. l \in Locals /\ l.rp < Addresses
    BY <1>1, <1>3, <2>1 DEF Locals
  <2>4. file' \in [Fds -> Clients \cup Workers \cup {Free}]
    BY <2>1, <2>2 DEF Typed, ProxyTyped
  <2> HIDE DEF l
  <2>5. ServersTyped'
    <3> DEFINE e == <<>>
    <3>1. e \in Seq(Answers) /\ asked' = [asked EXCEPT ![w] = e]
      BY <2>2
    <3> HIDE DEF e
    <3> QED BY <1>1, <2>2, <3>1 DEF Typed, ServersTyped
  <2> QED BY <1>1, <1>2, <2>2, <2>3, <2>4, <2>5, WorkerTyped
<1>5. CASE FreeFds = {}
  <2> DEFINE r == thread[w].rp + 1
             l == [thread[w] EXCEPT !.socket_sfd = BadFd, !.rp = r]
  <2>1. Become(w, l) /\ UNCHANGED <<file, asked, answer>> /\ thread[w].pc = "socket"
    BY <1>5 DEF Socket, At
  <2>2. r \in 0 .. Addresses
    BY <1>1, <1>3, TypesOK DEF Types
  <2> HIDE DEF r
  <2>3. l \in Locals /\ l.pc # "connect"
    BY <1>3, <2>1, <2>2 DEF Locals
  <2>4. file' \in [Fds -> Clients \cup Workers \cup {Free}] /\ ServersTyped'
    BY <1>1, <2>1, SameServers DEF Typed, ProxyTyped
  <2> HIDE DEF l
  <2> QED BY <1>1, <1>2, <2>1, <2>3, <2>4, WorkerTyped
<1> QED BY <1>4, <1>5

LEMMA ConnectingTyped ==
    ASSUME Typed, NEW w \in Workers, Connect(w)
    PROVE  Typed'
<1>1. /\ UNCHANGED <<clients, backlog, network, running, fifo>> /\ thread[w].pc = "connect"
      /\ thread[w].rp < Addresses
  BY DEF Connect, ConnectOr, At, Typed, ProxyTyped
<1>2. CASE Goto(w, "write") /\ UNCHANGED <<file, conn>>
  <2>1. running' \in BOOLEAN /\ file' \in [Fds -> Clients \cup Workers \cup {Free}]
    BY <1>1, <1>2 DEF Typed, ProxyTyped
  <2> QED BY <1>1, <1>2, <2>1, SameClients, SameServers, GoneTyped DEF network
<1>3. CASE /\ CloseFd(thread[w].socket_sfd)
           /\ Become(w, [thread[w] EXCEPT !.pc = "socket", !.rp = thread[w].rp + 1])
  <2> DEFINE r == thread[w].rp + 1
             l == [thread[w] EXCEPT !.pc = "socket", !.rp = r]
  <2>1. thread[w] \in Locals /\ thread[w].rp \in 0 .. Addresses
    BY DEF Typed, ProxyTyped, Locals
  <2>2. r \in 0 .. Addresses
    BY <1>1, <2>1, TypesOK DEF Types
  <2> HIDE DEF r
  <2>3. l \in Locals /\ l.pc # "connect"
    BY <2>1, <2>2 DEF Locals
  <2>4. Become(w, l)
    BY <1>3 DEF r
  <2> HIDE DEF l
  <2> QED BY <1>1, <1>3, <2>3, <2>4, ClosedTyped, WorkerTyped
<1> QED BY <1>2, <1>3 DEF Connect, ConnectOr

LEMMA NoAddressTyped ==
    ASSUME Typed, NEW w \in Workers, NoAddress(w)
    PROVE  Typed'
<1>1. UNCHANGED <<clients, conn, backlog, network, running, file, fifo>> /\ Goto(w, "write")
  BY DEF NoAddress
<1>2. running' \in BOOLEAN /\ file' \in [Fds -> Clients \cup Workers \cup {Free}]
  BY <1>1 DEF Typed, ProxyTyped
<1> QED BY <1>1, <1>2, SameClients, SameServers, GoneTyped DEF network

(* A write, and going on.                                                   *)
LEMMA WritingTyped ==
    ASSUME Typed, NEW w \in Workers, NEW f, NEW x \in Seq(Answers), NEW extra \in 0 .. 1,
           WriteTo(f, x, extra), NEW to \in {"read", "close"}, Goto(w, to),
           UNCHANGED <<clients, conn, backlog, recvd, answer, running, file, fifo>>
    PROVE  Typed'
<1>1. /\ reply' \in [Clients -> Seq([body : Seq(Answers), extra : 0 .. 1])]
      /\ asked' \in [Workers -> Seq(Answers)]
      /\ \A v \in Workers : asked[v] # <<>> => asked'[v] # <<>>
  BY TypedTypeOK, WriteTyped
<1>2. ServersTyped'
  BY <1>1 DEF Typed, ServersTyped
<1>3. running' \in BOOLEAN /\ file' \in [Fds -> Clients \cup Workers \cup {Free}]
  BY DEF Typed, ProxyTyped
<1> QED BY <1>2, <1>3, SameClients, GoneTyped

LEMMA WriteRequestTyped ==
    ASSUME Typed, NEW w \in Workers, WriteRequest(w)
    PROVE  Typed'
<1>1. thread[w].buf \in Requests
  BY DEF Typed, ProxyTyped, Locals
<1>2. <<thread[w].buf>> \in Seq(Answers) /\ 0 \in 0 .. 1
  BY <1>1 DEF Answers
<1> QED BY <1>2, WritingTyped DEF WriteRequest

LEMMA ReplyTyped ==
    ASSUME Typed, NEW w \in Workers, Reply(w)
    PROVE  Typed'
<1>1. thread[w].new_buf \in Seq(Answers) /\ 1 - thread[w].short \in 0 .. 1
  BY DEF Typed, ProxyTyped, Locals
<1> QED BY <1>1, WritingTyped DEF Reply, ReplyOn

LEMMA ReadResponseTyped ==
    ASSUME Typed, NEW w \in Workers, ReadResponse(w)
    PROVE  Typed'
<1> DEFINE x == FileOf(thread[w].socket_sfd)
<1>1. /\ UNCHANGED <<clients, conn, backlog, reply, asked, running, file, fifo>>
      /\ running' \in BOOLEAN /\ file' \in [Fds -> Clients \cup Workers \cup {Free}]
      /\ thread[w].pc = "read"
  BY DEF ReadResponse, At, Typed, ProxyTyped
<1>2. thread[w] \in Locals
  BY DEF Typed, ProxyTyped
<1>3. ASSUME NEW a \in Answers, ClientsTyped', ServersTyped',
             Become(w, [thread[w] EXCEPT !.new_buf = Append(thread[w].new_buf, a)])
      PROVE  Typed'
  <2> DEFINE b == Append(thread[w].new_buf, a)
             l == [thread[w] EXCEPT !.new_buf = b]
  <2>1. b \in Seq(Answers)
    BY <1>2, FieldTypes, AppendProperties
  <2> HIDE DEF b
  <2>2. l \in Locals /\ l.pc # "connect"
    BY <1>1, <1>2, <2>1 DEF Locals
  <2>3. Become(w, l)
    BY <1>3 DEF b
  <2> HIDE DEF l
  <2> QED BY <1>1, <1>3, <2>2, <2>3, WorkerTyped
<1>4. CASE /\ x \in Workers /\ answer[x] = "sent"
           /\ \E after \in {"reset", "end"} : answer' = [answer EXCEPT ![x] = after]
           /\ Become(w, [thread[w] EXCEPT !.new_buf = Append(thread[w].new_buf, Head(asked[x]))])
           /\ UNCHANGED recvd
  <2> HIDE DEF x
  <2>1. asked[x] \in Seq(Answers) /\ asked[x] # <<>>
    BY <1>4 DEF Typed, ServersTyped
  <2>2. Head(asked[x]) \in Answers
    BY <2>1, HeadTailProperties
  <2>3. ServersTyped'
    BY <1>1, <1>4 DEF Typed, ServersTyped
  <2> QED BY <1>1, <1>3, <1>4, <2>2, <2>3, SameClients
<1>5. CASE /\ x \in Workers /\ answer' = [answer EXCEPT ![x] = "end"]
           /\ Become(w, [thread[w] EXCEPT !.short = 1]) /\ UNCHANGED recvd
  <2> DEFINE l == [thread[w] EXCEPT !.short = 1]
  <2>1. l \in Locals /\ l.pc # "connect"
    BY <1>1, <1>2 DEF Locals
  <2>2. Become(w, l)
    BY <1>5
  <2> HIDE DEF l, x
  <2>3. ServersTyped'
    BY <1>1, <1>5 DEF Typed, ServersTyped
  <2> QED BY <1>1, <1>5, <2>1, <2>2, <2>3, SameClients, WorkerTyped
<1>6. CASE /\ x \in Clients /\ recvd' = [recvd EXCEPT ![x] = sent[x]]
           /\ Become(w, [thread[w] EXCEPT !.new_buf = Append(thread[w].new_buf, Junk)])
           /\ UNCHANGED answer
  <2> HIDE DEF x
  <2>1. sent[x] \in 0 .. 2
    BY <1>6 DEF Typed, ClientsTyped
  <2>2. ClientsTyped'
    BY <1>1, <1>6, <2>1 DEF Typed, ClientsTyped, clients
  <2>3. Junk \in Answers
    BY DEF Answers
  <2> QED BY <1>1, <1>3, <1>6, <2>2, <2>3, SameServers
<1>7. CASE (Goto(w, "reply") \/ Goto(w, "spin")) /\ UNCHANGED <<recvd, answer>>
  BY <1>1, <1>7, SameClients, SameServers, GoneTyped
<1> QED BY <1>4, <1>5, <1>6, <1>7 DEF ReadResponse, Goto

LEMMA CloseTypedStep ==
    ASSUME Typed, NEW w \in Workers, Close(w) \/ CloseSock(w)
    PROVE  Typed'
<1>1. UNCHANGED <<clients, backlog, network, running, fifo>>
  BY DEF Close, CloseSock, CloseLast
<1>2. CASE CloseFd(thread[w].new_sfd) /\ Goto(w, "closesock")
  BY <1>1, <1>2, ClosedTyped, GoneTyped
<1>3. CASE CloseFd(thread[w].socket_sfd) /\ Become(w, Returned(thread[w]))
  BY <1>1, <1>3, ReturnTyped
<1> QED BY <1>2, <1>3 DEF Close, CloseSock, CloseLast

LEMMA NextTyped == Typed /\ [Next]_vars => Typed'
<1> SUFFICES ASSUME Typed, [Next]_vars PROVE Typed'
  OBVIOUS
<1>1. CASE UNCHANGED vars
  BY <1>1, SameFifo, SameClients, SameServers DEF vars, Typed, ProxyTyped, network
<1>2. ASSUME NEW c \in Clients, ClientConnect(c) \/ ClientSend(c) \/ ClientQuit(c) PROVE Typed'
  BY <1>2, ConnectTyped, SendTyped
<1>3. ASSUME NEW w \in Workers, ServerAnswer(w) PROVE Typed'
  BY <1>3, ServerTyped
<1>4. CASE MainStep
  BY <1>4, AcceptTyped, BufferTyped DEF MainStep
<1>5. ASSUME NEW w \in Workers, WorkerStep(w) PROVE Typed'
  BY <1>5, BufferTyped, HandleTyped, RecvTyped, ParseTyped, ResolveTyped, SocketTyped,
     ConnectingTyped, NoAddressTyped, WriteRequestTyped, ReadResponseTyped, ReplyTyped,
     CloseTypedStep DEF WorkerStep
<1> QED BY <1>1, <1>2, <1>3, <1>4, <1>5 DEF Next

(* Every variable is well typed, with any number of clients and workers.    *)
THEOREM TypeCorrect == Spec => []TypeOK
<1>1. Typed => TypeOK
  BY TypedTypeOK
<1> QED BY <1>1, InitTyped, NextTyped, PTL DEF Spec

-----------------------------------------------------------------------------
(* Safety.  The client that a worker serves is a client's descriptor, or    *)
(* what accept returned when it failed, and no two workers serve the same.  *)
LEMMA ClientServed ==
    ASSUME Typed, Safe, NEW w \in Workers, thread[w].pc \in Serving
    PROVE  LET f == thread[w].new_sfd IN
           \/ f \in Fds /\ FileOf(f) = file[f] /\ file[f] \in Clients
           \/ f = BadFd /\ f \notin Fds /\ FileOf(f) = Free /\ Free \notin Clients
<1>1. thread[w].new_sfd \in Fds \cup {BadFd}
  BY DEF Safe, LocalOK, Serving
<1>2. thread[w].new_sfd \in Fds => file[thread[w].new_sfd] \in Clients
  BY DEF Safe, Owned, Handed, Handles
<1> QED BY <1>1, <1>2, TypesOK DEF FileOf, Types

LEMMA OneServes ==
    ASSUME Typed, Safe, NEW v \in Workers, NEW w \in Workers, v # w,
           thread[v].pc \in Serving, thread[w].pc \in Serving,
           FileOf(thread[w].new_sfd) \in Clients
    PROVE  FileOf(thread[v].new_sfd) # FileOf(thread[w].new_sfd)
<1> DEFINE f == thread[w].new_sfd
           g == thread[v].new_sfd
<1>1. SUFFICES ASSUME FileOf(g) = FileOf(f) PROVE FALSE
  OBVIOUS
<1>2. f \in Fds /\ FileOf(f) = file[f] /\ g \in Fds /\ FileOf(g) = file[g]
  BY <1>1, ClientServed
<1>3. f = g
  BY <1>1, <1>2 DEF Safe, Connected
<1>4. Handed(v, f) /\ Handed(w, f)
  BY <1>3 DEF Handed, Handles
<1> QED BY <1>2, <1>4 DEF Safe, Owned

(* The server's descriptor of a worker that has one is open for it.         *)
LEMMA ServerOpened ==
    ASSUME Typed, Safe, NEW w \in Workers, thread[w].pc \in Opened
    PROVE  LET f == thread[w].socket_sfd IN
           \/ f \in Fds /\ FileOf(f) = file[f] /\ file[f] = w /\ w \notin Clients
           \/ /\ f = BadFd /\ f \notin Fds /\ FileOf(f) = Free /\ Free \notin Clients
              /\ Free \notin Workers /\ thread[w].pc \in {"write", "read"}
<1>1. \/ thread[w].socket_sfd \in Fds
      \/ thread[w].socket_sfd = BadFd /\ thread[w].pc \in {"write", "read"}
  BY DEF Safe, LocalOK, Opened, Answering
<1>2. thread[w].socket_sfd \in Fds => file[thread[w].socket_sfd] = w
  BY DEF Safe, Owned
<1> QED BY <1>1, <1>2, TypesOK DEF FileOf, Types

(* A step in which nothing changes hands.                                   *)
SameHands ==
    /\ UNCHANGED <<fifo, file, conn, backlog, kind, sent, eof>>
    /\ \A w \in Workers : \A f \in Fds :
         /\ Handles(w, f)' <=> Handles(w, f)
         /\ thread'[w].socket_sfd = f /\ thread'[w].pc \in Opened
            <=> thread[w].socket_sfd = f /\ thread[w].pc \in Opened

LEMMA HandsKept ==
    ASSUME Typed, Safe, SameHands
    PROVE  (\A f \in Fds : Owned(f)') /\ Connected'
<1>1. \A f \in Fds : Owned(f)'
  <2> TAKE f \in Fds
  <2>1. Owned(f) /\ UNCHANGED <<file, queue, phase, val>>
    BY DEF Safe, SameHands, fifo
  <2>2. \A w \in Workers : Handed(w, f)' <=> Handed(w, f)
    BY <2>1 DEF SameHands, Handed
  <2>3. (InHand(f)' <=> InHand(f)) /\ (InQueue(f)' <=> InQueue(f))
    BY <2>1 DEF InHand, InQueue
  <2>4. \A w \in Workers : thread'[w].socket_sfd = f /\ thread'[w].pc \in Opened
                           <=> thread[w].socket_sfd = f /\ thread[w].pc \in Opened
    BY DEF SameHands
  <2> QED BY <2>1, <2>2, <2>3, <2>4 DEF Owned
<1>2. Connected'
  BY DEF Safe, Connected, SameHands
<1> QED BY <1>1, <1>2

(* A step of a worker for its client, in which nothing changes hands.       *)
LEMMA ServeSafe ==
    ASSUME Typed, Safe, NEW w \in Workers, NEW l \in Locals, Become(w, l),
           UNCHANGED <<fifo, file, conn, backlog, kind, sent, eof>>,
           thread[w].pc \in Serving, l.pc \in Serving, l.new_sfd = thread[w].new_sfd,
           \A f \in Fds : l.socket_sfd = f /\ l.pc \in Opened
                          <=> thread[w].socket_sfd = f /\ thread[w].pc \in Opened,
           \A v \in Workers : v # w => asked'[v] = asked[v] /\ answer'[v] = answer[v],
           \A c \in Clients : c # FileOf(l.new_sfd) => recvd'[c] = recvd[c] /\ reply'[c] = reply[c],
           LocalOK(l, phase[w], asked'[w], answer'[w]),
           \A c \in Clients : c = FileOf(l.new_sfd) /\ Whole(c) =>
               recvd'[c] \in {0, 2} /\ (reply'[c] = <<>> \/ Replied(c)'),
           ServesOK(w)'
    PROVE  Safe'
<1>1. /\ thread'[w] = l
      /\ \A v \in Workers : v # w => thread'[v] = thread[v]
  BY BecomeTyped DEF Typed, ProxyTyped
<1>2. SameHands
  BY <1>1 DEF SameHands, Handles
<1>3. (\A f \in Fds : Owned(f)') /\ Connected'
  BY <1>2, HandsKept
<1>4. \A v \in Workers : LocalOK(thread[v], phase[v], asked[v], answer[v])'
  BY <1>1 DEF Safe, fifo
<1> DEFINE c == FileOf(l.new_sfd)
<1>5. \A d \in Clients : ClientOK(d)'
  <2> TAKE d \in Clients
  <2>1. ClientOK(d) /\ (Whole(d)' <=> Whole(d))
    BY DEF Safe, Whole
  <2>2. CASE d # c
    <3>1. recvd'[d] = recvd[d] /\ reply'[d] = reply[d]
      BY <2>2
    <3>2. \A f \in Fds : \A v \in Workers : Handles(v, f)' <=> Handles(v, f)
      BY <1>2 DEF SameHands
    <3>3. (Fresh(d)' <=> Fresh(d)) /\ (Replied(d)' <=> Replied(d))
      BY <3>1 DEF Fresh, Replied
    <3> QED BY <2>1, <3>1, <3>2, <3>3 DEF ClientOK
  <2>3. CASE d = c
    <3>1. l.new_sfd \in Fds /\ file[l.new_sfd] = d
      BY <2>3, ClientServed
    <3>2. conn[d] = "open"
      BY <3>1 DEF Safe, Connected
    <3>3. \A f \in Fds : file[f] = d => Handles(w, f)'
      BY <1>1, <3>1 DEF Safe, Connected, Handles
    <3> QED BY <2>1, <2>3, <3>2, <3>3 DEF ClientOK
  <2> QED BY <2>2, <2>3
<1>6. \A v \in Workers : ServesOK(v)'
  <2> SUFFICES ASSUME NEW v \in Workers, v # w PROVE ServesOK(v)'
    OBVIOUS
  <2> DEFINE d == FileOf(thread[v].new_sfd)
  <2>1. ServesOK(v) /\ thread'[v] = thread[v]
    BY <1>1 DEF Safe
  <2>2. FileOf(thread[v].new_sfd)' = d
    BY <2>1 DEF FileOf, Fds
  <2>3. thread[v].pc \in Serving /\ d \in Clients => d # c
    BY OneServes
  <2>4. thread[v].pc \in Serving /\ d \in Clients => recvd'[d] = recvd[d] /\ reply'[d] = reply[d]
    BY <2>3
  <2> QED BY <2>1, <2>2, <2>4 DEF ServesOK, Serving, Begun, Whole, Fresh
<1> QED BY <1>3, <1>4, <1>5, <1>6 DEF Safe

LEMMA InitSafe == Init => Safe
<1> SUFFICES ASSUME Init PROVE Safe
  OBVIOUS
<1>1. \A w \in Workers :
        /\ thread[w].pc = "sbuf" /\ thread[w].new_sfd = 0 /\ thread[w].nread = 0
        /\ thread[w].rp = 0 /\ thread[w].socket_sfd = 0 /\ thread[w].new_buf = <<>>
  BY DEF Init
<1>2. /\ phase = [t \in {Main} \cup Workers |-> "idle"] /\ queue = <<>>
      /\ file = [f \in Fds |-> Free] /\ backlog = <<>>
  BY DEF Init, Q!Init, Q!Threads
<1>3. \A f \in Fds : Owned(f)
  BY <1>1, <1>2, TypesOK DEF Owned, InHand, InQueue, Handed, Handles, Serving, Opened, Types
<1>4. Connected
  BY <1>2, TypesOK DEF Connected, Types
<1>5. \A w \in Workers : LocalOK(thread[w], phase[w], asked[w], answer[w])
  BY <1>1 DEF LocalOK, Socketless, Answering
<1>6. \A c \in Clients : ClientOK(c)
  BY DEF Init, ClientOK, Fresh
<1>7. \A w \in Workers : ServesOK(w)
  BY <1>1 DEF ServesOK, Begun
<1> QED BY <1>3, <1>4, <1>5, <1>6, <1>7 DEF Safe

(* The clients and the servers.                                             *)
LEMMA HandsUntouched ==
    ASSUME UNCHANGED <<fifo, file, thread>>
    PROVE  /\ \A f \in Fds : Owned(f)' <=> Owned(f)
           /\ \A f \in Fds : \A w \in Workers : Handles(w, f)' <=> Handles(w, f)
           /\ \A w \in Workers : FileOf(thread[w].new_sfd)' = FileOf(thread[w].new_sfd)
BY DEF fifo, Owned, InHand, InQueue, Handed, Handles, FileOf, Fds

LEMMA ConnectSafe ==
    ASSUME Typed, Safe, NEW c \in Clients, ClientConnect(c)
    PROVE  Safe'
<1>1. /\ UNCHANGED <<kind, sent, eof, recvd, reply, asked, answer, file, thread, fifo>>
      /\ conn' = [conn EXCEPT ![c] = "pending"] /\ conn[c] = "none"
      /\ backlog' = Append(backlog, c) /\ conn \in [Clients -> {"none", "pending", "open", "closed"}]
      /\ backlog \in Seq(Clients)
  BY DEF ClientConnect, clients, network, Typed, ClientsTyped
<1>2. \A f \in Fds : Owned(f)'
  BY <1>1, HandsUntouched DEF Safe
<1>3. Connected'
  <2>1. \A f \in Fds : file[f] \in Clients => file[f] # c
    BY <1>1 DEF Safe, Connected
  <2>2. \A i \in DOMAIN backlog : backlog[i] # c /\ backlog[i] \in Clients
    BY <1>1 DEF Safe, Connected
  <2>3. /\ Len(backlog') = Len(backlog) + 1 /\ Len(backlog) \in Nat
        /\ \A i \in 1 .. Len(backlog) : backlog'[i] = backlog[i]
        /\ backlog'[Len(backlog) + 1] = c
        /\ DOMAIN backlog = 1 .. Len(backlog) /\ DOMAIN backlog' = 1 .. Len(backlog')
    BY <1>1, AppendProperties
  <2>4. \A i \in DOMAIN backlog' : i \in DOMAIN backlog \/ i = Len(backlog) + 1
    BY <2>3
  <2>5. \A i, j \in DOMAIN backlog' : backlog'[i] = backlog'[j] => i = j
    BY <2>2, <2>3, <2>4 DEF Safe, Connected
  <2>6. \A i \in DOMAIN backlog' : conn'[backlog'[i]] = "pending"
    BY <1>1, <2>2, <2>3, <2>4 DEF Safe, Connected
  <2>7. /\ \A f, g \in Fds : file[f] \in Clients /\ file[f] = file[g] => f = g
        /\ \A f \in Fds : file[f] \in Clients => conn'[file[f]] = "open"
    BY <1>1, <2>1 DEF Safe, Connected
  <2> QED BY <1>1, <2>5, <2>6, <2>7 DEF Connected
<1>4. \A w \in Workers : LocalOK(thread[w], phase[w], asked[w], answer[w])'
  BY <1>1 DEF Safe, fifo
<1>5. \A d \in Clients : ClientOK(d)'
  <2> TAKE d \in Clients
  <2>1. ClientOK(d) /\ \A f \in Fds : \A w \in Workers : Handles(w, f)' <=> Handles(w, f)
    BY <1>1, HandsUntouched DEF Safe
  <2>2. conn'[d] \in {"none", "pending"} => conn[d] \in {"none", "pending"}
    BY <1>1
  <2> QED BY <1>1, <2>1, <2>2 DEF ClientOK, Whole, Fresh, Replied
<1>6. \A w \in Workers : ServesOK(w)'
  BY <1>1, HandsUntouched DEF Safe, ServesOK, Whole, Fresh
<1> QED BY <1>2, <1>3, <1>4, <1>5, <1>6 DEF Safe

LEMMA SendSafe ==
    ASSUME Typed, Safe, NEW c \in Clients, ClientSend(c) \/ ClientQuit(c)
    PROVE  Safe'
<1>1. UNCHANGED <<kind, conn, backlog, recvd, reply, asked, answer, file, thread, fifo>>
  BY DEF ClientSend, ClientQuit, network
<1>2. /\ \A d \in Clients : eof[d] => eof'[d]
      /\ \A d \in Clients : eof'[d] => eof[d] \/ kind[d] = "quits"
      /\ \A d \in Clients : Whole(d) => sent'[d] \in {sent[d], 2}
  BY DEF ClientSend, ClientQuit, Whole, Typed, ClientsTyped
<1>3. (\A f \in Fds : Owned(f)') /\ Connected'
  BY <1>1, HandsUntouched DEF Safe, Connected
<1>4. \A w \in Workers : LocalOK(thread[w], phase[w], asked[w], answer[w])'
  BY <1>1 DEF Safe, fifo
<1>5. \A d \in Clients : ClientOK(d)'
  <2> TAKE d \in Clients
  <2>1. ClientOK(d) /\ \A f \in Fds : \A w \in Workers : Handles(w, f)' <=> Handles(w, f)
    BY <1>1, HandsUntouched DEF Safe
  <2> QED BY <1>1, <1>2, <2>1 DEF ClientOK, Whole, Fresh, Replied
<1>6. \A w \in Workers : ServesOK(w)'
  BY <1>1, <1>2, HandsUntouched DEF Safe, ServesOK, Whole, Fresh
<1> QED BY <1>3, <1>4, <1>5, <1>6 DEF Safe

LEMMA ServerSafe ==
    ASSUME Typed, Safe, NEW w \in Workers, ServerAnswer(w)
    PROVE  Safe'
<1>1. UNCHANGED <<kind, sent, eof, conn, backlog, recvd, reply, asked, file, thread, fifo>>
  BY DEF ServerAnswer, clients
<1>2. answer' = [answer EXCEPT ![w] = "sent"] /\ asked[w] # <<>> /\ answer[w] = "no"
  BY DEF ServerAnswer
<1>3. (\A f \in Fds : Owned(f)') /\ Connected'
  BY <1>1, HandsUntouched DEF Safe, Connected
<1>4. \A v \in Workers : LocalOK(thread[v], phase[v], asked[v], answer[v])'
  <2> TAKE v \in Workers
  <2>1. LocalOK(thread[v], phase[v], asked[v], answer[v])
    BY DEF Safe
  <2>2. LocalOK(thread[v], phase[v], asked[v], answer'[v])
    BY <1>2, <2>1 DEF LocalOK, Typed, ServersTyped
  <2> QED BY <1>1, <2>2 DEF fifo
<1>5. \A d \in Clients : ClientOK(d)'
  BY <1>1, HandsUntouched DEF Safe, ClientOK, Whole, Fresh, Replied
<1>6. \A v \in Workers : ServesOK(v)'
  BY <1>1, HandsUntouched DEF Safe, ServesOK, Whole, Fresh
<1> QED BY <1>3, <1>4, <1>5, <1>6 DEF Safe

(* The main thread.                                                         *)
LEMMA AcceptSafe ==
    ASSUME Typed, Safe, MainAccept
    PROVE  Safe'
<1>1. /\ UNCHANGED <<kind, sent, eof, recvd, reply, asked, answer, thread, queue>>
      /\ phase[Main] = "idle" /\ phase' = [phase EXCEPT ![Main] = "called"]
  BY DEF MainAccept, Q!BeginInsert, clients, network
<1>2. \A w \in Workers : phase'[w] = phase[w]
  BY <1>1, TypesOK DEF Types
<1>3. \A w \in Workers : LocalOK(thread[w], phase[w], asked[w], answer[w])'
  BY <1>1, <1>2 DEF Safe
<1>4. /\ \A f \in Fds : \A w \in Workers : Handles(w, f)' <=> Handles(w, f)
      /\ \A f \in Fds : InQueue(f)' <=> InQueue(f)
      /\ \A f \in Fds : ~InHand(f)
  BY <1>1 DEF Handles, InQueue, InHand
<1>5. CASE /\ FreeFds # {} /\ backlog # <<>>
           /\ file' = [file EXCEPT ![Lowest(FreeFds)] = Head(backlog)]
           /\ conn' = [conn EXCEPT ![Head(backlog)] = "open"]
           /\ backlog' = Tail(backlog)
           /\ Q!BeginInsert(Main, Lowest(FreeFds))
  <2> DEFINE a == Lowest(FreeFds)
             c == Head(backlog)
  <2>1. a \in Fds /\ file[a] = Free
    BY <1>5, LowestOK DEF FreeFds
  <2>2. /\ c = backlog[1] /\ c \in Clients /\ 1 \in DOMAIN backlog
        /\ \A i \in DOMAIN backlog' : i + 1 \in DOMAIN backlog /\ i + 1 # 1 /\ i \in Nat
                                      /\ backlog'[i] = backlog[i + 1] /\ backlog[i + 1] \in Clients
    <3>1. backlog \in Seq(Clients) /\ backlog # <<>> /\ backlog' = Tail(backlog)
      BY <1>5 DEF Typed, ClientsTyped
    <3>2. /\ backlog' \in Seq(Clients) /\ Len(backlog') = Len(backlog) - 1 /\ Len(backlog) \in Nat
          /\ \A i \in 1 .. Len(Tail(backlog)) : Tail(backlog)[i] = backlog[i + 1]
      BY <3>1, HeadTailProperties
    <3>3. DOMAIN backlog = 1 .. Len(backlog) /\ DOMAIN backlog' = 1 .. Len(backlog')
          /\ Len(backlog) # 0
      BY <3>1, <3>2, EmptySeq
    <3> QED BY <3>1, <3>2, <3>3
  <2>3. conn[c] = "pending" /\ \A i \in DOMAIN backlog' : conn[backlog'[i]] = "pending" /\ backlog'[i] # c
    BY <2>2 DEF Safe, Connected
  <2>4. /\ file' = [file EXCEPT ![a] = c] /\ conn' = [conn EXCEPT ![c] = "open"]
        /\ phase'[Main] = "called" /\ val' = [val EXCEPT ![Main] = a]
    BY <1>1, <1>5, TypesOK DEF Q!BeginInsert, Typed, Q!FifoTypeOK, Q!Threads
  <2> HIDE DEF a, c
  <2>5. /\ file \in [Fds -> Clients \cup Workers \cup {Free}] /\ Free \notin Clients
        /\ Free \notin Workers /\ Clients \cap Workers = {} /\ Main \notin Workers
        /\ conn \in [Clients -> {"none", "pending", "open", "closed"}]
        /\ val \in [{Main} \cup Workers -> Fds \cup {BadFd, 0}]
    BY TypesOK DEF Types, Typed, ProxyTyped, ClientsTyped, Q!FifoTypeOK, Q!Threads
  <2>6. /\ \A f \in Fds : \A w \in Workers : Handed(w, f)' <=> Handed(w, f)
        /\ \A w \in Workers : ~Handed(w, a)
        /\ ~InQueue(a)
    BY <1>2, <1>4, <2>1, <2>4, <2>5 DEF Handed, Safe, Owned
  <2>7. \A f \in Fds : Owned(f)'
    <3> TAKE f \in Fds
    <3>1. InHand(f)' <=> f = a
      BY <2>4, <2>5 DEF InHand
    <3>2. Owned(f) /\ (InQueue(f)' <=> InQueue(f)) /\ UNCHANGED <<queue, thread>> /\ ~InHand(f)
      BY <1>1, <1>4 DEF Safe
    <3>3. CASE f = a
      <4>1. file'[f] = c /\ \A w \in Workers : file'[f] # w /\ file[f] # w
        BY <2>1, <2>2, <2>4, <2>5, <3>3
      <4> QED BY <2>2, <2>6, <3>1, <3>2, <3>3, <4>1 DEF Owned
    <3>4. CASE f # a
      <4>1. file'[f] = file[f]
        BY <2>4, <2>5, <3>4
      <4> QED BY <2>6, <3>1, <3>2, <3>4, <4>1 DEF Owned
    <3> QED BY <3>3, <3>4
  <2>8. /\ \A f \in Fds : f # a => file'[f] = file[f]
        /\ file'[a] = c
        /\ \A f \in Fds : file[f] \in Clients => file[f] # c
    BY <2>1, <2>3, <2>4, <2>5 DEF Safe, Connected
  <2>9. Connected'
    <3>1. \A f, g \in Fds : file'[f] \in Clients /\ file'[f] = file'[g] => f = g
      BY <2>2, <2>8 DEF Safe, Connected
    <3>2. \A f \in Fds : file'[f] \in Clients => conn'[file'[f]] = "open"
      BY <2>2, <2>4, <2>5, <2>8 DEF Safe, Connected
    <3>3. \A i, j \in DOMAIN backlog' : backlog'[i] = backlog'[j] => i = j
      BY <2>2 DEF Safe, Connected
    <3>4. \A i \in DOMAIN backlog' : conn'[backlog'[i]] = "pending"
      BY <2>2, <2>3, <2>4, <2>5
    <3> QED BY <3>1, <3>2, <3>3, <3>4 DEF Connected
  <2>10. \A d \in Clients : ClientOK(d)'
    <3> TAKE d \in Clients
    <3>1. ClientOK(d) /\ (d = c => Fresh(d))
      BY <2>3 DEF Safe, ClientOK
    <3>2. /\ d # c => conn'[d] = conn[d]
          /\ d # c => \A f \in Fds : file'[f] = d => file[f] = d
      BY <2>4, <2>5, <2>8
    <3> QED BY <1>1, <1>4, <3>1, <3>2 DEF ClientOK, Whole, Fresh, Replied
  <2>11. \A w \in Workers : ServesOK(w)'
    <3> TAKE w \in Workers
    <3>1. ServesOK(w) /\ thread'[w] = thread[w]
      BY <1>1 DEF Safe
    <3>2. thread[w].pc \in Serving => thread[w].new_sfd # a
      BY <2>1, <2>5, ClientServed
    <3>3. thread[w].pc \in Serving => FileOf(thread[w].new_sfd)' = FileOf(thread[w].new_sfd)
      BY <2>8, <3>1, <3>2 DEF FileOf, Fds
    <3> QED BY <1>1, <3>1, <3>3 DEF ServesOK, Serving, Begun, Whole, Fresh
  <2> QED BY <1>3, <2>7, <2>9, <2>10, <2>11 DEF Safe
<1>6. CASE Q!BeginInsert(Main, BadFd) /\ UNCHANGED <<conn, backlog, file>>
  <2>1. \A f \in Fds : \A w \in Workers : Handed(w, f)' <=> Handed(w, f)
    BY <1>2, <1>4, <1>6, TypesOK DEF Handed, Q!BeginInsert, Types
  <2>2. \A f \in Fds : ~InHand(f)'
    BY <1>6, TypesOK DEF InHand, Q!BeginInsert, Types, Typed, Q!FifoTypeOK, Q!Threads
  <2>3. \A f \in Fds : Owned(f)'
    BY <1>1, <1>4, <1>6, <2>1, <2>2 DEF Safe, Owned
  <2>4. Connected' /\ \A d \in Clients : ClientOK(d)'
    BY <1>1, <1>4, <1>6 DEF Safe, Connected, ClientOK, Whole, Fresh, Replied
  <2>5. \A w \in Workers : ServesOK(w)'
    BY <1>1, <1>6 DEF Safe, ServesOK, Whole, Fresh, FileOf, Fds
  <2> QED BY <1>3, <2>3, <2>4, <2>5 DEF Safe
<1> QED BY <1>5, <1>6 DEF MainAccept

(* A call on the buffer that leaves every descriptor with one holder.       *)
LEMMA BufferSafe ==
    ASSUME Typed, Safe, UNCHANGED <<clients, conn, backlog, network, file, thread>>,
           \A f \in Fds : Owned(f)',
           \A w \in Workers : phase'[w] = phase[w] \/ thread[w].pc = "sbuf"
    PROVE  Safe'
<1>1. Connected' /\ \A d \in Clients : ClientOK(d)'
  BY DEF Safe, Connected, ClientOK, Whole, Fresh, Replied, Handles, clients, network
<1>2. \A w \in Workers : ServesOK(w)'
  BY DEF Safe, ServesOK, Whole, Fresh, FileOf, Fds, clients, network
<1>3. \A w \in Workers : LocalOK(thread[w], phase[w], asked[w], answer[w])'
  <2> TAKE w \in Workers
  <2>1. LocalOK(thread[w], phase[w], asked[w], answer[w])
    BY DEF Safe
  <2>2. LocalOK(thread[w], phase'[w], asked[w], answer[w])
    BY <2>1 DEF LocalOK
  <2> QED BY <2>2 DEF network
<1> QED BY <1>1, <1>2, <1>3 DEF Safe

LEMMA InsertSafe ==
    ASSUME Typed, Safe, MainInsert
    PROVE  Safe'
<1>1. UNCHANGED <<clients, conn, backlog, network, running, file, thread>>
  BY DEF MainInsert
<1>2. /\ \A w \in Workers : phase'[w] = phase[w]
      /\ UNCHANGED val
  BY TypesOK DEF MainInsert, Q!Insert, Q!Return, Types, Typed, Q!FifoTypeOK, Q!Threads
<1>3. \A f \in Fds : \A w \in Workers : Handed(w, f)' <=> Handed(w, f)
  BY <1>1, <1>2 DEF Handed, Handles
<1>4. queue \in Seq(Fds \cup {BadFd}) /\ phase \in [{Main} \cup Workers -> {"idle", "called", "done"}]
  BY DEF Typed, Q!FifoTypeOK, Q!Threads
<1>5. \A f \in Fds : Owned(f)'
  <2> TAKE f \in Fds
  <2>1. Owned(f) /\ UNCHANGED <<file, thread>>
    BY <1>1 DEF Safe
  <2>2. CASE Q!Insert(Main)
    <3>1. /\ queue' = Append(queue, val[Main]) /\ phase[Main] = "called" /\ phase'[Main] = "done"
      BY <1>4, <2>2 DEF Q!Insert
    <3>2. val[Main] \in Fds \cup {BadFd}
      BY <3>1 DEF Typed, InCall
    <3>3. /\ \A i \in 1 .. Len(queue) : queue'[i] = queue[i]
          /\ queue'[Len(queue) + 1] = val[Main] /\ Len(queue) \in Nat
          /\ DOMAIN queue = 1 .. Len(queue) /\ DOMAIN queue' = 1 .. Len(queue) + 1
      BY <1>4, <3>1, <3>2, AppendProperties
    <3>4. \A i \in DOMAIN queue' : i \in DOMAIN queue \/ i = Len(queue) + 1
      BY <3>3
    <3>5. (InQueue(f)' <=> InQueue(f) \/ InHand(f)) /\ ~InHand(f)'
      BY <3>1, <3>3, <3>4 DEF InQueue, InHand
    <3>6. \A i, j \in DOMAIN queue' : queue'[i] = f /\ queue'[j] = f => i = j
      BY <2>1, <3>1, <3>3, <3>4 DEF Owned, InQueue, InHand
    <3> QED BY <1>3, <2>1, <3>5, <3>6 DEF Owned
  <2>3. CASE Q!Return(Main)
    <3>1. UNCHANGED queue /\ ~InHand(f) /\ ~InHand(f)'
      BY <1>4, <2>3 DEF Q!Return, InHand
    <3> QED BY <1>3, <2>1, <3>1 DEF Owned, InQueue
  <2> QED BY <2>2, <2>3 DEF MainInsert
<1> QED BY <1>1, <1>2, <1>5, BufferSafe

LEMMA TakeSafe ==
    ASSUME Typed, Safe, NEW w \in Workers, Take(w)
    PROVE  Safe'
<1>1. UNCHANGED <<clients, conn, backlog, network, running, file, thread>> /\ thread[w].pc = "sbuf"
  BY DEF Take, At
<1>2. /\ phase[w] # "done" /\ w # Main
      /\ phase'[w] = "done" => Q!Remove(w)
      /\ \A v \in Workers \cup {Main} : v # w => phase'[v] = phase[v] /\ val'[v] = val[v]
  BY TypesOK DEF Take, Q!BeginRemove, Q!Remove, Types, Typed, Q!FifoTypeOK, Q!Threads
<1>3. queue \in Seq(Fds \cup {BadFd}) /\ val \in [{Main} \cup Workers -> Fds \cup {BadFd, 0}]
  BY DEF Typed, Q!FifoTypeOK, Q!Threads
<1>4. \A f \in Fds : Owned(f)'
  <2> TAKE f \in Fds
  <2>1. Owned(f) /\ UNCHANGED <<file, thread>> /\ (InHand(f)' <=> InHand(f))
    BY <1>1, <1>2 DEF Safe, InHand
  <2>2. /\ ~Handed(w, f)
        /\ \A v \in Workers : v # w => (Handed(v, f)' <=> Handed(v, f))
    BY <1>1, <1>2 DEF Handed, Handles, Serving
  <2>3. CASE Q!Remove(w)
    <3>1. /\ queue' = Tail(queue) /\ queue # <<>> /\ val'[w] = Head(queue) /\ phase'[w] = "done"
      BY <1>3, <2>3 DEF Q!Remove, Typed, Q!FifoTypeOK, Q!Threads
    <3>2. /\ Head(queue) = queue[1] /\ 1 \in DOMAIN queue
          /\ \A i \in DOMAIN queue' : i + 1 \in DOMAIN queue /\ i + 1 # 1 /\ i \in Nat
                                      /\ queue'[i] = queue[i + 1]
          /\ \A i \in DOMAIN queue : i = 1 \/ (i - 1 \in DOMAIN queue' /\ queue'[i - 1] = queue[i])
      <4>1. /\ queue' \in Seq(Fds \cup {BadFd}) /\ Len(queue') = Len(queue) - 1
            /\ Len(queue) \in Nat /\ Head(queue) = queue[1]
            /\ \A i \in 1 .. Len(queue') : queue'[i] = queue[i + 1]
        BY <1>3, <3>1, HeadTailProperties
      <4>2. /\ DOMAIN queue = 1 .. Len(queue) /\ DOMAIN queue' = 1 .. Len(queue')
            /\ Len(queue) # 0
        BY <1>3, <3>1, <4>1, EmptySeq
      <4> QED BY <4>1, <4>2
    <3>3. /\ Handed(w, f)' <=> queue[1] = f
      BY <1>1, <3>1, <3>2 DEF Handed, Handles, Serving
    <3>4. InQueue(f) <=> InQueue(f)' \/ queue[1] = f
      BY <3>2 DEF InQueue
    <3>5. InQueue(f)' => queue[1] # f
      BY <2>1, <3>2 DEF InQueue, Owned
    <3>6. \A i, j \in DOMAIN queue' : queue'[i] = f /\ queue'[j] = f => i = j
      BY <2>1, <3>2 DEF Owned
    <3> QED BY <2>1, <2>2, <3>2, <3>3, <3>4, <3>5, <3>6 DEF Owned, InQueue
  <2>4. CASE ~Q!Remove(w)
    <3>1. UNCHANGED queue /\ ~Handed(w, f)'
      BY <1>1, <1>2, <2>4 DEF Take, Q!BeginRemove, Handed, Handles, Serving
    <3> QED BY <2>1, <2>2, <3>1 DEF Owned, InQueue
  <2> QED BY <2>3, <2>4
<1>5. \A v \in Workers : phase'[v] = phase[v] \/ thread[v].pc = "sbuf"
  BY <1>1, <1>2 DEF Typed, Q!FifoTypeOK, Q!Threads
<1> QED BY <1>1, <1>4, <1>5, BufferSafe

-----------------------------------------------------------------------------
(* The worker's steps.                                                      *)
LEMMA HandleSafe ==
    ASSUME Typed, Safe, NEW w \in Workers, Handle(w)
    PROVE  Safe'
<1> DEFINE l == [thread[w] EXCEPT !.pc = "recv", !.new_sfd = val[w]]
<1>1. /\ UNCHANGED <<kind, sent, eof, conn, backlog, recvd, reply, asked, answer, file, queue, val>>
      /\ thread[w].pc = "sbuf" /\ phase[w] = "done" /\ phase' = [phase EXCEPT ![w] = "idle"]
      /\ Become(w, l)
  BY DEF Handle, At, Q!Return, clients, network
<1>2. /\ val[w] \in Fds \cup {BadFd} /\ thread[w] \in Locals /\ w # Main
      /\ thread \in [Workers -> Locals] /\ DOMAIN phase = {Main} \cup Workers
  BY <1>1, TypesOK DEF Typed, ProxyTyped, InCall, Q!FifoTypeOK, Q!Threads, Types
<1>3. /\ l.pc = "recv" /\ l.new_sfd = val[w] /\ l.nread = thread[w].nread /\ l.rp = thread[w].rp
      /\ l.socket_sfd = thread[w].socket_sfd /\ l.new_buf = thread[w].new_buf
  BY <1>2 DEF Locals
<1>4. /\ thread'[w] = l /\ phase'[w] = "idle"
      /\ \A v \in Workers : v # w => thread'[v] = thread[v] /\ phase'[v] = phase[v]
      /\ phase'[Main] = phase[Main]
  BY <1>1, <1>2 DEF Become
<1> HIDE DEF l
<1>5. LocalOK(thread[w], phase[w], asked[w], answer[w])
  BY DEF Safe
<1>6. /\ \A f \in Fds : ~Handles(w, f) /\ (Handles(w, f)' <=> val[w] = f)
      /\ \A f \in Fds : \A v \in Workers : v # w => (Handles(v, f)' <=> Handles(v, f))
  BY <1>1, <1>3, <1>4 DEF Handles, Serving
<1>7. \A f \in Fds : \A v \in Workers : Handed(v, f)' <=> Handed(v, f)
  BY <1>1, <1>4, <1>6 DEF Handed
<1>8. \A f \in Fds : Owned(f)'
  <2> TAKE f \in Fds
  <2>1. Owned(f) /\ (InHand(f)' <=> InHand(f)) /\ (InQueue(f)' <=> InQueue(f)) /\ UNCHANGED <<file, queue>>
    BY <1>1, <1>4 DEF Safe, InHand, InQueue
  <2>2. \A v \in Workers : thread'[v].socket_sfd = f /\ thread'[v].pc \in Opened
                           <=> thread[v].socket_sfd = f /\ thread[v].pc \in Opened
    BY <1>1, <1>3, <1>4 DEF Opened
  <2> QED BY <1>7, <2>1, <2>2 DEF Owned
<1>9. Connected'
  BY <1>1 DEF Safe, Connected
<1>10. \A v \in Workers : LocalOK(thread[v], phase[v], asked[v], answer[v])'
  <2>1. LocalOK(l, "idle", asked[w], answer[w])
    BY <1>1, <1>2, <1>3, <1>5 DEF LocalOK, Socketless, Answering
  <2> QED BY <1>1, <1>4, <2>1 DEF Safe
<1>11. \A d \in Clients : ClientOK(d)'
  <2> TAKE d \in Clients
  <2>1. ClientOK(d)
    BY DEF Safe
  <2>2. \A f \in Fds : (\A v \in Workers : ~Handles(v, f)') => \A v \in Workers : ~Handles(v, f)
    BY <1>6
  <2> QED BY <1>1, <2>1, <2>2 DEF ClientOK, Whole, Fresh, Replied
<1>12. \A v \in Workers : ServesOK(v)'
  <2>1. ASSUME NEW v \in Workers, v # w PROVE ServesOK(v)'
    <3>1. ServesOK(v) /\ thread'[v] = thread[v]
      BY <1>4, <2>1 DEF Safe
    <3> QED BY <1>1, <3>1 DEF ServesOK, Whole, Fresh, FileOf, Fds
  <2>2. ServesOK(w)'
    <3>1. thread'[w].pc = "recv" /\ thread'[w].nread = 0 /\ thread'[w].new_sfd = val[w]
      BY <1>1, <1>3, <1>4, <1>5 DEF LocalOK
    <3>2. ASSUME val[w] \in Fds, file[val[w]] \in Clients PROVE Fresh(file[val[w]])
      <4>1. Handed(w, val[w])
        BY <1>1 DEF Handed
      <4>2. \A v \in Workers : ~Handles(v, val[w])
        BY <1>6, <3>2, <4>1 DEF Safe, Owned, Handed
      <4> QED BY <3>2, <4>2 DEF Safe, ClientOK
    <3>3. FileOf(val[w])' = FileOf(val[w]) /\ FileOf(val[w]) = IF val[w] \in Fds THEN file[val[w]] ELSE Free
      BY <1>1 DEF FileOf, Fds
    <3>4. FileOf(val[w]) \in Clients => Fresh(FileOf(val[w])) /\ UNCHANGED <<recvd, reply>>
      BY <1>1, <3>2, <3>3, TypesOK DEF Types
    <3>5. FileOf(thread[w].new_sfd)' = FileOf(val[w])
      BY <1>1, <3>1 DEF FileOf, Fds
    <3> QED BY <3>1, <3>4, <3>5 DEF ServesOK, Begun, Fresh
  <2> QED BY <2>1, <2>2
<1> QED BY <1>8, <1>9, <1>10, <1>11, <1>12 DEF Safe

(* A step of worker w that only goes elsewhere.                             *)
GoneTo(l, w, to) ==
    /\ l \in Locals /\ l.pc = to /\ l.new_sfd = thread[w].new_sfd /\ l.buf = thread[w].buf
    /\ l.nread = thread[w].nread /\ l.rp = thread[w].rp /\ l.new_buf = thread[w].new_buf
    /\ l.socket_sfd = thread[w].socket_sfd

LEMMA GoneFields ==
    ASSUME Typed, NEW w \in Workers, NEW to \in {"recv", "parse", "resolve", "socket", "connect",
               "write", "read", "reply", "close", "closesock", "spin"}
    PROVE  GoneTo([thread[w] EXCEPT !.pc = to], w, to)
<1>1. thread[w] \in Locals
  BY DEF Typed, ProxyTyped
<1> QED BY <1>1 DEF Locals, GoneTo

LEMMA GoneSafe ==
    ASSUME Typed, Safe, NEW w \in Workers, NEW to \in Serving, Goto(w, to),
           UNCHANGED <<clients, conn, backlog, network, file, fifo>>,
           thread[w].pc \in Serving,
           \A f \in Fds : thread[w].socket_sfd = f =>
               (to \in Opened <=> thread[w].pc \in Opened),
           LocalOK([thread[w] EXCEPT !.pc = to], phase[w], asked[w], answer[w]),
           \/ thread[w].pc \in Begun /\ to \in Begun
           \/ /\ to # "recv"
              /\ FileOf(thread[w].new_sfd) \in Clients => ~Whole(FileOf(thread[w].new_sfd))
              /\ to = "spin" /\ BadFd \notin {thread[w].new_sfd, thread[w].socket_sfd} =>
                    LET c == FileOf(thread[w].new_sfd)
                    IN  c \in Clients /\ kind[c] = "quits" /\ eof[c]
    PROVE  Safe'
<1> DEFINE l == [thread[w] EXCEPT !.pc = to]
           c == FileOf(thread[w].new_sfd)
<1>1. GoneTo(l, w, to)
  <2>1. to \in {"recv", "parse", "resolve", "socket", "connect",
                "write", "read", "reply", "close", "closesock", "spin"}
    BY DEF Serving
  <2> QED BY <2>1, GoneFields
<1>2. Become(w, l)
  BY DEF Goto
<1> HIDE DEF l
<1>3. thread'[w] = l /\ FileOf(thread[w].new_sfd)' = c
  BY <1>1, <1>2, BecomeTyped DEF Typed, ProxyTyped, FileOf, Fds, GoneTo
<1>4. UNCHANGED <<kind, sent, eof, recvd, reply, asked, answer>>
  BY DEF clients, network
<1>5. ServesOK(w)'
  <2>1. ServesOK(w)
    BY DEF Safe
  <2>2. CASE thread[w].pc \in Begun /\ to \in Begun
    BY <1>1, <1>3, <1>4, <2>1, <2>2 DEF ServesOK, Begun, Whole, GoneTo
  <2>3. CASE thread[w].pc \notin Begun \/ to \notin Begun
    BY <1>1, <1>3, <1>4, <2>3 DEF ServesOK, Begun, Whole, GoneTo
  <2> QED BY <2>2, <2>3
<1>6. \A d \in Clients : d = FileOf(l.new_sfd) /\ Whole(d) =>
         recvd'[d] \in {0, 2} /\ (reply'[d] = <<>> \/ Replied(d)')
  BY <1>4 DEF Safe, ClientOK, Replied
<1>7. LocalOK(l, phase[w], asked'[w], answer'[w])
  BY <1>4 DEF l
<1>8. \A f \in Fds : l.socket_sfd = f /\ l.pc \in Opened
                     <=> thread[w].socket_sfd = f /\ thread[w].pc \in Opened
  BY <1>1 DEF GoneTo
<1> QED BY <1>1, <1>2, <1>4, <1>5, <1>6, <1>7, <1>8, ServeSafe DEF GoneTo

LEMMA RecvSafe ==
    ASSUME Typed, Safe, NEW w \in Workers, Recv(w)
    PROVE  Safe'
<1> DEFINE x == FileOf(thread[w].new_sfd)
<1>1. /\ UNCHANGED <<kind, sent, eof, conn, backlog, reply, asked, running, file, fifo>>
      /\ thread[w].pc = "recv" /\ thread[w] \in Locals
  BY DEF Recv, At, clients, Typed, ProxyTyped
<1>2. /\ x \in Clients \/ x = Free
      /\ x \notin Workers
      /\ x = Free => thread[w].new_sfd = BadFd
      /\ x \in Clients => thread[w].new_sfd \in Fds
  BY <1>1, ClientServed, TypesOK DEF Serving, Types
<1>3. LocalOK(thread[w], phase[w], asked[w], answer[w]) /\ ServesOK(w)
  BY DEF Safe
<1>4. x \in Clients => ClientOK(x)
  BY DEF Safe
<1>5. CASE /\ x \in Clients /\ sent[x] > recvd[x] /\ RecvGot(w, sent[x] - recvd[x], x)
           /\ recvd' = [recvd EXCEPT ![x] = sent[x]] /\ UNCHANGED answer
  <2> DEFINE n == thread[w].nread
             k == sent[x] - recvd[x]
             new == [i \in 1 .. 2 |-> IF i \in n+1 .. n+k THEN x ELSE thread[w].buf[i]]
             m == IF n + k > 2 THEN 2 ELSE n + k
             to == IF Complete(new) THEN "parse" ELSE "recv"
             l == [thread[w] EXCEPT !.buf = new, !.nread = m, !.pc = to]
  <2>1. /\ thread[w].buf \in Cells \X Cells /\ n \in 0 .. 2 /\ x \in Cells
        /\ sent[x] \in 0 .. 2 /\ recvd[x] \in 0 .. 2
    BY <1>1, <1>5 DEF Locals, Requests, Cells, Typed, ClientsTyped
  <2>2. new = <<new[1], new[2]>> /\ new[1] \in Cells /\ new[2] \in Cells
    BY <2>1
  <2>3. m \in 0 .. 2 /\ to \in {"parse", "recv"}
    BY <1>5, <2>1
  <2>4. Become(w, l) /\ recvd' = [recvd EXCEPT ![x] = sent[x]]
    BY <1>5 DEF RecvGot
  <2>5. to = "parse" => new[1] # None
    BY <2>2, PoolAssumption DEF Complete
  <2>6. Whole(x) => /\ Fresh(x) /\ n = 0 /\ k = 2 /\ sent[x] = 2
                    /\ new = <<x, x>> /\ to = "parse"
    <3>1. SUFFICES ASSUME Whole(x)
                   PROVE  /\ Fresh(x) /\ n = 0 /\ k = 2 /\ sent[x] = 2
                          /\ new = <<x, x>> /\ to = "parse"
      OBVIOUS
    <3>2. Fresh(x) /\ n = 0 /\ k = 2 /\ sent[x] = 2
      BY <1>1, <1>3, <1>4, <1>5, <3>1 DEF ServesOK, ClientOK, Fresh
    <3>3. new = <<x, x>>
      BY <3>2
    <3>4. x # None
      BY <1>5, PoolAssumption
    <3> HIDE DEF x, new
    <3> QED BY <3>2, <3>3, <3>4 DEF Complete
  <2> HIDE DEF new, m, to, k
  <2>7. new \in Requests
    BY <2>2 DEF Requests
  <2>8. /\ l \in Locals /\ l.pc = to /\ l.new_sfd = thread[w].new_sfd /\ l.buf = new
        /\ l.nread = m /\ l.rp = thread[w].rp /\ l.new_buf = thread[w].new_buf
        /\ l.socket_sfd = thread[w].socket_sfd
    BY <1>1, <2>3, <2>7 DEF Locals
  <2> HIDE DEF l
  <2>9. LocalOK(l, phase[w], asked'[w], answer'[w])
    BY <1>1, <1>3, <1>5, <2>3, <2>5, <2>8 DEF LocalOK, Socketless, Answering
  <2>10. thread'[w] = l /\ FileOf(thread[w].new_sfd)' = x
    BY <1>1, <2>4, <2>8, BecomeTyped DEF Typed, ProxyTyped, FileOf, Fds
  <2>11. recvd'[x] = sent[x] /\ \A c \in Clients : c # x => recvd'[c] = recvd[c]
    BY <1>5, <2>4 DEF Typed, ClientsTyped
  <2> HIDE DEF x
  <2>12. ServesOK(w)'
    <3>1. (\A c \in Clients : Whole(c)' <=> Whole(c)) /\ x \in Clients
      BY <1>1, <1>5 DEF Whole
    <3>2. CASE ~Whole(x)
      BY <2>3, <2>8, <2>10, <3>1, <3>2 DEF ServesOK, Begun
    <3>3. CASE Whole(x)
      BY <1>1, <2>6, <2>8, <2>10, <3>3 DEF ServesOK, Begun, Fresh
    <3> QED BY <3>2, <3>3
  <2>13. \A c \in Clients : c = x /\ Whole(c) =>
             recvd'[c] \in {0, 2} /\ (reply'[c] = <<>> \/ Replied(c)')
    BY <1>1, <2>6, <2>11 DEF Fresh
  <2>14. \A f \in Fds : l.socket_sfd = f /\ l.pc \in Opened
                        <=> thread[w].socket_sfd = f /\ thread[w].pc \in Opened
    BY <1>1, <2>3, <2>8 DEF Opened
  <2>15. thread[w].pc \in Serving /\ l.pc \in Serving
    BY <1>1, <2>3, <2>8 DEF Serving
  <2>16. FileOf(l.new_sfd) = x
    BY <2>8 DEF x
  <2> QED BY <1>1, <1>5, <2>4, <2>8, <2>9, <2>11, <2>12, <2>13, <2>14, <2>15, <2>16, ServeSafe
<1>6. CASE /\ x = Free \/ (x \in Clients /\ eof[x])
           /\ RecvNothing(w) /\ UNCHANGED <<recvd, answer>>
  <2> DEFINE to == IF Complete(thread[w].buf) THEN "parse" ELSE "spin"
             l == [thread[w] EXCEPT !.pc = to]
  <2>1. Goto(w, to)
    BY <1>6 DEF RecvNothing
  <2>2. to \in {"parse", "spin"} /\ (to = "parse" => thread[w].buf[1] # None)
    BY PoolAssumption DEF Complete
  <2> HIDE DEF to
  <2>3. GoneTo(l, w, to)
    BY <2>2, GoneFields
  <2> HIDE DEF l
  <2>4. LocalOK(l, phase[w], asked[w], answer[w])
    BY <1>1, <1>3, <2>2, <2>3 DEF LocalOK, Socketless, Answering, GoneTo
  <2>5. to \in Serving /\ thread[w].pc \in Serving /\ to \notin Opened /\ thread[w].pc \notin Opened
        /\ to # "recv"
    BY <1>1, <2>2 DEF Serving, Opened
  <2>6. /\ x \in Clients => kind[x] = "quits" /\ eof[x] /\ ~Whole(x)
        /\ BadFd \notin {thread[w].new_sfd, thread[w].socket_sfd} => x \in Clients
    BY <1>2, <1>4, <1>6, TypesOK DEF ClientOK, Whole, Types
  <2>7. LocalOK([thread[w] EXCEPT !.pc = to], phase[w], asked[w], answer[w])
    BY <2>4 DEF l
  <2>8. UNCHANGED <<clients, conn, backlog, network, file, fifo>>
    BY <1>1, <1>6 DEF clients, network
  <2> QED BY <2>1, <2>5, <2>6, <2>7, <2>8, GoneSafe
<1> QED BY <1>2, <1>5, <1>6 DEF Recv

LEMMA AcceptedSafe ==
    ASSUME Typed, Safe, NEW w \in Workers, Parse(w), Accepts(w)
    PROVE  Safe'
<1> DEFINE l == [thread[w] EXCEPT !.pc = "resolve"]
<1>1. /\ UNCHANGED <<clients, conn, backlog, network, file, fifo>> /\ Goto(w, "resolve")
      /\ thread[w].pc = "parse" /\ LocalOK(thread[w], phase[w], asked[w], answer[w])
      /\ thread[w] \in Locals
  BY DEF Parse, Accepts, At, Safe, Typed, ProxyTyped
<1>2. GoneTo(l, w, "resolve")
  BY GoneFields
<1>3. thread[w].buf[1] \in Clients
  BY <1>1 DEF LocalOK, Accepts, Rejected, Locals, Requests, Cells
<1> HIDE DEF l
<1>4. LocalOK(l, phase[w], asked[w], answer[w])
  BY <1>1, <1>2, <1>3 DEF LocalOK, Socketless, Answering, GoneTo
<1>5. LocalOK([thread[w] EXCEPT !.pc = "resolve"], phase[w], asked[w], answer[w])
  BY <1>4 DEF l
<1> QED BY <1>1, <1>5, GoneSafe DEF Serving, Opened, Begun

(* A crash leaves everything as it was.                                     *)
LEMMA SegfaultSafe ==
    ASSUME Typed, Safe, NEW w \in Workers, Parse(w), Segfault(w)
    PROVE  Safe'
<1>1. UNCHANGED <<clients, conn, backlog, network, file, thread, fifo>>
  BY DEF Parse, Segfault
<1> QED BY <1>1, HandsUntouched
        DEF Safe, Connected, ClientOK, ServesOK, Whole, Fresh, Replied, clients, network, fifo

LEMMA ResolveSafe ==
    ASSUME Typed, Safe, NEW w \in Workers, Resolve(w)
    PROVE  Safe'
<1> DEFINE l == [thread[w] EXCEPT !.pc = "socket"]
<1>1. /\ UNCHANGED <<clients, conn, backlog, network, file, fifo>>
      /\ thread[w].pc = "resolve" /\ LocalOK(thread[w], phase[w], asked[w], answer[w])
  BY DEF Resolve, At, Safe
<1>2. CASE Goto(w, "socket")
  <2>1. GoneTo(l, w, "socket")
    BY GoneFields
  <2> HIDE DEF l
  <2>2. LocalOK(l, phase[w], asked[w], answer[w])
    BY <1>1, <2>1 DEF LocalOK, Socketless, Answering, GoneTo
  <2>3. LocalOK([thread[w] EXCEPT !.pc = "socket"], phase[w], asked[w], answer[w])
    BY <2>2 DEF l
  <2> QED BY <1>1, <1>2, <2>3, GoneSafe DEF Serving, Opened, Begun
<1>3. CASE UNCHANGED thread
  BY <1>1, <1>3, HandsUntouched
     DEF Safe, Connected, ClientOK, ServesOK, Whole, Fresh, Replied, clients, network, fifo
<1> QED BY <1>2, <1>3 DEF Resolve

LEMMA NoSocketSafe ==
    ASSUME Typed, Safe, NEW w \in Workers, Socket(w), FreeFds = {}
    PROVE  Safe'
<1> DEFINE r == thread[w].rp + 1
           l == [thread[w] EXCEPT !.socket_sfd = BadFd, !.rp = r]
<1>1. /\ UNCHANGED <<kind, sent, eof, recvd, reply, asked, answer, conn, backlog, file, fifo>>
      /\ Become(w, l) /\ thread[w].pc = "socket" /\ thread[w].rp < Addresses
      /\ LocalOK(thread[w], phase[w], asked[w], answer[w]) /\ ServesOK(w)
      /\ thread[w] \in Locals
  BY DEF Socket, At, Safe, clients, Typed, ProxyTyped
<1>2. r \in 0 .. Addresses /\ r # 0
  BY <1>1, FieldTypes, TypesOK DEF Types
<1> HIDE DEF r
<1>3. /\ l \in Locals /\ l.pc = "socket" /\ l.new_sfd = thread[w].new_sfd /\ l.buf = thread[w].buf
      /\ l.rp = r /\ l.socket_sfd = BadFd /\ l.new_buf = thread[w].new_buf
  BY <1>1, <1>2 DEF Locals
<1> HIDE DEF l
<1>4. LocalOK(l, phase[w], asked'[w], answer'[w])
  BY <1>1, <1>2, <1>3, TypesOK DEF LocalOK, Socketless, Answering, Types
<1>5. thread'[w] = l /\ FileOf(thread[w].new_sfd)' = FileOf(thread[w].new_sfd)
  BY <1>1, <1>3, BecomeTyped DEF Typed, ProxyTyped, FileOf, Fds
<1>6. ServesOK(w)'
  BY <1>1, <1>3, <1>5 DEF ServesOK, Begun, Whole
<1>7. \A d \in Clients : d = FileOf(l.new_sfd) /\ Whole(d) =>
         recvd'[d] \in {0, 2} /\ (reply'[d] = <<>> \/ Replied(d)')
  BY <1>1 DEF Safe, ClientOK, Replied
<1>8. /\ thread[w].pc \in Serving /\ l.pc \in Serving
      /\ thread[w].pc \notin Opened /\ l.pc \notin Opened
  BY <1>1, <1>3 DEF Serving, Opened
<1> QED BY <1>1, <1>3, <1>4, <1>6, <1>7, <1>8, ServeSafe

(* No connection is refused: the code closes no descriptor here.            *)
LEMMA ConnectedSafe ==
    ASSUME Typed, Safe, NoneRefused, NEW w \in Workers, Connect(w)
    PROVE  Safe'
<1> DEFINE l == [thread[w] EXCEPT !.pc = "write"]
<1>1. /\ thread[w].pc = "connect" /\ LocalOK(thread[w], phase[w], asked[w], answer[w])
      /\ UNCHANGED <<clients, backlog, network, fifo>>
  BY DEF Connect, ConnectOr, At, Safe
<1>2. Host(w) # "refused" /\ FileOf(thread[w].socket_sfd) = w
  <2>1. thread[w].buf[1] \in Clients
    BY <1>1 DEF LocalOK
  <2>2. FileOf(thread[w].socket_sfd) = w
    BY <1>1, ServerOpened DEF Opened
  <2> QED BY <2>1, <2>2 DEF NoneRefused, Host
<1>3. Goto(w, "write") /\ UNCHANGED <<file, conn>>
  BY <1>2 DEF Connect, ConnectOr
<1>4. GoneTo(l, w, "write")
  BY GoneFields
<1> HIDE DEF l
<1>5. LocalOK(l, phase[w], asked[w], answer[w])
  BY <1>1, <1>4 DEF LocalOK, Socketless, Answering, GoneTo
<1>6. LocalOK([thread[w] EXCEPT !.pc = "write"], phase[w], asked[w], answer[w])
  BY <1>5 DEF l
<1> QED BY <1>1, <1>3, <1>6, GoneSafe DEF Serving, Opened, Begun

LEMMA NoAddressSafe ==
    ASSUME Typed, Safe, NEW w \in Workers, NoAddress(w)
    PROVE  Safe'
<1> DEFINE l == [thread[w] EXCEPT !.pc = "write"]
<1>1. /\ thread[w].pc = "socket" /\ LocalOK(thread[w], phase[w], asked[w], answer[w])
      /\ UNCHANGED <<clients, conn, backlog, network, file, fifo>> /\ Goto(w, "write")
      /\ thread[w].rp = Addresses
  BY DEF NoAddress, At, Safe
<1>2. thread[w].socket_sfd = BadFd /\ BadFd \notin Fds
  BY <1>1, TypesOK DEF LocalOK, Types
<1>3. GoneTo(l, w, "write")
  BY GoneFields
<1> HIDE DEF l
<1>4. LocalOK(l, phase[w], asked[w], answer[w])
  BY <1>1, <1>2, <1>3 DEF LocalOK, Socketless, Answering, GoneTo
<1>5. LocalOK([thread[w] EXCEPT !.pc = "write"], phase[w], asked[w], answer[w])
  BY <1>4 DEF l
<1> QED BY <1>1, <1>2, <1>5, GoneSafe DEF Serving, Opened, Begun

LEMMA WriteRequestSafe ==
    ASSUME Typed, Safe, NEW w \in Workers, WriteRequest(w)
    PROVE  Safe'
<1> DEFINE l == [thread[w] EXCEPT !.pc = "read"]
           f == thread[w].socket_sfd
<1>1. /\ thread[w].pc = "write" /\ LocalOK(thread[w], phase[w], asked[w], answer[w]) /\ ServesOK(w)
      /\ UNCHANGED <<kind, sent, eof, recvd, answer, conn, backlog, file, fifo>>
      /\ Become(w, l) /\ WriteTo(f, <<thread[w].buf>>, 0)
      /\ asked \in [Workers -> Seq(Answers)] /\ thread[w] \in Locals
      /\ reply \in [Clients -> Seq([body : Seq(Answers), extra : 0 .. 1])]
  BY DEF WriteRequest, At, Safe, Goto, clients, Typed, ServersTyped, ProxyTyped
<1>2. GoneTo(l, w, "read")
  BY GoneFields
<1> HIDE DEF l
<1>3. \/ f \in Fds /\ FileOf(f) = w /\ w \notin Clients
      \/ f = BadFd /\ f \notin Fds /\ FileOf(f) = Free /\ Free \notin Clients \cup Workers
  BY <1>1, ServerOpened DEF Opened
<1>4. reply' = reply
  BY <1>1, <1>3 DEF WriteTo
<1>5. /\ f \in Fds => asked'[w] = asked[w] \o <<thread[w].buf>>
      /\ f \notin Fds => asked'[w] = asked[w]
      /\ \A v \in Workers : v # w => asked'[v] = asked[v]
  BY <1>1, <1>3 DEF WriteTo
<1>6. f \in Fds => asked'[w] = <<thread[w].buf>>
  <2> SUFFICES ASSUME f \in Fds PROVE asked'[w] = <<thread[w].buf>>
    OBVIOUS
  <2> DEFINE s == <<thread[w].buf>>
  <2>1. s \in Seq(Answers)
    BY <1>1, FieldTypes DEF Answers
  <2>2. asked[w] = <<>> /\ asked'[w] = asked[w] \o s
    BY <1>1, <1>5 DEF LocalOK
  <2> HIDE DEF s
  <2>3. asked'[w] = s
    BY <2>1, <2>2, ConcatEmptySeq
  <2> QED BY <2>3 DEF s
<1>7. LocalOK(l, phase[w], asked'[w], answer'[w])
  BY <1>1, <1>2, <1>3, <1>6 DEF LocalOK, Socketless, Answering, GoneTo
<1>8. thread'[w] = l /\ FileOf(thread[w].new_sfd)' = FileOf(thread[w].new_sfd)
  BY <1>1, <1>2, BecomeTyped DEF Typed, ProxyTyped, FileOf, Fds, GoneTo
<1>9. ServesOK(w)'
  BY <1>1, <1>2, <1>4, <1>8 DEF ServesOK, Begun, Whole, GoneTo
<1>10. \A d \in Clients : d = FileOf(l.new_sfd) /\ Whole(d) =>
         recvd'[d] \in {0, 2} /\ (reply'[d] = <<>> \/ Replied(d)')
  BY <1>1, <1>4 DEF Safe, ClientOK, Replied
<1>11. /\ thread[w].pc \in Serving /\ l.pc \in Serving
       /\ thread[w].pc \in Opened /\ l.pc \in Opened
  BY <1>1, <1>2 DEF Serving, Opened, GoneTo
<1> QED BY <1>1, <1>2, <1>4, <1>5, <1>7, <1>9, <1>10, <1>11, ServeSafe DEF GoneTo

LEMMA ReadResponseSafe ==
    ASSUME Typed, Safe, NEW w \in Workers, ReadResponse(w)
    PROVE  Safe'
<1> DEFINE f == thread[w].socket_sfd
           x == FileOf(f)
<1>1. /\ thread[w].pc = "read" /\ LocalOK(thread[w], phase[w], asked[w], answer[w]) /\ ServesOK(w)
      /\ UNCHANGED <<kind, sent, eof, conn, backlog, reply, asked, file, fifo>>
      /\ answer \in [Workers -> {"no", "sent", "reset", "end"}] /\ thread[w] \in Locals
  BY DEF ReadResponse, At, Safe, clients, Typed, ServersTyped, ProxyTyped
<1>2. \/ f \in Fds /\ x = w /\ x \notin Clients /\ x # Free
      \/ f = BadFd /\ x = Free /\ x \notin Clients \cup Workers
  BY <1>1, ServerOpened, TypesOK DEF Opened, Types
<1>3. ASSUME NEW l \in Locals, Become(w, l), UNCHANGED recvd,
             \A v \in Workers : v # w => answer'[v] = answer[v],
             l.pc = "read", l.new_sfd = thread[w].new_sfd, l.buf = thread[w].buf,
             l.socket_sfd = f, f \in Fds,
             l.new_buf = IF answer'[w] \in {"no", "sent"} THEN <<>> ELSE <<l.buf>>
      PROVE  Safe'
  <2>1. LocalOK(l, phase[w], asked'[w], answer'[w])
    BY <1>1, <1>3 DEF LocalOK, Socketless, Answering
  <2>2. thread'[w] = l /\ FileOf(thread[w].new_sfd)' = FileOf(thread[w].new_sfd)
    BY <1>1, <1>3, BecomeTyped DEF Typed, ProxyTyped, FileOf, Fds
  <2>3. ServesOK(w)'
    BY <1>1, <1>3, <2>2 DEF ServesOK, Begun, Whole
  <2>4. \A d \in Clients : d = FileOf(l.new_sfd) /\ Whole(d) =>
           recvd'[d] \in {0, 2} /\ (reply'[d] = <<>> \/ Replied(d)')
    BY <1>1, <1>3 DEF Safe, ClientOK, Replied
  <2>5. thread[w].pc \in Serving /\ l.pc \in Serving
    BY <1>1, <1>3 DEF Serving
  <2> QED BY <1>1, <1>3, <2>1, <2>3, <2>4, <2>5, ServeSafe
<1>4. CASE /\ x \in Workers /\ answer[x] = "sent"
           /\ \E after \in {"reset", "end"} : answer' = [answer EXCEPT ![x] = after]
           /\ Become(w, [thread[w] EXCEPT !.new_buf = Append(thread[w].new_buf, Head(asked[x]))])
           /\ UNCHANGED recvd
  <2> DEFINE b == Append(thread[w].new_buf, Head(asked[x]))
             l == [thread[w] EXCEPT !.new_buf = b]
  <2>1. f \in Fds /\ x = w
    BY <1>2, <1>4
  <2>2. asked[w] = <<thread[w].buf>> /\ thread[w].new_buf = <<>>
    BY <1>1, <1>4, <2>1 DEF LocalOK
  <2>3. b = <<thread[w].buf>>
    BY <2>1, <2>2
  <2>4. b \in Seq(Answers)
    <3>1. thread[w].buf \in Answers
      BY <1>1, FieldTypes DEF Answers
    <3> HIDE DEF b
    <3> QED BY <2>3, <3>1
  <2>5. Become(w, l)
    BY <1>4
  <2> HIDE DEF b
  <2>6. /\ l \in Locals /\ l.new_buf = b /\ l.pc = "read" /\ l.new_sfd = thread[w].new_sfd
        /\ l.buf = thread[w].buf /\ l.socket_sfd = f
    BY <1>1, <2>4 DEF Locals
  <2> HIDE DEF l
  <2>7. answer'[w] \in {"reset", "end"} /\ \A v \in Workers : v # w => answer'[v] = answer[v]
    BY <1>1, <1>4, <2>1
  <2> QED BY <1>3, <1>4, <2>1, <2>3, <2>5, <2>6, <2>7
<1>5. CASE /\ x \in Workers /\ answer[x] = "reset" /\ answer' = [answer EXCEPT ![x] = "end"]
           /\ Become(w, [thread[w] EXCEPT !.short = 1]) /\ UNCHANGED recvd
  <2> DEFINE l == [thread[w] EXCEPT !.short = 1]
  <2>1. f \in Fds /\ x = w
    BY <1>2, <1>5
  <2>2. thread[w].new_buf = <<thread[w].buf>>
    BY <1>1, <1>5, <2>1 DEF LocalOK
  <2>3. Become(w, l)
    BY <1>5
  <2>4. /\ l \in Locals /\ l.new_buf = thread[w].new_buf /\ l.pc = "read"
        /\ l.new_sfd = thread[w].new_sfd /\ l.buf = thread[w].buf /\ l.socket_sfd = f
    BY <1>1 DEF Locals
  <2> HIDE DEF l
  <2>5. answer'[w] = "end" /\ \A v \in Workers : v # w => answer'[v] = answer[v]
    BY <1>1, <1>5, <2>1
  <2> QED BY <1>3, <1>5, <2>1, <2>2, <2>3, <2>4, <2>5
<1>6. CASE x \in Workers /\ answer[x] = "end" /\ Goto(w, "reply") /\ UNCHANGED <<recvd, answer>>
  <2> DEFINE l == [thread[w] EXCEPT !.pc = "reply"]
  <2>1. f \in Fds /\ x = w
    BY <1>2, <1>6
  <2>2. GoneTo(l, w, "reply")
    BY GoneFields
  <2> HIDE DEF l
  <2>3. LocalOK(l, phase[w], asked[w], answer[w])
    BY <1>1, <1>6, <2>1, <2>2 DEF LocalOK, Socketless, Answering, GoneTo
  <2>4. LocalOK([thread[w] EXCEPT !.pc = "reply"], phase[w], asked[w], answer[w])
    BY <2>3 DEF l
  <2>5. UNCHANGED <<clients, network>>
    BY <1>1, <1>6 DEF clients, network
  <2> QED BY <1>1, <1>6, <2>4, <2>5, GoneSafe DEF Serving, Opened, Begun
<1>7. CASE x = Free /\ Goto(w, "spin") /\ UNCHANGED <<recvd, answer>>
  <2> DEFINE l == [thread[w] EXCEPT !.pc = "spin"]
  <2>1. f = BadFd /\ f \notin Fds
    BY <1>2, <1>7, TypesOK DEF Types
  <2>2. GoneTo(l, w, "spin")
    BY GoneFields
  <2> HIDE DEF l
  <2>3. LocalOK(l, phase[w], asked'[w], answer'[w])
    BY <1>1, <1>7, <2>1, <2>2 DEF LocalOK, Socketless, Answering, GoneTo
  <2>4. Become(w, l)
    BY <1>7 DEF Goto, l
  <2>5. thread'[w] = l /\ l.pc = "spin" /\ l.socket_sfd = BadFd
    BY <2>1, <2>2, <2>4, BecomeTyped DEF Typed, ProxyTyped, GoneTo
  <2>6. ServesOK(w)'
    BY <2>5 DEF ServesOK, Begun
  <2>7. \A d \in Clients : d = FileOf(l.new_sfd) /\ Whole(d) =>
           recvd'[d] \in {0, 2} /\ (reply'[d] = <<>> \/ Replied(d)')
    BY <1>1, <1>7 DEF Safe, ClientOK, Replied
  <2>8. /\ thread[w].pc \in Serving /\ l.pc \in Serving
        /\ \A g \in Fds : l.socket_sfd # g /\ thread[w].socket_sfd # g
    BY <1>1, <2>1, <2>2 DEF Serving, GoneTo
  <2>9. /\ l \in Locals /\ l.new_sfd = thread[w].new_sfd /\ UNCHANGED <<recvd, answer>>
    BY <1>7, <2>2 DEF GoneTo
  <2> QED BY <1>1, <2>3, <2>4, <2>6, <2>7, <2>8, <2>9, ServeSafe
<1> QED BY <1>2, <1>4, <1>5, <1>6, <1>7 DEF ReadResponse

LEMMA ReplySafe ==
    ASSUME Typed, Safe, NEW w \in Workers, Reply(w)
    PROVE  Safe'
<1> DEFINE l == [thread[w] EXCEPT !.pc = "close"]
           f == thread[w].new_sfd
           answered == [body |-> thread[w].new_buf, extra |-> 1 - thread[w].short]
<1>1. /\ thread[w].pc = "reply" /\ LocalOK(thread[w], phase[w], asked[w], answer[w]) /\ ServesOK(w)
      /\ UNCHANGED <<kind, sent, eof, recvd, answer, conn, backlog, file, fifo>>
      /\ Become(w, l) /\ WriteTo(f, thread[w].new_buf, 1 - thread[w].short)
      /\ asked \in [Workers -> Seq(Answers)] /\ thread[w] \in Locals
      /\ reply \in [Clients -> Seq([body : Seq(Answers), extra : 0 .. 1])]
  BY DEF Reply, ReplyOn, At, Safe, Goto, clients, Typed, ServersTyped, ProxyTyped
<1>2. GoneTo(l, w, "close")
  BY GoneFields
<1> HIDE DEF l
<1>3. FileOf(f) \in Clients \/ FileOf(f) = Free
  BY <1>1, ClientServed DEF Serving
<1>4. asked' = asked
  BY <1>1, <1>3, TypesOK DEF WriteTo, Types
<1>5. /\ \A c \in Clients : c # FileOf(f) => reply'[c] = reply[c]
      /\ FileOf(f) \in Clients => reply'[FileOf(f)] = Append(reply[FileOf(f)], answered)
  BY <1>1 DEF WriteTo
<1>6. LocalOK(l, phase[w], asked'[w], answer'[w])
  BY <1>1, <1>2, <1>4 DEF LocalOK, Socketless, Answering, GoneTo
<1>7. thread'[w] = l /\ l.pc = "close"
  BY <1>1, <1>2, BecomeTyped DEF Typed, ProxyTyped, GoneTo
<1>8. ServesOK(w)'
  BY <1>7 DEF ServesOK, Begun
<1>9. ASSUME NEW d \in Clients, d = FileOf(l.new_sfd), Whole(d)
      PROVE  recvd'[d] \in {0, 2} /\ (reply'[d] = <<>> \/ Replied(d)')
  <2>1. d = FileOf(f)
    BY <1>2, <1>9 DEF GoneTo
  <2>2. reply[d] = <<>> /\ thread[w].buf = <<d, d>> /\ thread[w].new_buf = <<thread[w].buf>>
    BY <1>1, <1>9, <2>1 DEF ServesOK, Begun, LocalOK
  <2>3. answered.body = << <<d, d>> >>
    BY <2>2
  <2>4. reply'[d] = Append(reply[d], answered)
    BY <1>5, <2>1
  <2> HIDE DEF answered
  <2>5. reply'[d] = <<answered>>
    BY <2>2, <2>4
  <2>6. recvd'[d] \in {0, 2}
    BY <1>1, <1>9 DEF Safe, ClientOK
  <2> QED BY <2>3, <2>5, <2>6 DEF Replied
<1>10. /\ thread[w].pc \in Serving /\ l.pc \in Serving
       /\ thread[w].pc \in Opened /\ l.pc \in Opened
  BY <1>1, <1>2 DEF Serving, Opened, GoneTo
<1>11. /\ l \in Locals /\ l.new_sfd = f /\ l.socket_sfd = thread[w].socket_sfd
  BY <1>2 DEF GoneTo
<1>12. \A c \in Clients : c # FileOf(l.new_sfd) => recvd'[c] = recvd[c] /\ reply'[c] = reply[c]
  BY <1>1, <1>5, <1>11
<1> HIDE DEF f
<1> QED BY <1>1, <1>4, <1>6, <1>8, <1>9, <1>10, <1>11, <1>12, ServeSafe DEF f

(* A socket is opened as a descriptor that nobody holds.                    *)
LEMMA SocketSafe ==
    ASSUME Typed, Safe, NEW w \in Workers, Socket(w), FreeFds # {}
    PROVE  Safe'
<1> DEFINE a == Lowest(FreeFds)
           l == [thread[w] EXCEPT !.pc = "connect", !.socket_sfd = a]
<1>1. a \in Fds /\ file[a] = Free
  BY LowestOK DEF FreeFds
<1>2. /\ UNCHANGED <<kind, sent, eof, recvd, reply, conn, backlog, fifo>>
      /\ UNCHANGED <<queue, phase, val>>
      /\ file' = [file EXCEPT ![a] = w] /\ Become(w, l)
      /\ asked' = [asked EXCEPT ![w] = <<>>] /\ answer' = [answer EXCEPT ![w] = "no"]
      /\ thread[w].pc = "socket" /\ thread[w] \in Locals
      /\ LocalOK(thread[w], phase[w], asked[w], answer[w])
  BY DEF Socket, At, Safe, clients, fifo, Typed, ProxyTyped
<1> HIDE DEF a
<1>3. /\ l \in Locals /\ l.pc = "connect" /\ l.new_sfd = thread[w].new_sfd /\ l.buf = thread[w].buf
      /\ l.socket_sfd = a /\ l.new_buf = thread[w].new_buf
  BY <1>1, <1>2 DEF Locals
<1> HIDE DEF l
<1>4. thread'[w] = l /\ \A v \in Workers : v # w => thread'[v] = thread[v]
  BY <1>2, <1>3, BecomeTyped DEF Typed, ProxyTyped
<1>5. /\ file'[a] = w /\ w \notin Clients /\ w # Free
      /\ \A f \in Fds : f # a => file'[f] = file[f]
      /\ Free \notin Clients /\ Free \notin Workers
  BY <1>1, <1>2, TypesOK DEF Types, Typed, ProxyTyped
<1>6. asked'[w] = <<>> /\ answer'[w] = "no"
      /\ \A v \in Workers : v # w => asked'[v] = asked[v] /\ answer'[v] = answer[v]
  BY <1>2 DEF Typed, ServersTyped
<1>7. \A f \in Fds : \A v \in Workers : /\ Handles(v, f)' <=> Handles(v, f)
                                        /\ Handed(v, f)' <=> Handed(v, f)
  BY <1>2, <1>3, <1>4 DEF Handed, Handles, Serving
<1>8. \A f \in Fds : Owned(f)'
  <2> TAKE f \in Fds
  <2>1. Owned(f) /\ (InHand(f)' <=> InHand(f)) /\ (InQueue(f)' <=> InQueue(f)) /\ UNCHANGED queue
    BY <1>2 DEF Safe, InHand, InQueue
  <2>2. \A v \in Workers : thread'[v].socket_sfd = f /\ thread'[v].pc \in Opened
                           <=> (thread[v].socket_sfd = f /\ thread[v].pc \in Opened) \/ (v = w /\ f = a)
    BY <1>2, <1>3, <1>4 DEF Opened
  <2>3. CASE f = a
    BY <1>1, <1>5, <1>7, <2>1, <2>2, <2>3 DEF Owned
  <2>4. CASE f # a
    BY <1>5, <1>7, <2>1, <2>2, <2>4 DEF Owned
  <2> QED BY <2>3, <2>4
<1>9. Connected'
  BY <1>2, <1>5 DEF Safe, Connected
<1>10. \A v \in Workers : LocalOK(thread[v], phase[v], asked[v], answer[v])'
  <2>1. LocalOK(l, phase[w], asked'[w], answer'[w])
    BY <1>1, <1>2, <1>3, <1>6 DEF LocalOK, Socketless, Answering
  <2> QED BY <1>2, <1>4, <1>6, <2>1 DEF Safe
<1>11. \A d \in Clients : ClientOK(d)'
  BY <1>2, <1>5, <1>7 DEF Safe, ClientOK, Whole, Fresh, Replied
<1>12. \A v \in Workers : ServesOK(v)'
  <2> TAKE v \in Workers
  <2>1. ServesOK(v) /\ (v # w => thread'[v] = thread[v])
    BY <1>4 DEF Safe
  <2>2. thread[v].pc \in Serving => thread[v].new_sfd # a
    BY <1>1, <1>5, ClientServed
  <2>3. thread'[v].pc \in Serving => /\ thread[v].pc \in Serving
                                     /\ thread'[v].new_sfd = thread[v].new_sfd
    BY <1>2, <1>3, <1>4 DEF Serving
  <2>4. thread'[v].pc \in Serving => FileOf(thread[v].new_sfd)' = FileOf(thread[v].new_sfd)
    BY <1>5, <2>2, <2>3 DEF FileOf, Fds
  <2>5. CASE v = w
    BY <1>2, <1>3, <1>4, <2>1, <2>4, <2>5 DEF ServesOK, Serving, Begun, Whole, Fresh
  <2>6. CASE v # w
    BY <1>2, <2>1, <2>4, <2>6 DEF ServesOK, Serving, Begun, Whole, Fresh
  <2> QED BY <2>5, <2>6
<1> QED BY <1>8, <1>9, <1>10, <1>11, <1>12 DEF Safe

(* A worker closes its client's descriptor, and serves it no longer.        *)
LEMMA ClosedSafe ==
    ASSUME Typed, Safe, NEW w \in Workers, NEW l \in Locals, Become(w, l),
           CloseFd(thread[w].new_sfd), UNCHANGED <<clients, backlog, network, fifo>>,
           thread[w].pc \in Serving, l.pc \in {"closesock", "sbuf"},
           \A f \in Fds : l.socket_sfd = f /\ l.pc \in Opened
                          <=> thread[w].socket_sfd = f /\ thread[w].pc \in Opened,
           LocalOK(l, phase[w], asked[w], answer[w])
    PROVE  Safe'
<1> DEFINE a == thread[w].new_sfd
           c == FileOf(a)
<1>1. /\ UNCHANGED <<kind, sent, eof, recvd, reply, asked, answer, backlog, queue, phase, val>>
      /\ file \in [Fds -> Clients \cup Workers \cup {Free}]
      /\ conn \in [Clients -> {"none", "pending", "open", "closed"}]
      /\ Free \notin Clients /\ Free \notin Workers /\ Clients \cap Workers = {}
  BY TypesOK DEF clients, network, fifo, Typed, ProxyTyped, ClientsTyped, Types
<1>2. /\ \A f \in Fds : file'[f] = IF f = a THEN Free ELSE file[f]
      /\ \A d \in Clients : conn'[d] = IF d = c THEN "closed" ELSE conn[d]
  BY DEF CloseFd
<1>3. \/ a \in Fds /\ c = file[a] /\ c \in Clients
      \/ a \notin Fds /\ c \notin Clients
  BY ClientServed
<1>4. thread'[w] = l /\ \A v \in Workers : v # w => thread'[v] = thread[v]
  BY BecomeTyped DEF Typed, ProxyTyped
<1>5. phase[w] = "idle" /\ LocalOK(thread[w], phase[w], asked[w], answer[w])
  BY DEF Safe, LocalOK, Serving
<1>6. /\ \A f \in Fds : ~Handles(w, f)' /\ ~Handed(w, f)' /\ (Handles(w, f) <=> a = f)
                        /\ (Handed(w, f) <=> a = f)
      /\ \A f \in Fds : \A v \in Workers : v # w => /\ Handles(v, f)' <=> Handles(v, f)
                                                    /\ Handed(v, f)' <=> Handed(v, f)
  BY <1>1, <1>4, <1>5 DEF Handed, Handles, Serving
<1>7. \A f \in Fds : Owned(f)'
  <2> TAKE f \in Fds
  <2>1. Owned(f) /\ (InHand(f)' <=> InHand(f)) /\ (InQueue(f)' <=> InQueue(f)) /\ UNCHANGED queue
    BY <1>1 DEF Safe, InHand, InQueue
  <2>2. \A v \in Workers : thread'[v].socket_sfd = f /\ thread'[v].pc \in Opened
                           <=> (thread[v].socket_sfd = f /\ thread[v].pc \in Opened)
    BY <1>4
  <2>3. CASE f = a
    BY <1>1, <1>2, <1>3, <1>6, <2>1, <2>2, <2>3 DEF Owned
  <2>4. CASE f # a
    BY <1>2, <1>6, <2>1, <2>2, <2>4 DEF Owned
  <2> QED BY <2>3, <2>4
<1>8. Connected'
  <2>1. \A f \in Fds : f # a => (file[f] \in Clients => file[f] # c)
    BY <1>3 DEF Safe, Connected
  <2>2. c \in Clients => conn[c] = "open"
    BY <1>3 DEF Safe, Connected
  <2>3. \A i \in DOMAIN backlog : backlog[i] \in Clients
    BY DEF Typed, ClientsTyped
  <2>4. \A i \in DOMAIN backlog : conn'[backlog[i]] = "pending"
    BY <1>2, <2>2, <2>3 DEF Safe, Connected
  <2> QED BY <1>1, <1>2, <2>1, <2>4 DEF Safe, Connected
<1>9. \A v \in Workers : LocalOK(thread[v], phase[v], asked[v], answer[v])'
  BY <1>1, <1>4 DEF Safe
<1>10. \A d \in Clients : ClientOK(d)'
  <2> TAKE d \in Clients
  <2>1. ClientOK(d) /\ (conn'[d] \in {"none", "pending"} => conn'[d] = conn[d])
    BY <1>2 DEF Safe
  <2>2. \A f \in Fds : file'[f] = d => file[f] = d /\ f # a
    BY <1>1, <1>2
  <2>3. \A f \in Fds : f # a /\ (\A v \in Workers : ~Handles(v, f)') => \A v \in Workers : ~Handles(v, f)
    BY <1>6
  <2> QED BY <1>1, <2>1, <2>2, <2>3 DEF ClientOK, Whole, Fresh, Replied
<1>11. \A v \in Workers : ServesOK(v)'
  <2> TAKE v \in Workers
  <2>1. CASE v = w
    BY <1>4, <2>1 DEF ServesOK, Begun
  <2>2. CASE v # w
    <3>1. ServesOK(v) /\ thread'[v] = thread[v]
      BY <1>4, <2>2 DEF Safe
    <3>2. thread[v].pc \in Serving /\ thread[v].new_sfd \in Fds => thread[v].new_sfd # a
      <4>1. SUFFICES ASSUME thread[v].pc \in Serving, a \in Fds, thread[v].new_sfd = a PROVE FALSE
        OBVIOUS
      <4>2. Handed(v, a) /\ Handed(w, a)
        BY <4>1 DEF Handed, Handles
      <4> QED BY <2>2, <4>1, <4>2 DEF Safe, Owned
    <3>3. thread[v].pc \in Serving => FileOf(thread[v].new_sfd)' = FileOf(thread[v].new_sfd)
      BY <1>2, <3>1, <3>2 DEF FileOf, Fds
    <3> QED BY <1>1, <3>1, <3>3 DEF ServesOK, Serving, Begun, Whole, Fresh
  <2> QED BY <2>1, <2>2
<1> QED BY <1>7, <1>8, <1>9, <1>10, <1>11 DEF Safe

LEMMA RejectedSafe ==
    ASSUME Typed, Safe, NEW w \in Workers, Parse(w), CloseFd(thread[w].new_sfd),
           Become(w, Returned(thread[w]))
    PROVE  Safe'
<1> DEFINE l == Returned(thread[w])
<1>1. /\ CloseFd(thread[w].new_sfd) /\ Become(w, l) /\ thread[w].pc = "parse"
      /\ UNCHANGED <<clients, backlog, network, fifo>>
      /\ thread[w] \in Locals
  BY DEF Parse, At, Typed, ProxyTyped
<1>2. /\ l \in Locals /\ l.pc = "sbuf" /\ l.nread = 0 /\ l.rp = 0 /\ l.socket_sfd = 0
      /\ l.new_buf = <<>>
  BY <1>1, ReturnedTyped
<1> HIDE DEF l
<1>3. LocalOK(l, phase[w], asked[w], answer[w])
  BY <1>2 DEF LocalOK, Socketless, Answering
<1>4. /\ thread[w].pc \in Serving /\ l.pc \in {"closesock", "sbuf"}
      /\ thread[w].pc \notin Opened /\ l.pc \notin Opened
  BY <1>1, <1>2 DEF Serving, Opened
<1> QED BY <1>1, <1>2, <1>3, <1>4, ClosedSafe

LEMMA ParseSafe ==
    ASSUME Typed, Safe, NEW w \in Workers, Parse(w)
    PROVE  Safe'
BY AcceptedSafe, SegfaultSafe, RejectedSafe DEF Parse

LEMMA CloseSafe ==
    ASSUME Typed, Safe, NEW w \in Workers, Close(w)
    PROVE  Safe'
<1> DEFINE l == [thread[w] EXCEPT !.pc = "closesock"]
<1>1. /\ CloseFd(thread[w].new_sfd) /\ Become(w, l) /\ thread[w].pc = "close"
      /\ UNCHANGED <<clients, backlog, network, fifo>>
      /\ LocalOK(thread[w], phase[w], asked[w], answer[w])
  BY DEF Close, At, Goto, Safe
<1>2. GoneTo(l, w, "closesock")
  BY GoneFields
<1> HIDE DEF l
<1>3. LocalOK(l, phase[w], asked[w], answer[w])
  BY <1>1, <1>2 DEF LocalOK, Socketless, Answering, GoneTo
<1>4. /\ thread[w].pc \in Serving /\ l.pc \in {"closesock", "sbuf"} /\ l \in Locals
      /\ thread[w].pc \in Opened /\ l.pc \in Opened /\ l.socket_sfd = thread[w].socket_sfd
  BY <1>1, <1>2 DEF Serving, Opened, GoneTo
<1> QED BY <1>1, <1>3, <1>4, ClosedSafe

(* The worker closes its server's descriptor and is idle again.             *)
LEMMA CloseSockSafe ==
    ASSUME Typed, Safe, NEW w \in Workers, CloseSock(w)
    PROVE  Safe'
<1> DEFINE a == thread[w].socket_sfd
           l == Returned(thread[w])
<1>1. /\ UNCHANGED <<kind, sent, eof, recvd, reply, asked, answer, backlog, queue, phase, val>>
      /\ thread[w].pc = "closesock" /\ CloseFd(a) /\ Become(w, l) /\ thread[w] \in Locals
      /\ LocalOK(thread[w], phase[w], asked[w], answer[w])
      /\ conn \in [Clients -> {"none", "pending", "open", "closed"}]
  BY DEF CloseSock, CloseLast, At, Safe, clients, network, fifo, Typed, ProxyTyped, ClientsTyped
<1>2. /\ l \in Locals /\ l.pc = "sbuf" /\ l.nread = 0 /\ l.rp = 0 /\ l.socket_sfd = 0
      /\ l.new_buf = <<>>
  BY <1>1, ReturnedTyped
<1> HIDE DEF l
<1>3. thread'[w] = l /\ \A v \in Workers : v # w => thread'[v] = thread[v]
  BY <1>1, <1>2, BecomeTyped DEF Typed, ProxyTyped
<1>4. a \in Fds /\ file[a] = w /\ FileOf(a) = w /\ w \notin Clients
  BY <1>1, ServerOpened DEF Opened
<1>5. /\ \A f \in Fds : file'[f] = IF f = a THEN Free ELSE file[f]
      /\ \A d \in Clients : conn'[d] = conn[d]
      /\ Free \notin Clients /\ Free \notin Workers
  BY <1>1, <1>4, TypesOK DEF CloseFd, Types
<1>6. \A f \in Fds : \A v \in Workers : /\ Handles(v, f)' <=> Handles(v, f)
                                        /\ Handed(v, f)' <=> Handed(v, f)
  BY <1>1, <1>2, <1>3 DEF Handed, Handles, Serving
<1>7. \A f \in Fds : Owned(f)'
  <2> TAKE f \in Fds
  <2>1. Owned(f) /\ (InHand(f)' <=> InHand(f)) /\ (InQueue(f)' <=> InQueue(f)) /\ UNCHANGED queue
    BY <1>1 DEF Safe, InHand, InQueue
  <2>2. /\ \A v \in Workers : v # w => thread'[v] = thread[v]
        /\ thread'[w].pc \notin Opened
        /\ thread[w].pc \in Opened
    BY <1>1, <1>2, <1>3 DEF Opened
  <2>3. CASE f = a
    BY <1>4, <1>5, <1>6, <2>1, <2>2, <2>3 DEF Owned
  <2>4. CASE f # a
    BY <1>4, <1>5, <1>6, <2>1, <2>2, <2>4 DEF Owned
  <2> QED BY <2>3, <2>4
<1>8. Connected'
  BY <1>1, <1>5 DEF Safe, Connected, Typed, ClientsTyped
<1>9. \A v \in Workers : LocalOK(thread[v], phase[v], asked[v], answer[v])'
  <2>1. LocalOK(l, phase[w], asked[w], answer[w])
    BY <1>2 DEF LocalOK, Socketless, Answering
  <2> QED BY <1>1, <1>3, <2>1 DEF Safe
<1>10. \A d \in Clients : ClientOK(d)'
  <2>1. \A d \in Clients : \A f \in Fds : file'[f] = d => file[f] = d
    BY <1>5
  <2> QED BY <1>1, <1>5, <1>6, <2>1 DEF Safe, ClientOK, Whole, Fresh, Replied
<1>11. \A v \in Workers : ServesOK(v)'
  <2> TAKE v \in Workers
  <2>1. CASE v = w
    BY <1>2, <1>3, <2>1 DEF ServesOK, Begun
  <2>2. CASE v # w
    <3>1. ServesOK(v) /\ thread'[v] = thread[v]
      BY <1>3, <2>2 DEF Safe
    <3>2. thread[v].pc \in Serving => thread[v].new_sfd # a
      BY <1>4, ClientServed
    <3>3. thread[v].pc \in Serving => FileOf(thread[v].new_sfd)' = FileOf(thread[v].new_sfd)
      BY <1>5, <3>1, <3>2 DEF FileOf, Fds
    <3> QED BY <1>1, <3>1, <3>3 DEF ServesOK, Serving, Begun, Whole, Fresh
  <2> QED BY <2>1, <2>2
<1> QED BY <1>7, <1>8, <1>9, <1>10, <1>11 DEF Safe

LEMMA NextSafe == IInv /\ [Next]_vars => IInv'
<1> SUFFICES ASSUME Typed, NoneRefused => Safe, [Next]_vars PROVE IInv'
  BY DEF IInv
<1>1. Typed'
  BY NextTyped
<1> SUFFICES ASSUME NoneRefused' PROVE Safe'
  BY <1>1 DEF IInv
<1>2. kind' = kind
  BY DEF Next, vars, MainStep, WorkerStep, ClientConnect, ClientSend, ClientQuit, ServerAnswer,
         MainAccept, MainInsert, Take, Handle, Recv, Parse, Segfault, Accepts, Resolve, Socket, Connect, ConnectOr,
         NoAddress, WriteRequest, ReadResponse, Reply, ReplyOn, Close, CloseSock, CloseLast, clients
<1>3. NoneRefused /\ Safe
  BY <1>2 DEF NoneRefused
<1>4. CASE UNCHANGED vars
  BY <1>3, <1>4, HandsUntouched
     DEF vars, Safe, Connected, ClientOK, ServesOK, Whole, Fresh, Replied, clients, network, fifo
<1>5. ASSUME NEW c \in Clients, ClientConnect(c) \/ ClientSend(c) \/ ClientQuit(c) PROVE Safe'
  BY <1>3, <1>5, ConnectSafe, SendSafe
<1>6. ASSUME NEW w \in Workers, ServerAnswer(w) PROVE Safe'
  BY <1>3, <1>6, ServerSafe
<1>7. CASE MainStep
  BY <1>3, <1>7, AcceptSafe, InsertSafe DEF MainStep
<1>8. ASSUME NEW w \in Workers, WorkerStep(w) PROVE Safe'
  BY <1>3, <1>8, TakeSafe, HandleSafe, RecvSafe, ParseSafe, ResolveSafe, SocketSafe,
     NoSocketSafe, ConnectedSafe, NoAddressSafe, WriteRequestSafe, ReadResponseSafe, ReplySafe,
     CloseSafe, CloseSockSafe DEF WorkerStep
<1> QED BY <1>4, <1>5, <1>6, <1>7, <1>8 DEF Next

LEMMA Invariance == Spec => []IInv
<1>1. Init => IInv
  BY InitTyped, InitSafe DEF IInv
<1> QED BY <1>1, NextSafe, PTL DEF Spec

-----------------------------------------------------------------------------
LEMMA AsClientIs == Typed => \A f : AsClient(f) = {w \in Workers : Handles(w, f)}
<1> SUFFICES ASSUME Typed, NEW f, NEW w \in Workers
             PROVE  thread[w].pc \notin {"sbuf", "closesock"} <=> thread[w].pc \in Serving
  BY DEF AsClient, Handles
<1>1. thread[w].pc \in {"sbuf", "recv", "parse", "resolve", "socket", "connect",
                        "write", "read", "reply", "close", "closesock", "spin"}
  BY FieldTypes DEF Typed, ProxyTyped
<1> QED BY <1>1 DEF Serving

(* Every open descriptor has one holder and every one that is held is open, *)
(* with any number of threads, descriptors and connections.                 *)
THEOREM HeldOnce == Spec => []DescriptorsOwned
<1>1. IInv => DescriptorsOwned
  <2> SUFFICES ASSUME Typed, Safe, NEW f \in Fds
               PROVE  /\ InBuffer(f) => file[f] \in Clients /\ AsClient(f) = {}
                      /\ AsClient(f) # {} => file[f] \in Clients
                      /\ file[f] \in Clients => InBuffer(f) \/ Cardinality(AsClient(f)) = 1
                      /\ file[f] \in Workers => AsServer(f) = {file[f]}
                      /\ AsServer(f) # {} => file[f] \in Workers
    BY DEF IInv, DescriptorsOwned
  <2>1. Owned(f) /\ AsClient(f) = {w \in Workers : Handles(w, f)}
    BY AsClientIs DEF Safe
  <2>2. InBuffer(f) <=> InHand(f) \/ InQueue(f) \/ \E w \in Workers : phase[w] = "done" /\ val[w] = f
    BY DEF InBuffer, InHand, InQueue
  <2>3. \A w \in Workers : Handles(w, f) => ~(phase[w] = "done")
    BY DEF Safe, LocalOK, Handles, Serving
  <2>4. InBuffer(f) => file[f] \in Clients /\ AsClient(f) = {}
    BY <2>1, <2>2, <2>3 DEF Owned, Handed
  <2>5. AsClient(f) # {} => file[f] \in Clients
    BY <2>1 DEF Owned, Handed
  <2>6. file[f] \in Clients => InBuffer(f) \/ Cardinality(AsClient(f)) = 1
    <3> SUFFICES ASSUME file[f] \in Clients, ~InBuffer(f) PROVE Cardinality(AsClient(f)) = 1
      OBVIOUS
    <3>1. PICK w \in Workers : Handles(w, f)
      BY <2>1, <2>2 DEF Owned, Handed
    <3>2. AsClient(f) = {w}
      BY <2>1, <3>1 DEF Owned, Handed
    <3> QED BY <3>2, FS_Singleton
  <2>7. \A w \in Workers : w \in AsServer(f) <=> file[f] = w
    BY <2>1 DEF AsServer, Owned, Opened
  <2>8. AsServer(f) \subseteq Workers
    BY DEF AsServer
  <2> QED BY <2>4, <2>5, <2>6, <2>7, <2>8
<1> QED BY <1>1, Invariance, PTL

(* What is parsed and forwarded for a client that sends its request at once *)
(* is that request, whatever its worker's buffer held before.               *)
THEOREM ReadWhole == Spec => []WholeRequestsRead
<1>1. IInv => WholeRequestsRead
  BY DEF IInv, Safe, ServesOK, Begun, WholeRequestsRead, ReadEntirely
<1> QED BY <1>1, Invariance, PTL

(* Such a client is sent the answer to its own request, once at most, and   *)
(* nothing else, however many workers share the process's descriptors.      *)
THEOREM AnsweredOwn == Spec => []AnswersIsolated
<1>1. IInv => AnswersIsolated
  BY DEF IInv, Safe, ClientOK, Replied, AnswersIsolated, Isolation
<1> QED BY <1>1, Invariance, PTL

(* A worker that is lost without a failed accept or socket is lost to a     *)
(* client of its own that has given up.                                     *)
THEOREM LostToQuitters == Spec => []LostWorkers
<1>1. IInv => LostWorkers
  <2> DEFINE S == {w \in Workers : /\ thread[w].pc = "spin"
                                   /\ BadFd \notin {thread[w].new_sfd, thread[w].socket_sfd}}
             T == {c \in Clients : kind[c] = "quits" /\ eof[c]}
             g == [w \in S |-> FileOf(thread[w].new_sfd)]
  <2> SUFFICES ASSUME Typed, Safe PROVE Cardinality(S) <= Cardinality(T)
    BY DEF IInv, LostWorkers
  <2>1. \A w \in S : FileOf(thread[w].new_sfd) \in T
    BY DEF Safe, ServesOK
  <2>2. \A v, w \in S : FileOf(thread[v].new_sfd) = FileOf(thread[w].new_sfd) => v = w
    BY <2>1, OneServes DEF Serving
  <2>3. g \in Injection(S, T)
    <3> HIDE DEF S, T
    <3> QED BY <2>1, <2>2 DEF Injection, IsInjective
  <2>4. IsFiniteSet(T)
    BY PoolAssumption, FS_Subset
  <2> HIDE DEF S, T, g
  <2> QED BY <2>3, <2>4, FS_Injection DEF ExistsInjection
<1> QED BY <1>1, Invariance, PTL
=============================================================================
