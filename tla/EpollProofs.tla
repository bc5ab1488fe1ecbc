---------------------------- MODULE EpollProofs ----------------------------
(***************************************************************************)
(* Proofs about EpollProxy, for any number of clients, descriptors and     *)
(* request_infos and every behaviour of the allocator, in three parts.     *)
(*                                                                         *)
(* 1. When no client and no server leaves before it has been served, no    *)
(* edge-triggered event is lost and every open descriptor belongs to one   *)
(* request (NoEdgeLost, DescriptorsHeld).                                  *)
(* The inductive invariant, Typed and Safe, is about the links between the *)
(* descriptor table, the epoll instance and the heap: a descriptor is open *)
(* exactly if a request under way holds it in the field that its state     *)
(* says (FileOwned, RequestOwns), an event points to memory that is live   *)
(* (EventsLive), and a request that could go on has an edge, an event of   *)
(* the batch or the processor (EdgesKept).  A freed block is harmless      *)
(* because of what it holds: a state in which nothing is done (NotInUse).  *)
(*                                                                         *)
(* Every step of the process has a lemma, <Action>Safe, and those that     *)
(* open, pass on or close descriptors rest on one about that change alone: *)
(* LoopSafe and PauseSafe change no descriptor, CloseSafe closes those of  *)
(* the active request, OpenedSafe opens its connection to the server, and  *)
(* RegisteredSafe and RespondSafe register one.                            *)
(*                                                                         *)
(* 2. Whoever leaves, every variable has its type (TypeCorrect): Tidy, of  *)
(* which requests may be in any state, with fields never written.          *)
(*                                                                         *)
(* 3. Whoever leaves, a client is sent its own answer only, and the        *)
(* process stops only for a known cause (AnswersIsolated, StopsForCause),  *)
(* as long as the state is Calm.  A request may then have been freed while *)
(* an event still points to it, and a server's connection left open for    *)
(* good, so that the links are weaker than those of part 1: Sound says     *)
(* which of them stay, and what the buffers and counters of a request hold *)
(* in each state.  <Action>Kept is the lemma of a step.  That accept finds *)
(* a descriptor in ample resources is a counting argument, SomeFree.       *)
(***************************************************************************)
EXTENDS EpollProxy, Induction, SequenceTheorems

(* The types of the state.                                                  *)

RequestType ==
    [client_fd : Fds \cup {BadFd}, server_fd : Fds \cup {BadFd}, current_state : 0 .. Wild,
     read_buffer : Seq(Cells), write_buffer : Seq(Cells), total_write_amount : Nat,
     written_bytes_server : Nat, read_bytes_server : Nat,
     read_bytes_client : Nat, written_bytes_client : Nat]
FileType ==
    [type : {"free", "stdin", "client", "server"}, of : Clients \cup {None},
     st : {"none", "new", "asked", "answered", "closed", "reset"}, got : BOOLEAN]
EventType == [ptr : Blocks \cup {Listener}, fd : Fds \cup {None}, hup : BOOLEAN]
HeapType == {"unused", "live", "unmapped", "merged", "linked"}

Typed ==
    /\ kind \in [Clients -> Kinds] /\ system \in Systems
    /\ sent \in [Clients -> 0 .. 2] /\ recvd \in [Clients -> 0 .. 2]
    /\ \A c \in Clients : recvd[c] <= sent[c]
    /\ backlog \in Seq(Clients)
    /\ file \in [Fds -> FileType] /\ reg \in [Fds -> Blocks \cup {None}]
    /\ ready \subseteq Fds /\ lready \in BOOLEAN
    /\ mem \in [Blocks -> RequestType] /\ heap \in [Blocks -> HeapType]
    /\ active \in Blocks \cup {None} /\ batch \subseteq EventType

(* Nobody leaves: no connection is reset and none but a server's is closed. *)
Quiet ==
    /\ eof = {} /\ rst = {}
    /\ \A f \in Fds : file[f].st # "reset"
                      /\ (file[f].type \in {"client", "server"} => file[f].of \in Clients)

State(b) == mem[b].current_state

(* To whom an open descriptor belongs.                                      *)
FileOwned(f) ==
    /\ file[f].type = "client" =>
         reg[f] \in Blocks /\ Live(reg[f]) /\ mem[reg[f]].client_fd = f
    /\ file[f].type = "server" =>
         \E b \in Blocks : Live(b) /\ mem[b].server_fd = f /\ State(b) \in 1 .. 3
                           /\ reg[f] = IF State(b) = 1 THEN None ELSE b
    /\ file[f].type \in {"free", "stdin"} => reg[f] = None

(* What a request that is under way owns.                                   *)
RequestOwns(b) ==
    Live(b) =>
        /\ State(b) \in {0, 1, 2, 3, Wild}
        /\ mem[b].client_fd \in Fds /\ file[mem[b].client_fd].type = "client"
        /\ reg[mem[b].client_fd] = b
        /\ State(b) \in 1 .. 3 =>
             /\ mem[b].server_fd \in Fds /\ file[mem[b].server_fd].type = "server"
             /\ reg[mem[b].server_fd] = IF State(b) = 1 THEN None ELSE b
        /\ State(b) = 1 => active = b /\ pc = "send_request"
        /\ State(b) = Wild => mem[b].server_fd = BadFd
NotInUse(b) ==
    heap[b] # "live" => State(b) = 0 \/ (State(b) = Wild /\ mem[b].server_fd = BadFd)

(* An event of the batch points to a live block; one that starts a request  *)
(* comes from its client.                                                   *)
EventsLive ==
    \A e \in batch :
        /\ ~e.hup /\ (e.ptr # Listener => heap[e.ptr] = "live")
        /\ e.ptr # Listener /\ State(e.ptr) = 0 /\ Live(e.ptr) =>
             e.fd = mem[e.ptr].client_fd /\ e.ptr # active

(* The state of the active request at each step of handle_client.           *)
StateOf == [p \in {"read_request", "open", "send_request", "read_response", "send_response"} |->
              CASE p = "send_request" -> 1 [] p = "read_response" -> 2
                [] p = "send_response" -> 3 [] OTHER -> 0]
InStep ==
    /\ pc \in DOMAIN StateOf => active \in Blocks /\ Live(active) /\ State(active) = StateOf[pc]
    /\ pc \in {"event", "accept"} => active = None
    /\ pc = "open" => Complete(mem[active].read_buffer)

(* There is input on an open connection: Readable, when nobody leaves.      *)
Pending(f) ==
    IF file[f].type = "client" THEN recvd[file[f].of] < sent[file[f].of]
    ELSE file[f].st = "closed" \/ (file[f].st = "answered" /\ ~file[f].got)
(* A request that waits for f has an edge, an event or the processor.       *)
HasEvent(b) == \E e \in batch : e.ptr = b
Awaited(b, f) == Pending(f) => f \in ready \/ HasEvent(b) \/ active = b
(* No edge is lost.                                                         *)
EdgesKept ==
    Alive =>
        /\ backlog # <<>> => lready \/ HasEvent(Listener) \/ pc = "accept"
        /\ \A b \in Blocks : Live(b) =>
             /\ State(b) = 0 => Awaited(b, mem[b].client_fd)
             /\ State(b) = 2 => Awaited(b, mem[b].server_fd)

Safe ==
    /\ Quiet
    /\ \A f \in Fds : FileOwned(f)
    /\ \A b \in Blocks : RequestOwns(b) /\ NotInUse(b)
    /\ \A f \in ready : reg[f] # None
    /\ EventsLive /\ InStep /\ EdgesKept

-----------------------------------------------------------------------------
(* What NoneLeaves says of each kind.                                       *)
LEMMA KindsStay ==
    ASSUME NoneLeaves, Typed PROVE \A c \in Clients : kind[c] \notin {"quits", "resets", "serverresets"}
BY DEF NoneLeaves

(* A client's counters: what was read of it is no more than what it sent.   *)
LEMMA CountsTyped ==
    ASSUME Typed, NEW c \in Clients
    PROVE  sent[c] \in Nat /\ recvd[c] \in Nat /\ recvd[c] <= sent[c] /\ sent[c] <= 2
<1>1. sent \in [Clients -> 0 .. 2] /\ recvd \in [Clients -> 0 .. 2] /\ recvd[c] <= sent[c]
  BY DEF Typed
<1> QED BY <1>1

(* What recv finds, as a predicate.                                         *)
InputIs(in, cells, eofs, errors) == in = [cells |-> cells, eof |-> eofs, error |-> errors]

(* An entry of the descriptor table, and of the epoll instance.             *)
LEMMA FileTyped ==
    ASSUME Typed, NEW f \in Fds
    PROVE  /\ file[f].type \in {"free", "stdin", "client", "server"}
           /\ file[f] \in FileType /\ reg[f] \in Blocks \cup {None}
<1>1. file \in [Fds -> FileType] /\ reg \in [Fds -> Blocks \cup {None}]
  BY DEF Typed
<1> QED BY <1>1 DEF FileType

(* The fields of a request_info.                                            *)
LEMMA RequestTyped ==
    ASSUME Typed, NEW b \in Blocks
    PROVE  /\ mem[b] \in RequestType /\ heap[b] \in HeapType
           /\ mem[b].client_fd \in Fds \cup {BadFd} /\ mem[b].server_fd \in Fds \cup {BadFd}
           /\ State(b) \in 0 .. Wild
           /\ mem[b].read_buffer \in Seq(Cells) /\ mem[b].write_buffer \in Seq(Cells)
           /\ mem[b].total_write_amount \in Nat /\ mem[b].written_bytes_server \in Nat
           /\ mem[b].read_bytes_server \in Nat /\ mem[b].read_bytes_client \in Nat
           /\ mem[b].written_bytes_client \in Nat
<1>1. mem \in [Blocks -> RequestType] /\ heap \in [Blocks -> HeapType]
  BY DEF Typed
<1> QED BY <1>1 DEF RequestType, State

(* A record that InputIs describes has these fields.                        *)
LEMMA InputFields ==
    ASSUME NEW in, NEW cells, NEW eofs, NEW errors, InputIs(in, cells, eofs, errors)
    PROVE  in.cells = cells /\ in.eof = eofs /\ in.error = errors
BY DEF InputIs

(* A client's cells, and a server's.                                        *)
LEMMA InputOfClient ==
    ASSUME Typed, Quiet, NEW f \in Fds, file[f].type = "client"
    PROVE  /\ ~Input(f).eof /\ ~Input(f).error
           /\ Input(f).cells \in Seq(Cells)
           /\ Len(Input(f).cells) = sent[file[f].of] - recvd[file[f].of]
<1> DEFINE c == file[f].of
<1>1. c \in Clients /\ sent[c] \in Nat /\ recvd[c] \in Nat /\ sent[c] - recvd[c] \in Nat
  BY DEF Typed, Quiet
<1> DEFINE cells == [i \in 1 .. sent[c] - recvd[c] |-> <<c, IF recvd[c] + i = 1 THEN "head" ELSE "end">>]
<1>2. cells \in Seq(Cells) /\ Len(cells) = sent[c] - recvd[c]
  <2>1. \A i \in 1 .. sent[c] - recvd[c] : cells[i] \in Cells
    BY <1>1 DEF Cells
  <2> QED BY <1>1, <2>1, IsASeq
<1>3. InputIs(Input(f), cells, c \in eof, c \in rst)
  BY DEF Input, FileOf, InputIs
<1> HIDE DEF cells
<1>4. c \notin eof /\ c \notin rst
  BY DEF Quiet
<1>5. Input(f).cells = cells /\ Input(f).eof = (c \in eof) /\ Input(f).error = (c \in rst)
  BY <1>3, InputFields, Zenon
<1> QED BY <1>2, <1>4, <1>5

(* What recv finds on a server's connection: its answer, once it has come.  *)
LEMMA InputOfServer ==
    ASSUME Typed, Quiet, NEW f \in Fds, file[f].type = "server"
    PROVE  /\ Input(f).eof <=> file[f].st = "closed"
           /\ ~Input(f).error
           /\ Input(f).cells \in Seq(Cells)
           /\ Input(f).cells # <<>> <=> file[f].st \in {"answered", "closed"} /\ ~file[f].got
<1> DEFINE c == file[f].of
           cells == IF file[f].st \in {"answered", "closed"} /\ ~file[f].got
                    THEN << <<c, "answer">>, <<c, "rest">> >> ELSE <<>>
<1>1. c \in Clients
  BY DEF Quiet
<1>2. cells \in Seq(Cells) /\ (cells # <<>> <=> file[f].st \in {"answered", "closed"} /\ ~file[f].got)
  BY <1>1 DEF Cells
<1>3. PICK e \in BOOLEAN, r \in BOOLEAN : (e <=> file[f].st = "closed") /\ (r <=> file[f].st = "reset")
  OBVIOUS
<1>4. InputIs(Input(f), cells, e, r)
  BY <1>3 DEF Input, FileOf, InputIs
<1> HIDE DEF cells
<1>5. Input(f).cells = cells /\ Input(f).eof = e /\ Input(f).error = r
  BY <1>4, InputFields, Zenon
<1>6. file[f].st # "reset"
  BY DEF Quiet
<1> QED BY <1>2, <1>3, <1>5, <1>6

(* A connection is readable when input is pending.                          *)
LEMMA ReadableIsPending ==
    ASSUME Typed, Quiet, NEW f \in Fds, file[f].type \in {"client", "server"}
    PROVE  Readable(f) <=> Pending(f)
<1>1. CASE file[f].type = "client"
  <2>1. file[f].of \in Clients
    BY <1>1 DEF Quiet
  <2>2. sent[file[f].of] \in Nat /\ recvd[file[f].of] \in Nat
        /\ recvd[file[f].of] <= sent[file[f].of]
    BY <2>1, CountsTyped
  <2>3. Input(f).cells # <<>> <=> recvd[file[f].of] < sent[file[f].of]
    BY <1>1, <2>1, <2>2, InputOfClient, EmptySeq
  <2> QED BY <1>1, <2>3, InputOfClient DEF Readable, Pending
<1>2. CASE file[f].type = "server"
  BY <1>2, InputOfServer DEF Readable, Pending
<1> QED BY <1>1, <1>2

(* A nonempty set of naturals has a least element: FreeFds does.            *)
LEMMA LowestIn == ASSUME NEW S, S \subseteq Nat, S # {} PROVE Lowest(S) \in S
<1> SUFFICES ASSUME ~ \E f \in S : \A g \in S : f <= g PROVE FALSE
  BY DEF Lowest
<1> DEFINE G == {n \in Nat : \A g \in S : n <= g}
<1>1. 0 \in G
  OBVIOUS
<1>2. \A n \in Nat : n \in G => n + 1 \in G
  OBVIOUS
<1>3. Nat \subseteq G
  <2> HIDE DEF G
  <2> QED BY <1>1, <1>2, NatSetInduction
<1>4. PICK g \in S : TRUE
  OBVIOUS
<1> QED BY <1>3, <1>4

-----------------------------------------------------------------------------
(* Initially nothing is open and no block is in use.                        *)
LEMMA InitTyped == ASSUME Init PROVE Typed
<1>1. Closed \in FileType /\ [Closed EXCEPT !.type = "stdin"] \in FileType
  BY DEF Closed, FileType
<1>2. file \in [Fds -> FileType]
  BY <1>1 DEF Init
<1> DEFINE empty == <<>>
<1>4. empty \in Seq(Cells) /\ {0} \subseteq Fds /\ {0} \subseteq 0 .. Wild
  BY EpollAssumption DEF Fds, Wild
<1>5. Zeroed \in RequestType
  <2> HIDE DEF empty
  <2>1. Zeroed = [client_fd |-> 0, server_fd |-> 0, current_state |-> 0,
                  read_buffer |-> empty, write_buffer |-> empty, total_write_amount |-> 0,
                  written_bytes_server |-> 0, read_bytes_server |-> 0,
                  read_bytes_client |-> 0, written_bytes_client |-> 0]
    BY DEF Zeroed, empty
  <2> QED BY <1>4, <2>1 DEF RequestType
<1>6. mem \in [Blocks -> RequestType] /\ heap \in [Blocks -> HeapType]
  BY <1>5 DEF Init, HeapType
<1>7. kind \in [Clients -> Kinds] /\ system \in Systems /\ backlog \in Seq(Clients)
  BY EpollAssumption DEF Init
<1>8. /\ sent \in [Clients -> 0 .. 2] /\ recvd \in [Clients -> 0 .. 2]
      /\ \A c \in Clients : recvd[c] <= sent[c]
  BY DEF Init
<1> QED BY <1>2, <1>6, <1>7, <1>8 DEF Init, Typed, EventType

(* Initially no request exists and no connection is open.                   *)
LEMMA InitSafe == ASSUME Init, NoneLeaves PROVE Typed /\ Safe
<1>1. Typed
  BY InitTyped
<1>2. \A f \in Fds : file[f].type \in {"free", "stdin"} /\ file[f].st = "none" /\ reg[f] = None
  BY DEF Init, Closed
<1>3. \A b \in Blocks : ~Live(b) /\ NotInUse(b)
  BY DEF Init, Live, NotInUse, State, Zeroed
<1> QED BY <1>1, <1>2, <1>3 DEF Init, Safe, Quiet, FileOwned, RequestOwns, EventsLive, InStep,
           StateOf, EdgesKept

(* A client's connect wakes the listening socket.                           *)
LEMMA ConnectSafe ==
    ASSUME Typed, Safe, NEW c \in Clients, ClientConnect(c)
    PROVE  Typed' /\ Safe'
<1> USE DEF ClientConnect, given, process
<1>1. Typed'
  BY AppendProperties DEF Typed
<1>2. Quiet' /\ EventsLive' /\ InStep' /\ \A f \in ready' : reg'[f] # None
  BY DEF Safe, Quiet, EventsLive, InStep, Live, State
<1>3. \A f \in Fds : FileOwned(f)'
  BY DEF Safe, FileOwned, Live, State
<1>4. \A b \in Blocks : RequestOwns(b)' /\ NotInUse(b)'
  BY DEF Safe, RequestOwns, NotInUse, Live, State
<1>5. EdgesKept'
  BY DEF Safe, EdgesKept, Awaited, HasEvent, Pending, Live, State, Alive
<1> QED BY <1>1, <1>2, <1>3, <1>4, <1>5 DEF Safe

(* What a client sends wakes the request that waits for it.                 *)
LEMMA SendSafe ==
    ASSUME Typed, Safe, NoneLeaves, NEW c \in Clients, ClientSend(c)
    PROVE  Typed' /\ Safe'
<1> USE DEF ClientSend, given, process
<1>0. /\ kind[c] \notin {"quits", "resets", "serverresets"} /\ sent[c] \in 0 .. 1
      /\ sent' = [sent EXCEPT ![c] = sent'[c]] /\ sent'[c] > sent[c] /\ sent'[c] \in 1 .. 2
  BY CountsTyped DEF Typed, NoneLeaves
<1>1. Typed'
  <2>1. sent' \in [Clients -> 0 .. 2] /\ \A d \in Clients : recvd[d] <= sent'[d]
    BY <1>0, CountsTyped DEF Typed
  <2>2. ready' \subseteq Fds
    BY DEF Typed, Wake, FdsOf
  <2> QED BY <2>1, <2>2 DEF Typed
<1>2. Quiet' /\ EventsLive' /\ InStep' /\ \A f \in ready' : reg'[f] # None
  BY DEF Safe, Quiet, EventsLive, InStep, Live, State, Wake
<1>3. \A f \in Fds : FileOwned(f)'
  BY DEF Safe, FileOwned, Live, State
<1>4. \A b \in Blocks : RequestOwns(b)' /\ NotInUse(b)'
  BY DEF Safe, RequestOwns, NotInUse, Live, State
<1>5. EdgesKept'
  <2>1. \A f \in Fds : file[f].type \in {"client", "server"} /\ reg[f] # None /\ Pending(f)' => Pending(f) \/ f \in ready'
    BY <1>0 DEF Pending, Wake, FdsOf, Typed, Safe, Quiet
  <2>2. \A b \in Blocks, f \in Fds :
          file[f].type \in {"client", "server"} /\ reg[f] # None /\ Awaited(b, f) => Awaited(b, f)'
    BY <2>1 DEF Awaited, HasEvent, Wake
  <2>3. \A b \in Blocks : Live(b) =>
          /\ State(b) = 0 => file[mem[b].client_fd].type = "client" /\ reg[mem[b].client_fd] = b
                             /\ mem[b].client_fd \in Fds
          /\ State(b) = 2 => file[mem[b].server_fd].type = "server" /\ reg[mem[b].server_fd] = b
                             /\ mem[b].server_fd \in Fds
    BY DEF Safe, RequestOwns
  <2>4. None \notin Blocks
    BY EpollAssumption
  <2> QED BY <2>2, <2>3, <2>4 DEF Safe, EdgesKept, Live, State, Alive, HasEvent
<1> QED BY <1>1, <1>2, <1>3, <1>4, <1>5 DEF Safe

(* Nobody leaves, by assumption.                                            *)
LEMMA NoLeave ==
    ASSUME NoneLeaves, NEW c \in Clients PROVE ~ClientLeave(c)
BY DEF ClientLeave, NoneLeaves

(* What the requests that wait for input have, in short.                    *)
LEMMA WaitsFor ==
    ASSUME Safe, NEW b \in Blocks, Live(b)
    PROVE  /\ State(b) = 0 => /\ mem[b].client_fd \in Fds /\ reg[mem[b].client_fd] = b
                              /\ file[mem[b].client_fd].type = "client"
           /\ State(b) = 2 => /\ mem[b].server_fd \in Fds /\ reg[mem[b].server_fd] = b
                              /\ file[mem[b].server_fd].type = "server"
           /\ b # None
BY EpollAssumption DEF Safe, RequestOwns

(* A server that answers or closes wakes the request that waits for it.     *)
LEMMA ServerSafe ==
    ASSUME Typed, Safe, NoneLeaves, NEW f \in Fds, ServerStep(f)
    PROVE  Typed' /\ Safe'
<1> USE DEF ServerStep, peers, given, process
<1>0. PICK s \in {"answered", "closed"} :
        file[f].type = "server" /\ file' = [file EXCEPT ![f].st = s]
  BY DEF NoneLeaves, Safe, Quiet
<1>1. file' \in [Fds -> FileType] /\ file'[f] = [file[f] EXCEPT !.st = s]
      /\ \A g \in Fds \ {f} : file'[g] = file[g]
  <2>1. file \in [Fds -> FileType] /\ file[f] \in FileType
    BY FileTyped DEF Typed
  <2>2. [file[f] EXCEPT !.st = s] \in FileType
    BY <2>1 DEF FileType
  <2> QED BY <1>0, <2>1, <2>2
<1>2. \A g \in Fds : file'[g].type = file[g].type /\ file'[g].of = file[g].of
                     /\ (file'[g].st = file[g].st \/ file'[g].st # "reset")
  <2>1. file[f] \in FileType
    BY FileTyped
  <2>2. file'[f].type = file[f].type /\ file'[f].of = file[f].of /\ file'[f].st = s
    BY <1>1, <2>1 DEF FileType
  <2> QED BY <1>1, <2>2
<1>3. Typed'
  <2>1. ready' \subseteq Fds
    BY DEF Typed, Wake
  <2> QED BY <1>1, <2>1 DEF Typed
<1>4. Quiet' /\ EventsLive' /\ InStep' /\ \A g \in ready' : reg'[g] # None
  BY <1>2 DEF Safe, Quiet, EventsLive, InStep, Live, State, Wake
<1>5. \A g \in Fds : FileOwned(g)'
  BY <1>2 DEF Safe, FileOwned, Live, State
<1>6. \A b \in Blocks : RequestOwns(b)' /\ NotInUse(b)'
  BY <1>2 DEF Safe, RequestOwns, NotInUse, Live, State
<1>7. EdgesKept'
  <2>1. \A g \in Fds : reg[g] # None /\ Pending(g)' => Pending(g) \/ g \in ready'
    BY <1>1 DEF Pending, Wake
  <2>2. \A b \in Blocks, g \in Fds : reg[g] # None /\ Awaited(b, g) => Awaited(b, g)'
    BY <2>1 DEF Awaited, HasEvent, Wake
  <2> QED BY <2>2, WaitsFor DEF Safe, EdgesKept, Live, State, Alive, HasEvent
<1> QED BY <1>3, <1>4, <1>5, <1>6, <1>7 DEF Safe

(* epoll_wait fetches the edge of a request that waits for its input.       *)
LEMMA WaitFetches ==
    ASSUME Typed, Safe, pc = "event", batch = {}
    PROVE  \A b \in Blocks, f \in Fds :
             file[f].type \in {"client", "server"} /\ reg[f] = b /\ Awaited(b, f) /\ Pending(f)
             => \E e \in Events : e.ptr = b
<1> SUFFICES ASSUME NEW b \in Blocks, NEW f \in Fds, reg[f] = b, Awaited(b, f),
                    Pending(f), file[f].type \in {"client", "server"}
             PROVE  \E e \in Events : e.ptr = b
  OBVIOUS
<1>1. f \in ready /\ Readable(f)
  BY ReadableIsPending, EpollAssumption DEF Awaited, HasEvent, Safe, InStep
<1>2. [ptr |-> b, fd |-> f, hup |-> Input(f).error] \in Events
  BY <1>1 DEF Events
<1> QED BY <1>2

(* epoll_wait: every edge becomes an event of the batch.                    *)
LEMMA WaitSafe == ASSUME Typed, Safe, Wait PROVE Typed' /\ Safe'
<1> USE DEF Wait, peers, given
<1>0. \A e \in Events : \/ e = [ptr |-> Listener, fd |-> None, hup |-> FALSE]
                        \/ \E f \in ready : Readable(f)
                                            /\ e = [ptr |-> reg[f], fd |-> f, hup |-> Input(f).error]
  BY DEF Events
<1>1. \A f \in ready : /\ f \in Fds /\ file[f].type \in {"client", "server"} /\ reg[f] \in Blocks
                       /\ heap[reg[f]] = "live" /\ Input(f).error = FALSE
  <2> SUFFICES ASSUME NEW f \in ready
               PROVE  /\ f \in Fds /\ file[f].type \in {"client", "server"} /\ reg[f] \in Blocks
                      /\ heap[reg[f]] = "live" /\ Input(f).error = FALSE
    OBVIOUS
  <2>1. f \in Fds /\ reg[f] # None
    BY DEF Typed, Safe
  <2>2. file[f].type \in {"client", "server"} /\ reg[f] \in Blocks
    BY <2>1, FileTyped DEF Safe, FileOwned
  <2>3. heap[reg[f]] = "live"
    BY <2>1, <2>2, EpollAssumption DEF Safe, FileOwned, Live
  <2>4. ~Input(f).error
    BY <2>1, <2>2, InputOfClient, InputOfServer DEF Safe
  <2> QED BY <2>1, <2>2, <2>3, <2>4
<1>2. \A e \in Events : e \in EventType
  <2> DEFINE no == FALSE
  <2>1. \A e \in Events : \/ e = [ptr |-> Listener, fd |-> None, hup |-> no]
                          \/ \E f \in ready : e = [ptr |-> reg[f], fd |-> f, hup |-> no]
    BY <1>0, <1>1
  <2>2. no \in BOOLEAN
    OBVIOUS
  <2> HIDE DEF no
  <2> QED BY <1>1, <2>1, <2>2 DEF EventType
<1>3. Typed'
  BY <1>2 DEF Typed
<1>4. EventsLive'
  <2> SUFFICES ASSUME NEW e \in Events
               PROVE  ~e.hup /\ (e.ptr # Listener => heap[e.ptr] = "live")
                      /\ (e.ptr # Listener /\ State(e.ptr) = 0 /\ Live(e.ptr) =>
                             e.fd = mem[e.ptr].client_fd /\ e.ptr # active)
    BY DEF EventsLive, Live, State
  <2>1. CASE e = [ptr |-> Listener, fd |-> None, hup |-> FALSE]
    BY <2>1
  <2>2. CASE \E f \in ready : e = [ptr |-> reg[f], fd |-> f, hup |-> Input(f).error]
    <3>1. PICK f \in ready : e = [ptr |-> reg[f], fd |-> f, hup |-> Input(f).error]
      BY <2>2
    <3>2. e.ptr = reg[f] /\ e.fd = f /\ e.hup = FALSE
      BY <1>1, <3>1
    <3>3. State(reg[f]) = 0 /\ Live(reg[f]) => f = mem[reg[f]].client_fd
      BY <1>1, EpollAssumption DEF Safe, FileOwned, RequestOwns
    <3>4. reg[f] # active
      BY <1>1, EpollAssumption DEF Safe, InStep
    <3> QED BY <1>1, <3>2, <3>3, <3>4
  <2> QED BY <1>0, <2>1, <2>2
<1>5. Quiet' /\ InStep' /\ \A f \in ready' : reg'[f] # None
  BY DEF Safe, Quiet, InStep, Live, State
<1>6. \A f \in Fds : FileOwned(f)'
  BY DEF Safe, FileOwned, Live, State
<1>7. \A b \in Blocks : RequestOwns(b)' /\ NotInUse(b)'
  BY DEF Safe, RequestOwns, NotInUse, Live, State
<1>8. EdgesKept'
  <2>1. backlog # <<>> => HasEvent(Listener)'
    <3>1. backlog # <<>> => lready
      BY DEF Safe, EdgesKept, HasEvent, Alive
    <3>2. backlog # <<>> => [ptr |-> Listener, fd |-> None, hup |-> FALSE] \in Events
      BY <3>1 DEF Events
    <3> QED BY <3>2 DEF HasEvent
  <2>2. \A b \in Blocks, f \in Fds :
          file[f].type \in {"client", "server"} /\ reg[f] = b /\ b # None /\ Awaited(b, f)
          => Awaited(b, f)'
    BY WaitFetches DEF Awaited, Pending, HasEvent
  <2> QED BY <2>1, <2>2, WaitsFor DEF Safe, EdgesKept, Live, State, Alive
<1> QED BY <1>3, <1>4, <1>5, <1>6, <1>7, <1>8 DEF Safe

(* The process stops, or a signal is caught: nothing else changes.          *)
LEMMA StopSafe ==
    ASSUME Typed, Safe, Alive,
           pc' = pc \/ (pc' \in {"stopped", "exited"} /\ pc # "send_request"),
           UNCHANGED <<peers, kernel, mem, heap, active, batch>>
    PROVE  Typed' /\ Safe'
<1> USE DEF peers, kernel, given
<1>1. Typed'
  BY DEF Typed
<1>2. {"stopped", "exited"} \cap DOMAIN StateOf = {} /\ "send_request" \in DOMAIN StateOf
  BY DEF StateOf
<1>3. CASE pc' = pc
  BY <1>1, <1>3 DEF Safe, Quiet, FileOwned, RequestOwns, NotInUse, EventsLive, InStep, StateOf,
     EdgesKept, Awaited, Pending, HasEvent, Live, State, Alive
<1>4. CASE pc' \in {"stopped", "exited"} /\ pc # "send_request"
  <2>1. Quiet' /\ EventsLive' /\ InStep' /\ \A f \in ready' : reg'[f] # None
    BY <1>2, <1>4 DEF Safe, Quiet, EventsLive, InStep, StateOf, Live, State
  <2>2. \A f \in Fds : FileOwned(f)'
    BY DEF Safe, FileOwned, Live, State
  <2>3. \A b \in Blocks : RequestOwns(b)' /\ NotInUse(b)'
    BY <1>4 DEF Safe, RequestOwns, NotInUse, Live, State
  <2>4. EdgesKept'
    BY <1>4 DEF EdgesKept, Alive
  <2> QED BY <1>1, <2>1, <2>2, <2>3, <2>4 DEF Safe
<1> QED BY <1>3, <1>4

(* No event reports an error.                                               *)
LEMMA NoHangUp == ASSUME Safe PROVE ~HangUp
BY DEF Safe, EventsLive, HangUp

(* An event is taken from the batch: its request is handled, or none is.    *)
LEMMA DispatchSafe == ASSUME Typed, Safe, Dispatch PROVE Typed' /\ Safe'
<1> USE DEF peers, kernel, given
<1>1. PICK e \in batch :
        /\ pc = "event" /\ ~e.hup
        /\ batch' = batch \ {e}
        /\ UNCHANGED <<peers, kernel, mem, heap, sig_flag>>
        /\ IF e.ptr = Listener THEN pc' = "accept" /\ UNCHANGED active ELSE Continue(0, e.ptr)
  BY DEF Dispatch
<1> DEFINE b == e.ptr
<1>2. active = None /\ None \notin Blocks /\ Listener \notin Blocks /\ e \in EventType
      /\ batch \subseteq EventType /\ e.ptr \in Blocks \cup {Listener}
  BY <1>1, EpollAssumption DEF Safe, InStep, Typed, EventType
<1>3. \A a \in Blocks : Live(a) => State(a) # 1
  BY <1>1 DEF Safe, RequestOwns
<1>4. \/ b = Listener /\ pc' = "accept" /\ active' = None
      \/ b \in Blocks /\ Live(b) /\ State(b) \in {0, 2, 3} /\ active' = b
         /\ pc' \in DOMAIN StateOf /\ State(b) = StateOf[pc'] /\ pc' \notin {"open", "send_request"}
      \/ b \in Blocks /\ State(b) \notin 0 .. 3 /\ active' = None /\ pc' = "event"
  <2> SUFFICES ASSUME b # Listener
               PROVE  \/ Live(b) /\ State(b) \in {0, 2, 3} /\ active' = b /\ pc' \in DOMAIN StateOf
                         /\ State(b) = StateOf[pc'] /\ pc' \notin {"open", "send_request"}
                      \/ State(b) \notin 0 .. 3 /\ active' = None /\ pc' = "event"
    BY <1>1, <1>2
  <2>1. b \in Blocks /\ heap[b] = "live" /\ State(b) \in 0 .. Wild
    BY <1>1, <1>2, RequestTyped DEF Safe, EventsLive
  <2>2. CASE State(b) \notin 0 .. 3
    BY <1>1, <2>1, <2>2 DEF Continue, State
  <2>3. CASE State(b) \in 0 .. 3
    <3>1. Live(b) /\ State(b) \in {0, 2, 3}
      BY <1>3, <2>1, <2>3 DEF Live, State
    <3>2. pc' = Steps[State(b) + 1] /\ active' = b
      BY <1>1, <2>1, <2>3 DEF Continue, State
    <3> QED BY <3>1, <3>2 DEF Steps, StateOf
  <2> QED BY <2>2, <2>3
<1>5. Typed'
  BY <1>1, <1>2, <1>4 DEF Typed
<1>6. Quiet' /\ \A f \in ready' : reg'[f] # None
  BY <1>1 DEF Safe, Quiet
<1>7. \A f \in Fds : FileOwned(f)'
  BY <1>1 DEF Safe, FileOwned, Live, State
<1>8. \A a \in Blocks : RequestOwns(a)' /\ NotInUse(a)'
  BY <1>1, <1>3 DEF Safe, RequestOwns, NotInUse, Live, State
<1>9. EventsLive'
  <2> SUFFICES ASSUME NEW d \in batch \ {e}
               PROVE  ~d.hup /\ (d.ptr # Listener => heap[d.ptr] = "live")
                      /\ (d.ptr # Listener /\ State(d.ptr) = 0 /\ Live(d.ptr) =>
                             d.fd = mem[d.ptr].client_fd /\ d.ptr # active')
    BY <1>1 DEF EventsLive, Live, State
  <2>1. ~d.hup /\ (d.ptr # Listener => heap[d.ptr] = "live")
        /\ (d.ptr # Listener /\ State(d.ptr) = 0 /\ Live(d.ptr) => d.fd = mem[d.ptr].client_fd)
    BY DEF Safe, EventsLive
  <2>2. ASSUME d.ptr # Listener, State(d.ptr) = 0, Live(d.ptr), d.ptr = active' PROVE FALSE
    <3>1. d \in EventType /\ d.ptr # None
      BY <1>2, <2>2 DEF EventType
    <3>2. d.ptr = e.ptr /\ e.fd = mem[e.ptr].client_fd
      BY <1>2, <1>4, <2>2, <3>1 DEF Safe, EventsLive
    <3>3. d.hup = FALSE /\ e.hup = FALSE
      BY <1>1, <1>2, <2>1, <3>1 DEF EventType
    <3>4. d.fd = e.fd
      BY <2>1, <2>2, <3>2
    <3>5. d = e
      BY <1>2, <3>1, <3>2, <3>3, <3>4 DEF EventType
    <3> QED BY <3>5
  <2> QED BY <2>1, <2>2
<1>10. InStep'
  BY <1>1, <1>2, <1>4 DEF InStep, StateOf, Live, State
<1>11. EdgesKept'
  <2>1. \A a : a # b /\ HasEvent(a) => HasEvent(a)'
    BY <1>1 DEF HasEvent
  <2>2. \A a \in Blocks, f \in Fds : Awaited(a, f) /\ (a = b => active' = b) => Awaited(a, f)'
    BY <1>1, <1>2, <2>1 DEF Awaited, Pending
  <2>3. backlog' # <<>> => lready' \/ HasEvent(Listener)' \/ pc' = "accept"
    BY <1>1, <1>4, <2>1 DEF Safe, EdgesKept, Alive
  <2>4. ASSUME NEW a \in Blocks, Live(a)
        PROVE  /\ State(a) = 0 => Awaited(a, mem[a].client_fd)'
               /\ State(a) = 2 => Awaited(a, mem[a].server_fd)'
    BY <1>1, <1>2, <1>4, <2>2, <2>4, WaitsFor DEF Safe, EdgesKept, Alive
  <2> QED BY <1>1, <2>3, <2>4 DEF EdgesKept, Live, State
<1> QED BY <1>5, <1>6, <1>7, <1>8, <1>9, <1>10, <1>11 DEF Safe

(* A free descriptor is a descriptor.                                       *)
LEMMA FreeFdsTyped == ASSUME Typed PROVE FreeFds \subseteq Fds
<1>1. system \in SystemType
  BY EpollAssumption DEF Typed
<1>2. system.limit \in 1 .. MaxFd
  BY <1>1 DEF SystemType
<1> QED BY <1>2, EpollAssumption DEF FreeFds, Fds

(* The descriptor that accept or socket returns belongs to nobody.          *)
LEMMA LowestFree ==
    ASSUME Typed, Safe, FreeFds # {}, NEW f, f = Lowest(FreeFds)
    PROVE  /\ f \in Fds /\ file[f].type = "free" /\ reg[f] = None /\ f \notin ready
           /\ \A b \in Blocks : Live(b) =>
                mem[b].client_fd # f /\ (State(b) \in 1 .. 3 => mem[b].server_fd # f)
<1>1. FreeFds \subseteq Fds /\ FreeFds \subseteq Nat
  BY FreeFdsTyped, EpollAssumption DEF Fds
<1>2. f \in FreeFds
  BY <1>1, LowestIn
<1>3. f \in Fds /\ file[f].type = "free"
  BY <1>1, <1>2 DEF FreeFds
<1> QED BY <1>3 DEF Safe, FileOwned, RequestOwns

(* A new request with its client_fd.                                        *)
LEMMA ClientFdTyped ==
    ASSUME NEW r \in RequestType, NEW f \in Fds PROVE [r EXCEPT !.client_fd = f] \in RequestType
BY DEF RequestType

(* The connection that accept returns.                                      *)
LEMMA ClientFile ==
    ASSUME NEW c \in Clients, NEW o, o = [Closed EXCEPT !.type = "client", !.of = c]
    PROVE  o.type = "client" /\ o.of = c /\ o.st # "reset" /\ o \in FileType
BY DEF Closed, FileType

(* One accept: the connection gets a descriptor, and its request a block    *)
(* that was never used or was freed, whose state is READ_REQUEST or wild.   *)
LEMMA AcceptOneSafe ==
    ASSUME Typed, Safe, NEW b \in Mallocs, NEW f, f = Lowest(FreeFds), NEW c, c = Head(backlog),
           NEW o, o = [Closed EXCEPT !.type = "client", !.of = c],
           pc = "accept", FreeFds # {}, backlog # <<>>,
           backlog' = Tail(backlog),
           file' = [file EXCEPT ![f] = o],
           reg' = [reg EXCEPT ![f] = b],
           ready' = ready \cup (IF sent[c] > 0 \/ c \in eof \cup rst THEN {f} ELSE {}),
           mem' = [mem EXCEPT ![b].client_fd = f],
           heap' = [heap EXCEPT ![b] = "live"], pc' = "accept",
           UNCHANGED <<given, sent, recvd, eof, rst, reply, wreg, lready>>,
           UNCHANGED <<active, batch, sig_flag>>
    PROVE  Typed' /\ Safe'
<1> USE DEF given
<1>1. /\ f \in Fds /\ file[f].type = "free" /\ reg[f] = None /\ f \notin ready
      /\ \A a \in Blocks : Live(a) =>
           mem[a].client_fd # f /\ (State(a) \in 1 .. 3 => mem[a].server_fd # f)
  BY LowestFree
<1>2. c \in Clients /\ backlog' \in Seq(Clients)
  BY HeadTailProperties DEF Typed
<1>3. o.type = "client" /\ o.of = c /\ o.st # "reset" /\ o \in FileType
  BY <1>2, ClientFile
<1>4. /\ file' \in [Fds -> FileType] /\ file'[f] = o /\ \A g \in Fds \ {f} : file'[g] = file[g]
      /\ reg' \in [Fds -> Blocks \cup {None}] /\ reg'[f] = b
      /\ \A g \in Fds \ {f} : reg'[g] = reg[g]
  BY <1>1, <1>3 DEF Typed, Mallocs
<1>5. b \in Blocks /\ heap[b] # "live" /\ b # None
  BY EpollAssumption DEF Mallocs
<1>6. /\ mem'[b] \in RequestType /\ mem'[b].client_fd = f
      /\ mem'[b].server_fd = mem[b].server_fd /\ State(b)' = State(b)
  <2>1. mem[b] \in RequestType /\ mem'[b] = [mem[b] EXCEPT !.client_fd = f]
    BY <1>5, RequestTyped DEF Typed
  <2>2. mem'[b] \in RequestType
    BY <1>1, <2>1, ClientFdTyped
  <2>3. mem'[b].client_fd = f /\ mem'[b].server_fd = mem[b].server_fd
        /\ mem'[b].current_state = mem[b].current_state
    BY <2>1 DEF RequestType
  <2> QED BY <2>2, <2>3 DEF State
<1>7. /\ mem' \in [Blocks -> RequestType] /\ heap' \in [Blocks -> HeapType] /\ heap'[b] = "live"
      /\ \A a \in Blocks \ {b} : mem'[a] = mem[a] /\ heap'[a] = heap[a]
  <2>1. mem \in [Blocks -> RequestType] /\ heap \in [Blocks -> HeapType]
    BY DEF Typed
  <2> QED BY <1>5, <1>6, <2>1 DEF HeapType
<1>8. /\ \A a \in Blocks \ {b} : (Live(a)' <=> Live(a)) /\ State(a)' = State(a)
      /\ ~Live(b) /\ State(b) \in {0, Wild} /\ (State(b) = Wild => mem[b].server_fd = BadFd)
  <2>1. \A a \in Blocks \ {b} : (Live(a)' <=> Live(a)) /\ State(a)' = State(a)
    BY <1>7 DEF Live, State
  <2>2. ~Live(b)
    BY <1>5 DEF Live
  <2>3. State(b) \in {0, Wild} /\ (State(b) = Wild => mem[b].server_fd = BadFd)
    BY <1>5 DEF Safe, NotInUse, Wild
  <2> QED BY <2>1, <2>2, <2>3
<1>9. Typed'
  BY <1>1, <1>2, <1>4, <1>7 DEF Typed
<1>10. Quiet' /\ \A g \in ready' : reg'[g] # None
  BY <1>1, <1>2, <1>3, <1>4, <1>5 DEF Safe, Quiet
<1>11. \A g \in Fds : FileOwned(g)'
  <2> SUFFICES ASSUME NEW g \in Fds PROVE FileOwned(g)'
    OBVIOUS
  <2>1. CASE g = f
    BY <1>3, <1>4, <1>5, <1>6, <1>7, <1>8, <2>1 DEF FileOwned, Live, State, Wild
  <2>2. CASE g # f
    BY <1>4, <1>5, <1>7, <1>8, <2>2 DEF Safe, FileOwned, Wild
  <2> QED BY <2>1, <2>2
<1>12. \A a \in Blocks : RequestOwns(a)' /\ NotInUse(a)'
  <2> SUFFICES ASSUME NEW a \in Blocks PROVE RequestOwns(a)' /\ NotInUse(a)'
    OBVIOUS
  <2>1. CASE a = b
    BY <1>1, <1>3, <1>4, <1>5, <1>6, <1>7, <1>8, <2>1 DEF RequestOwns, NotInUse, Wild
  <2>2. CASE a # b
    BY <1>1, <1>4, <1>7, <1>8, <2>2 DEF Safe, RequestOwns, NotInUse
  <2> QED BY <2>1, <2>2
<1>13. EventsLive'
  <2> SUFFICES ASSUME NEW d \in batch
               PROVE  /\ ~d.hup /\ (d.ptr # Listener => heap'[d.ptr] = "live")
                      /\ (d.ptr # Listener /\ State(d.ptr)' = 0 /\ Live(d.ptr)' =>
                             d.fd = mem'[d.ptr].client_fd /\ d.ptr # active)
    BY DEF EventsLive
  <2>1. d.ptr \in Blocks \cup {Listener} /\ d.ptr # b
    BY <1>5, EpollAssumption DEF Typed, EventType, Safe, EventsLive
  <2> QED BY <1>7, <1>8, <2>1 DEF Safe, EventsLive
<1>14. InStep'
  BY <1>5 DEF Safe, InStep, StateOf
<1>15. EdgesKept'
  <2>1. \A a, g : HasEvent(a)' <=> HasEvent(a)
    BY DEF HasEvent
  <2>2. \A a \in Blocks, g \in Fds \ {f} : Awaited(a, g) => Awaited(a, g)'
    BY <1>4, <2>1 DEF Awaited, Pending
  <2>3. Awaited(b, f)'
    BY <1>2, <1>3, <1>4, CountsTyped DEF Awaited, Pending
  <2>4. ASSUME NEW a \in Blocks, Live(a)'
        PROVE  /\ State(a)' = 0 => Awaited(a, mem[a].client_fd)'
               /\ State(a)' = 2 => Awaited(a, mem[a].server_fd)'
    <3>1. CASE a = b
      BY <1>6, <1>8, <2>3, <3>1 DEF Wild
    <3>2. CASE a # b
      BY <1>1, <1>7, <1>8, <2>2, <2>4, <3>2, WaitsFor DEF Safe, EdgesKept, Alive
    <3> QED BY <3>1, <3>2
  <2> QED BY <2>4 DEF EdgesKept
<1> QED BY <1>9, <1>10, <1>11, <1>12, <1>13, <1>14, <1>15 DEF Safe

(* handle_new_clients: accept until the backlog is empty.                   *)
LEMMA AcceptSafe == ASSUME Typed, Safe, Accept PROVE Typed' /\ Safe'
<1> USE DEF Accept, AcceptInto
<1>1. CASE FreeFds = {}
  BY <1>1, StopSafe DEF Alive
<1>2. CASE FreeFds # {} /\ backlog = <<>> /\ pc' = "event" /\ UNCHANGED <<peers, kernel, mem, heap>>
  <2> USE DEF peers, kernel, given
  <2>1. Typed' /\ Quiet' /\ EventsLive' /\ InStep' /\ \A g \in ready' : reg'[g] # None
    BY <1>2 DEF Typed, Safe, Quiet, EventsLive, InStep, StateOf, Live, State
  <2>2. \A f \in Fds : FileOwned(f)'
    BY <1>2 DEF Safe, FileOwned, Live, State
  <2>3. \A b \in Blocks : RequestOwns(b)' /\ NotInUse(b)'
    BY <1>2 DEF Safe, RequestOwns, NotInUse, Live, State
  <2>4. EdgesKept'
    BY <1>2 DEF Safe, EdgesKept, Awaited, Pending, HasEvent, Live, State, Alive
  <2> QED BY <2>1, <2>2, <2>3, <2>4 DEF Safe
<1>3. CASE FreeFds # {} /\ backlog # <<>>
  BY <1>3, AcceptOneSafe
<1> QED BY <1>1, <1>2, <1>3

-----------------------------------------------------------------------------
(* The functions of handle_client.  Those that go on in the same state: the *)
(* loops of recv and write.                                                 *)
LEMMA LoopSafe ==
    ASSUME Typed, Safe, pc \in {"read_request", "read_response", "send_response"},
           pc' \in DOMAIN StateOf, StateOf[pc'] = StateOf[pc],
           pc' = "open" => Complete(mem'[active].read_buffer),
           mem' \in [Blocks -> RequestType],
           \A a \in Blocks : /\ mem'[a].client_fd = mem[a].client_fd
                             /\ mem'[a].server_fd = mem[a].server_fd
                             /\ State(a)' = State(a),
           file' \in [Fds -> FileType],
           \A g \in Fds : file'[g].type = file[g].type /\ file'[g].of = file[g].of
                          /\ file'[g].st = file[g].st,
           recvd' \in [Clients -> 0 .. 2], \A c \in Clients : recvd'[c] <= sent[c],
           \A g \in Fds : file[g].type \in {"client", "server"} /\ Pending(g)' => Pending(g),
           UNCHANGED <<given, sent, eof, rst, backlog, reg, ready, lready, heap, active, batch>>
    PROVE  Typed' /\ Safe'
<1> USE DEF given
<1>1. active \in Blocks /\ Live(active) /\ State(active) = StateOf[pc] /\ active # None
  BY EpollAssumption DEF Safe, InStep, StateOf
<1>2. \A a \in Blocks : (Live(a)' <=> Live(a)) /\ (RequestOwns(a) <=> RequestOwns(a)')
                        /\ (NotInUse(a) <=> NotInUse(a)')
  <2>1. StateOf[pc] # 1 /\ StateOf[pc'] # 1 /\ pc' # "send_request"
    BY DEF StateOf
  <2>2. \A a \in Blocks : Live(a) => State(a) # 1
    BY DEF Safe, RequestOwns
  <2>3. \A a \in Blocks : Live(a)' <=> Live(a)
    BY DEF Live, State
  <2>4. \A a \in Blocks : NotInUse(a) <=> NotInUse(a)'
    BY DEF NotInUse
  <2> QED BY <2>1, <2>2, <2>3, <2>4, RequestTyped DEF Safe, RequestOwns
<1>3. Typed'
  BY DEF Typed
<1>4. Quiet' /\ \A f \in ready' : reg'[f] # None
  BY DEF Safe, Quiet
<1>5. \A f \in Fds : FileOwned(f)'
  BY <1>2, FileTyped, EpollAssumption DEF Safe, FileOwned
<1>6. EventsLive'
  BY <1>2 DEF Typed, EventType, Safe, EventsLive
<1>7. InStep'
  BY <1>1, <1>2 DEF InStep, StateOf
<1>8. EdgesKept'
  <2>1. \A a, g : HasEvent(a)' <=> HasEvent(a)
    BY DEF HasEvent
  <2>2. \A a \in Blocks, g \in Fds :
          file[g].type \in {"client", "server"} /\ Awaited(a, g) => Awaited(a, g)'
    BY <2>1 DEF Awaited
  <2> QED BY <1>2, <2>1, <2>2, WaitsFor DEF Safe, EdgesKept, Alive
<1> QED BY <1>2, <1>3, <1>4, <1>5, <1>6, <1>7, <1>8 DEF Safe

(* Those that find nothing to do: the request waits for an event.           *)
LEMMA PauseSafe ==
    ASSUME Typed, Safe, pc \in {"read_request", "read_response", "send_response"},
           State(active) = 0 => ~Pending(mem[active].client_fd),
           State(active) = 2 => ~Pending(mem[active].server_fd),
           pc' = "event", active' = None,
           UNCHANGED <<peers, kernel, mem, heap, batch>>
    PROVE  Typed' /\ Safe'
<1> USE DEF peers, kernel, given
<1>1. Typed' /\ Quiet' /\ InStep' /\ \A g \in ready' : reg'[g] # None
  BY DEF Typed, Safe, Quiet, InStep, StateOf
<1>2. \A f \in Fds : FileOwned(f)'
  BY DEF Safe, FileOwned, Live, State
<1>3. \A b \in Blocks : RequestOwns(b)' /\ NotInUse(b)'
  BY DEF Safe, RequestOwns, NotInUse, Live, State
<1>4. EventsLive'
  BY EpollAssumption DEF Safe, EventsLive, Typed, EventType, Live, State
<1>5. EdgesKept'
  <2>1. \A a : HasEvent(a)' <=> HasEvent(a)
    BY DEF HasEvent
  <2>2. \A a \in Blocks, g \in Fds : Awaited(a, g) /\ (a = active => ~Pending(g)) => Awaited(a, g)'
    BY <2>1 DEF Awaited, Pending
  <2> QED BY <2>1, <2>2, WaitsFor DEF Safe, EdgesKept, Live, State, Alive
<1> QED BY <1>1, <1>2, <1>3, <1>4, <1>5 DEF Safe

(* Those that close the request's connections: it is no longer under way.   *)
LEMMA CloseSafe ==
    ASSUME Typed, Safe, pc \in {"open", "send_response"},
           NEW b, b = active, Live(b), State(b) \in {0, 3},
           NEW F, F = {mem[b].client_fd} \cup (IF State(b) = 3 THEN {mem[b].server_fd} ELSE {}),
           CloseFds(F),
           mem' \in [Blocks -> RequestType], heap' \in [Blocks -> HeapType],
           \A a \in Blocks \ {b} : mem'[a] = mem[a] /\ heap'[a] = heap[a],
           ~Live(b)', NotInUse(b)', HasEvent(b) => heap'[b] = "live",
           UNCHANGED <<given, sent, recvd, eof, rst, backlog, lready, batch>>,
           active' = None, pc' \in {"event", "crashed"}
    PROVE  Typed' /\ Safe'
<1> USE DEF given
<1>1. b \in Blocks /\ b # None
  BY EpollAssumption DEF Safe, InStep, StateOf
<1>2. /\ file' = [g \in Fds |-> IF g \in F THEN Closed ELSE file[g]]
      /\ reg' = [g \in Fds |-> IF g \in F THEN None ELSE reg[g]]
      /\ ready' = ready \ F
  BY DEF CloseFds
<1>3. Closed \in FileType /\ Closed.type = "free" /\ Closed.st # "reset"
  BY DEF Closed, FileType
<1>4. \A a \in Blocks \ {b} : (Live(a)' <=> Live(a)) /\ State(a)' = State(a)
  BY DEF Live, State
<1>5. \A g \in Fds : reg[g] = b => g \in F
  BY <1>1, FileTyped, EpollAssumption DEF Safe, FileOwned
<1>6. \A a \in Blocks \ {b} : Live(a) =>
        mem[a].client_fd \notin F /\ (State(a) \in 1 .. 3 => mem[a].server_fd \notin F)
  BY <1>1 DEF Safe, RequestOwns
<1>7. \A a \in Blocks : Live(a) => State(a) # 1
  BY DEF Safe, RequestOwns
<1>8. Typed'
  BY <1>2, <1>3 DEF Typed
<1>9. Quiet' /\ \A f \in ready' : reg'[f] # None
  BY <1>2, <1>3 DEF Typed, Safe, Quiet
<1>10. \A g \in Fds : FileOwned(g)'
  <2> SUFFICES ASSUME NEW g \in Fds PROVE FileOwned(g)'
    OBVIOUS
  <2>1. CASE g \in F
    BY <1>2, <1>3, <2>1 DEF FileOwned
  <2>2. CASE g \notin F
    BY <1>1, <1>2, <1>4, <1>5, <1>7, <2>2, FileTyped, EpollAssumption DEF Safe, FileOwned
  <2> QED BY <2>1, <2>2
<1>11. \A a \in Blocks : RequestOwns(a)' /\ NotInUse(a)'
  <2> SUFFICES ASSUME NEW a \in Blocks PROVE RequestOwns(a)' /\ NotInUse(a)'
    OBVIOUS
  <2>1. CASE a = b
    BY <2>1 DEF RequestOwns
  <2>2. CASE a # b
    BY <1>2, <1>4, <1>6, <1>7, <2>2, RequestTyped DEF Safe, RequestOwns, NotInUse
  <2> QED BY <2>1, <2>2
<1>12. EventsLive'
  <2> SUFFICES ASSUME NEW d \in batch
               PROVE  /\ ~d.hup /\ (d.ptr # Listener => heap'[d.ptr] = "live")
                      /\ (d.ptr # Listener /\ State(d.ptr)' = 0 /\ Live(d.ptr)' =>
                             d.fd = mem'[d.ptr].client_fd /\ d.ptr # None)
    BY DEF EventsLive
  <2>1. d.ptr \in Blocks \cup {Listener} /\ (d.ptr = b => heap'[b] = "live")
    BY DEF Typed, EventType, HasEvent
  <2> QED BY <1>1, <1>4, <2>1, EpollAssumption DEF Safe, EventsLive
<1>13. InStep'
  BY DEF InStep, StateOf
<1>14. EdgesKept'
  <2>1. \A a : HasEvent(a)' <=> HasEvent(a)
    BY DEF HasEvent
  <2>2. \A a \in Blocks \ {b}, g \in Fds \ F : Awaited(a, g) => Awaited(a, g)'
    BY <1>2, <2>1 DEF Awaited, Pending
  <2>3. ASSUME NEW a \in Blocks, Live(a)'
        PROVE  /\ State(a)' = 0 => Awaited(a, mem[a].client_fd)'
               /\ State(a)' = 2 => Awaited(a, mem[a].server_fd)'
    <3>1. a # b /\ Live(a) /\ State(a)' = State(a) /\ mem'[a] = mem[a]
      BY <1>4, <2>3
    <3> QED BY <1>6, <2>2, <3>1, WaitsFor DEF Safe, EdgesKept, Alive
  <2>4. backlog' # <<>> => lready' \/ HasEvent(Listener)'
    BY <2>1 DEF Safe, EdgesKept, Alive
  <2> QED BY <2>3, <2>4 DEF EdgesKept
<1> QED BY <1>8, <1>9, <1>10, <1>11, <1>12, <1>13, <1>14 DEF Safe

-----------------------------------------------------------------------------
(* The buffers stay sequences of cells.                                     *)
LEMMA PutTyped ==
    ASSUME NEW buf \in Seq(Cells), NEW off \in Nat, NEW cells \in Seq(Cells)
    PROVE  Put(buf, off, cells) \in Seq(Cells)
<1> DEFINE n == IF Len(buf) > off + Len(cells) THEN Len(buf) ELSE off + Len(cells)
           e(i) == IF i \in off + 1 .. off + Len(cells) THEN cells[i - off]
                   ELSE IF i <= Len(buf) THEN buf[i] ELSE None
<1>1. Len(buf) \in Nat /\ Len(cells) \in Nat /\ n \in Nat
  OBVIOUS
<1>2. \A i \in 1 .. n : e(i) \in Cells
  <2> SUFFICES ASSUME NEW i \in 1 .. n PROVE e(i) \in Cells
    OBVIOUS
  <2>1. CASE i \in off + 1 .. off + Len(cells)
    <3>1. i - off \in 1 .. Len(cells)
      BY <1>1, <2>1
    <3> QED BY <2>1, <3>1, ElementOfSeq
  <2>2. CASE i \notin off + 1 .. off + Len(cells) /\ i <= Len(buf)
    BY <1>1, <2>2, ElementOfSeq
  <2>3. CASE i \notin off + 1 .. off + Len(cells) /\ ~(i <= Len(buf))
    BY <2>3 DEF Cells
  <2> QED BY <2>1, <2>2, <2>3
<1>3. Put(buf, off, cells) = [i \in 1 .. n |-> e(i)]
  BY DEF Put
<1> HIDE DEF n, e
<1> QED BY <1>1, <1>2, <1>3, IsASeq

(* Clearing a buffer.                                                       *)
LEMMA ClearTyped ==
    ASSUME NEW buf \in Seq(Cells), NEW n \in Nat PROVE Clear(buf, n) \in Seq(Cells)
<1>1. \A i \in 1 .. Len(buf) : (IF i <= n THEN None ELSE buf[i]) \in Cells
  BY ElementOfSeq DEF Cells
<1>2. Len(buf) \in Nat /\ DOMAIN buf = 1 .. Len(buf)
  OBVIOUS
<1> QED BY <1>1, <1>2, IsASeq DEF Clear

(* A buffer with complete headers begins with a cell of a client.           *)
LEMMA CompleteHasClient ==
    ASSUME NEW buf \in Seq(Cells), Complete(buf) PROVE buf[1][1] \in Clients
<1>1. PICK i \in DOMAIN buf : \A j \in 1 .. i : buf[j] # None
  BY DEF Complete
<1>2. 1 \in 1 .. i /\ 1 \in 1 .. Len(buf)
  BY <1>1
<1>3. buf[1] \in Cells /\ buf[1] # None
  BY <1>1, <1>2, ElementOfSeq
<1> QED BY <1>3 DEF Cells

(* What the running request is.                                             *)
LEMMA Running ==
    ASSUME Typed, Safe, pc \in DOMAIN StateOf
    PROVE  /\ active \in Blocks /\ active # None /\ Live(active) /\ heap[active] = "live"
           /\ State(active) = StateOf[pc]
           /\ mem[active].client_fd \in Fds /\ file[mem[active].client_fd].type = "client"
           /\ pc \in {"send_request", "read_response", "send_response"} =>
                mem[active].server_fd \in Fds /\ file[mem[active].server_fd].type = "server"
BY EpollAssumption DEF Safe, InStep, StateOf, RequestOwns, Live

(* recv takes what there is.                                                *)
LEMMA TakenFromClient ==
    ASSUME Typed, Quiet, NEW f \in Fds, file[f].type = "client", Taken(f), UNCHANGED sent
    PROVE  /\ file' = file /\ recvd' \in [Clients -> 0 .. 2]
           /\ \A c \in Clients : recvd'[c] <= sent[c]
           /\ \A g \in Fds : file[g].type \in {"client", "server"} /\ Pending(g)' => Pending(g)
<1>1. file' = file /\ recvd' = [recvd EXCEPT ![file[f].of] = sent[file[f].of]]
  BY DEF Taken, FileOf
<1>2. file[f].of \in Clients
  BY DEF Quiet
<1>3. /\ recvd \in [Clients -> 0 .. 2] /\ sent \in [Clients -> 0 .. 2]
      /\ \A c \in Clients : recvd[c] <= sent[c]
  BY DEF Typed
<1>4. /\ recvd' \in [Clients -> 0 .. 2]
      /\ \A c \in Clients : recvd'[c] = recvd[c] \/ recvd'[c] = sent[c]
  BY <1>1, <1>2, <1>3
<1>5. \A c \in Clients : recvd'[c] <= sent[c] /\ (recvd'[c] < sent[c] => recvd[c] < sent[c])
  BY <1>3, <1>4
<1> QED BY <1>1, <1>4, <1>5 DEF Pending, Quiet

(* recv from a server: nothing is left to take before it closes.            *)
LEMMA TakenFromServer ==
    ASSUME Typed, Quiet, NEW f \in Fds, file[f].type = "server", Taken(f), UNCHANGED sent
    PROVE  /\ recvd' = recvd /\ file' \in [Fds -> FileType]
           /\ \A g \in Fds : file'[g].type = file[g].type /\ file'[g].of = file[g].of
                             /\ file'[g].st = file[g].st
           /\ \A g \in Fds : file[g].type \in {"client", "server"} /\ Pending(g)' => Pending(g)
<1>1. recvd' = recvd /\ (file' = file \/ file' = [file EXCEPT ![f].got = TRUE])
  BY DEF Taken, FileOf
<1>2. file[f] \in FileType /\ file \in [Fds -> FileType]
  BY FileTyped DEF Typed
<1>3. CASE file' = file
  BY <1>1, <1>2, <1>3 DEF Pending
<1>4. CASE file' = [file EXCEPT ![f].got = TRUE]
  <2> DEFINE yes == TRUE
  <2>1. yes \in BOOLEAN
    OBVIOUS
  <2>2. file' = [file EXCEPT ![f].got = yes]
    BY <1>4
  <2> HIDE DEF yes
  <2>3. file'[f] = [file[f] EXCEPT !.got = yes] /\ \A g \in Fds \ {f} : file'[g] = file[g]
    BY <1>2, <2>2
  <2>4. file'[f] \in FileType /\ file' \in [Fds -> FileType]
    BY <1>2, <2>1, <2>2, <2>3 DEF FileType
  <2>5. file'[f].type = file[f].type /\ file'[f].of = file[f].of /\ file'[f].st = file[f].st
        /\ file'[f].got = yes
    BY <1>2, <2>3 DEF FileType
  <2>6. \A g \in Fds : file[g].type \in {"client", "server"} /\ Pending(g)' => Pending(g)
    <3>1. \A g \in Fds \ {f} : Pending(g)' => Pending(g)
      BY <1>1, <2>3 DEF Pending
    <3>2. file'[f].got
      BY <2>5, Zenon DEF yes
    <3>3. Pending(f)' => Pending(f)
      BY <1>1, <2>5, <3>2 DEF Pending
    <3> QED BY <3>1, <3>3
  <2> QED BY <1>1, <2>3, <2>4, <2>5, <2>6
<1> QED BY <1>1, <1>3, <1>4

-----------------------------------------------------------------------------
(* The active request takes another value.                                  *)
LEMMA Becoming ==
    ASSUME Typed, NEW b \in Blocks, NEW r \in RequestType, mem' = [mem EXCEPT ![b] = r]
    PROVE  /\ mem' \in [Blocks -> RequestType] /\ mem'[b] = r
           /\ \A a \in Blocks \ {b} : mem'[a] = mem[a]
BY DEF Typed

(* READ_REQUEST, the loop: it ends when nothing is left to read.            *)
LEMMA ReadRequestSafe == ASSUME Typed, Safe, ReadRequest PROVE Typed' /\ Safe'
<1> DEFINE in == Input(request.client_fd)
           new == Put(request.read_buffer, request.read_bytes_client, in.cells)
           count == Count(request.read_bytes_client, in.cells)
           r == [request EXCEPT !.read_buffer = new, !.read_bytes_client = count]
<1>1. /\ pc = "read_request" /\ active \in Blocks /\ active # None /\ Live(active)
      /\ heap[active] = "live" /\ State(active) = 0 /\ request = mem[active]
      /\ request.client_fd \in Fds /\ file[request.client_fd].type = "client"
  BY Running DEF ReadRequest, StateOf, request
<1>2. /\ ~in.eof /\ ~in.error /\ in.cells \in Seq(Cells)
  BY <1>1, InputOfClient DEF Safe
<1>3. CASE in.cells # <<>>
  <2>1. /\ Taken(request.client_fd) /\ Becomes(r)
        /\ pc' = IF Complete(new) THEN "open" ELSE "read_request"
        /\ UNCHANGED <<given, sent, eof, rst, conn, backlog, reply,
                       reg, wreg, ready, lready, active>>
        /\ UNCHANGED <<batch, sig_flag>>
    BY <1>2, <1>3 DEF ReadRequest
  <2>2. request \in RequestType /\ new \in Seq(Cells) /\ count \in Nat
    BY <1>1, <1>2, PutTyped, RequestTyped DEF Count
  <2> HIDE DEF new, count
  <2>3. r \in RequestType
    BY <2>2 DEF RequestType
  <2>4. r.client_fd = request.client_fd /\ r.server_fd = request.server_fd
        /\ r.current_state = request.current_state /\ r.read_buffer = new
    BY <2>2 DEF RequestType
  <2> HIDE DEF r
  <2>5. /\ mem' \in [Blocks -> RequestType] /\ mem'[active] = r /\ UNCHANGED heap
        /\ \A a \in Blocks \ {active} : mem'[a] = mem[a]
    BY <1>1, <2>1, <2>3, Becoming DEF Becomes
  <2>6. \A a \in Blocks : /\ mem'[a].client_fd = mem[a].client_fd
                          /\ mem'[a].server_fd = mem[a].server_fd
                          /\ State(a)' = State(a)
    BY <1>1, <2>4, <2>5 DEF State
  <2>7. /\ file' = file /\ recvd' \in [Clients -> 0 .. 2]
        /\ \A c \in Clients : recvd'[c] <= sent[c]
        /\ \A g \in Fds : file[g].type \in {"client", "server"} /\ Pending(g)' => Pending(g)
    BY <1>1, <2>1, TakenFromClient DEF Safe
  <2>8. pc' \in DOMAIN StateOf /\ StateOf[pc'] = StateOf[pc]
    BY <1>1, <2>1 DEF StateOf
  <2>9. pc' = "open" => Complete(mem'[active].read_buffer)
    BY <2>1, <2>4, <2>5
  <2>10. file' \in [Fds -> FileType]
    BY <2>7 DEF Typed
  <2> QED BY <1>1, <2>1, <2>5, <2>6, <2>7, <2>8, <2>9, <2>10, LoopSafe
<1>4. CASE in.cells = <<>>
  <2>1. UNCHANGED <<peers, kernel, mem, heap>> /\ Continue(1, active) /\ UNCHANGED <<batch, sig_flag>>
    BY <1>2, <1>4 DEF ReadRequest
  <2>2. pc' = "event" /\ active' = None
    BY <1>1, <2>1 DEF Continue, State
  <2>3. ~Pending(mem[active].client_fd)
    BY <1>1, <1>2, <1>4, ReadableIsPending DEF Safe, Readable
  <2> QED BY <1>1, <2>1, <2>2, <2>3, PauseSafe
<1> QED BY <1>3, <1>4

(* A block linked into the free list, its first fields overwritten.         *)
LEMMA LinkedTyped ==
    ASSUME NEW r \in RequestType, NEW f \in Fds \cup {BadFd}, NEW s \in 0 .. Wild
    PROVE  [r EXCEPT !.client_fd = f, !.server_fd = f, !.current_state = s] \in RequestType
BY DEF RequestType

(* free: the block is dead, and holds what it held or free-list links.      *)
LEMMA Releasing ==
    ASSUME Typed, NEW b \in Blocks, Release(b)
    PROVE  /\ mem' \in [Blocks -> RequestType] /\ heap' \in [Blocks -> HeapType]
           /\ \A a \in Blocks \ {b} : mem'[a] = mem[a] /\ heap'[a] = heap[a]
           /\ heap'[b] # "live"
           /\ State(b)' = State(b) \/ (State(b)' = Wild /\ mem'[b].server_fd = BadFd)
<1>1. PICK how \in system.frees :
        /\ heap' = [heap EXCEPT ![b] = how]
        /\ mem' = IF how = "linked"
                  THEN [mem EXCEPT ![b].client_fd = BadFd, ![b].server_fd = BadFd,
                                   ![b].current_state = Wild]
                  ELSE mem
  BY DEF Release
<1>2. system \in SystemType
  BY EpollAssumption DEF Typed
<1>3. how \in {"unmapped", "merged", "linked"}
  BY <1>2 DEF SystemType
<1>4. mem \in [Blocks -> RequestType] /\ heap \in [Blocks -> HeapType] /\ mem[b] \in RequestType
  BY DEF Typed
<1>5. /\ heap' \in [Blocks -> HeapType] /\ heap'[b] # "live"
      /\ \A a \in Blocks \ {b} : heap'[a] = heap[a]
  BY <1>1, <1>3, <1>4 DEF HeapType
<1>6. CASE how # "linked"
  BY <1>1, <1>4, <1>5, <1>6 DEF State
<1>7. CASE how = "linked"
  <2> DEFINE r == [mem[b] EXCEPT !.client_fd = BadFd, !.server_fd = BadFd, !.current_state = Wild]
  <2>1. mem' = [mem EXCEPT ![b] = r]
    BY <1>1, <1>4, <1>7
  <2>2. r.server_fd = BadFd /\ r.current_state = Wild
    BY <1>4 DEF RequestType
  <2>3. r \in RequestType
    <3>1. Wild \in 0 .. Wild /\ BadFd \in Fds \cup {BadFd}
      BY DEF Wild
    <3> QED BY <1>4, <3>1, LinkedTyped
  <2> HIDE DEF r
  <2> QED BY <1>5, <2>1, <2>2, <2>3, Becoming DEF State
<1> QED BY <1>6, <1>7

(* A request that is given up.                                              *)
LEMMA GiveUpSafe ==
    ASSUME Typed, Safe, pc = "open", GiveUp({request.client_fd}), Continue(1, active),
           UNCHANGED <<batch, sig_flag>>
    PROVE  Typed' /\ Safe'
<1>1. /\ active \in Blocks /\ Live(active) /\ State(active) = 0 /\ request = mem[active]
  BY Running DEF StateOf, request
<1>2. /\ CloseFds({mem[active].client_fd}) /\ Release(active)
      /\ UNCHANGED <<given, sent, recvd, eof, rst, backlog, reply, lready>>
  BY <1>1 DEF GiveUp
<1>3. /\ mem' \in [Blocks -> RequestType] /\ heap' \in [Blocks -> HeapType]
      /\ \A a \in Blocks \ {active} : mem'[a] = mem[a] /\ heap'[a] = heap[a]
      /\ heap'[active] # "live"
  BY <1>1, <1>2, Releasing
<1> DEFINE b == active
           stateAfter == mem'[b].current_state
           serverAfter == mem'[b].server_fd
<1>4. stateAfter = 0 \/ (stateAfter = Wild /\ serverAfter = BadFd)
  BY <1>1, <1>2, Releasing DEF State
<1>5. \A a \in Blocks : a = active => ~Live(a)' /\ NotInUse(a)'
  BY <1>3, <1>4 DEF Live, NotInUse, State
<1>6. active' = None /\ pc' \in {"event", "crashed"}
  BY <1>1, <1>4 DEF Continue, Wild
<1>7. ~HasEvent(active)
  BY <1>1, EpollAssumption DEF Safe, EventsLive, HasEvent
<1>8. \A a \in Blocks : a = active => Typed' /\ Safe'
  <2> SUFFICES ASSUME NEW a \in Blocks, a = active PROVE Typed' /\ Safe'
    OBVIOUS
  <2>1. {mem[active].client_fd} = {mem[a].client_fd} \cup (IF State(a) = 3 THEN {mem[a].server_fd} ELSE {})
    BY <1>1
  <2> QED BY <1>1, <1>2, <1>3, <1>5, <1>6, <1>7, <2>1, CloseSafe
<1> QED BY <1>1, <1>8

(* A request for which a connection to its server is made.                  *)
LEMMA ServerFile ==
    ASSUME NEW c \in Clients, NEW o,
           o = [type |-> "server", of |-> c, st |-> "new", got |-> FALSE]
    PROVE  o.type = "server" /\ o.of = c /\ o.st # "reset" /\ o \in FileType
<1> DEFINE no == FALSE
<1>1. no \in BOOLEAN
  OBVIOUS
<1>2. o = [type |-> "server", of |-> c, st |-> "new", got |-> no]
  OBVIOUS
<1> HIDE DEF no
<1> QED BY <1>1, <1>2 DEF FileType

(* A connection to the server is opened for the active request.             *)
LEMMA OpenedSafe ==
    ASSUME Typed, Safe, pc = "open", NEW b \in Blocks, b = active,
           FreeFds # {}, NEW f, f = Lowest(FreeFds), NEW c \in Clients,
           NEW o, o = [type |-> "server", of |-> c, st |-> "new", got |-> FALSE],
           file' = [file EXCEPT ![f] = o],
           mem' \in [Blocks -> RequestType], \A a \in Blocks \ {b} : mem'[a] = mem[a],
           mem'[b].client_fd = mem[b].client_fd, mem'[b].server_fd = f,
           mem'[b].current_state = 1,
           UNCHANGED <<peers, reg, ready, lready, heap, batch>>,
           pc' = "send_request", active' = b
    PROVE  Typed' /\ Safe'
<1> USE DEF peers, given
<1>1. Live(b) /\ heap[b] = "live" /\ State(b) = 0 /\ b # None
  BY Running DEF StateOf
<1>2. /\ f \in Fds /\ file[f].type = "free" /\ reg[f] = None /\ f \notin ready
      /\ \A a \in Blocks : Live(a) =>
           mem[a].client_fd # f /\ (State(a) \in 1 .. 3 => mem[a].server_fd # f)
  BY LowestFree
<1>3. o.type = "server" /\ o.of = c /\ o.st # "reset" /\ o \in FileType
  BY ServerFile
<1>4. file' \in [Fds -> FileType] /\ file'[f] = o /\ \A g \in Fds \ {f} : file'[g] = file[g]
  BY <1>2, <1>3 DEF Typed
<1>5. /\ \A a \in Blocks \ {b} : (Live(a)' <=> Live(a)) /\ State(a)' = State(a)
      /\ Live(b)' /\ State(b)' = 1
  BY <1>1 DEF Live, State
<1>6. \A a \in Blocks : Live(a) => State(a) # 1
  BY DEF Safe, RequestOwns
<1>7. Typed'
  BY <1>4 DEF Typed
<1>8. Quiet' /\ \A g \in ready' : reg'[g] # None
  BY <1>3, <1>4 DEF Safe, Quiet
<1>9. \A g \in Fds : FileOwned(g)'
  <2> SUFFICES ASSUME NEW g \in Fds PROVE FileOwned(g)'
    OBVIOUS
  <2>1. CASE g = f
    BY <1>2, <1>3, <1>4, <1>5, <2>1 DEF FileOwned
  <2>2. CASE g # f
    <3>1. file'[g] = file[g] /\ reg'[g] = reg[g]
      BY <1>4, <2>2
    <3>2. file[g].type = "client" => reg[g] \in Blocks /\ Live(reg[g])' /\ mem'[reg[g]].client_fd = g
      BY <1>5 DEF Safe, FileOwned
    <3>3. file[g].type = "server" =>
             \E a \in Blocks : Live(a)' /\ mem'[a].server_fd = g /\ State(a)' \in 1 .. 3
                               /\ reg[g] = IF State(a)' = 1 THEN None ELSE a
      BY <1>1, <1>5 DEF Safe, FileOwned
    <3> QED BY <3>1, <3>2, <3>3 DEF Safe, FileOwned
  <2> QED BY <2>1, <2>2
<1>10. \A a \in Blocks : RequestOwns(a)' /\ NotInUse(a)'
  <2> SUFFICES ASSUME NEW a \in Blocks PROVE RequestOwns(a)' /\ NotInUse(a)'
    OBVIOUS
  <2>1. CASE a = b
    BY <1>1, <1>2, <1>3, <1>4, <1>5, <2>1 DEF Safe, RequestOwns, NotInUse, Wild
  <2>2. CASE a # b
    BY <1>2, <1>4, <1>5, <1>6, <2>2 DEF Safe, RequestOwns, NotInUse
  <2> QED BY <2>1, <2>2
<1>11. EventsLive'
  <2> SUFFICES ASSUME NEW d \in batch
               PROVE  /\ ~d.hup /\ (d.ptr # Listener => heap[d.ptr] = "live")
                      /\ (d.ptr # Listener /\ State(d.ptr)' = 0 /\ Live(d.ptr)' =>
                             d.fd = mem'[d.ptr].client_fd /\ d.ptr # b)
    BY DEF EventsLive
  <2>1. d.ptr \in Blocks \cup {Listener}
    BY DEF Typed, EventType, Safe, EventsLive
  <2> QED BY <1>5, <2>1 DEF Safe, EventsLive
<1>12. InStep'
  BY <1>5 DEF InStep, StateOf
<1>13. EdgesKept'
  <2>1. \A a : HasEvent(a)' <=> HasEvent(a)
    BY DEF HasEvent
  <2>2. \A a \in Blocks, g \in Fds \ {f} : Awaited(a, g) => Awaited(a, g)'
    BY <1>4, <2>1 DEF Awaited, Pending
  <2>3. ASSUME NEW a \in Blocks, Live(a)'
        PROVE  /\ State(a)' = 0 => Awaited(a, mem[a].client_fd)'
               /\ State(a)' = 2 => Awaited(a, mem[a].server_fd)'
    <3>1. CASE a = b
      BY <1>5, <3>1
    <3>2. CASE a # b
      BY <1>2, <1>5, <2>2, <2>3, <3>2, WaitsFor DEF Safe, EdgesKept, Alive
    <3> QED BY <3>1, <3>2
  <2>4. backlog # <<>> => lready \/ HasEvent(Listener)
    BY DEF Safe, EdgesKept, Alive
  <2> QED BY <2>1, <2>3, <2>4 DEF EdgesKept
<1> QED BY <1>7, <1>8, <1>9, <1>10, <1>11, <1>12, <1>13 DEF Safe

(* The request, once it has a connection to its server.                     *)
LEMMA OpenedTyped ==
    ASSUME NEW q \in RequestType, NEW f \in Fds, NEW s \in 0 .. Wild, NEW n \in Nat,
           NEW wbuf \in Seq(Cells), NEW rbuf \in Seq(Cells)
    PROVE  [q EXCEPT !.server_fd = f, !.current_state = s, !.write_buffer = wbuf,
                     !.total_write_amount = n, !.read_buffer = rbuf] \in RequestType
BY DEF RequestType

(* READ_REQUEST, the rest: the connection is opened, or the request given up. *)
LEMMA OpenSafe == ASSUME Typed, Safe, Open PROVE Typed' /\ Safe'
<1> DEFINE c == request.read_buffer[1][1]
           f == Lowest(FreeFds)
           wbuf == Put(request.write_buffer, 0, << <<c, "request">> >>)
           rbuf == Clear(request.read_buffer, request.read_bytes_client)
           r == [request EXCEPT !.server_fd = f, !.current_state = 1, !.write_buffer = wbuf,
                                !.total_write_amount = 1, !.read_buffer = rbuf]
<1>1. /\ pc = "open" /\ active \in Blocks /\ active # None /\ Live(active)
      /\ heap[active] = "live" /\ State(active) = 0 /\ request = mem[active]
      /\ request.client_fd \in Fds /\ file[request.client_fd].type = "client"
  BY Running DEF Open, StateOf, request
<1>2. request.read_buffer \in Seq(Cells) /\ Complete(request.read_buffer)
  BY <1>1, RequestTyped DEF Safe, InStep
<1>3. c \in Clients
  BY <1>2, CompleteHasClient
<1>4. CASE GiveUp({request.client_fd})
  BY <1>1, <1>4, GiveUpSafe DEF Open
<1>5. CASE /\ FreeFds # {}
           /\ file' = [file EXCEPT ![f] = [type |-> "server", of |-> c, st |-> "new", got |-> FALSE]]
           /\ Becomes(r)
           /\ UNCHANGED <<peers, reg, ready, lready>>
  <2>1. f \in Fds
    BY <1>5, LowestFree
  <2>2. request \in RequestType /\ wbuf \in Seq(Cells) /\ rbuf \in Seq(Cells)
    <3>1. << <<c, "request">> >> \in Seq(Cells)
      BY <1>3 DEF Cells
    <3>2. /\ request \in RequestType /\ request.write_buffer \in Seq(Cells)
          /\ request.read_bytes_client \in Nat /\ 0 \in Nat
      BY <1>1, RequestTyped
    <3> QED BY <1>2, <3>1, <3>2, PutTyped, ClearTyped
  <2> HIDE DEF wbuf, rbuf, f
  <2>3. r \in RequestType
    <3>1. 1 \in 0 .. Wild /\ 1 \in Nat
      BY DEF Wild
    <3> QED BY <2>1, <2>2, <3>1, OpenedTyped
  <2>4. r.client_fd = request.client_fd /\ r.server_fd = f /\ r.current_state = 1
    BY <2>2 DEF RequestType
  <2> HIDE DEF r
  <2>5. /\ mem' \in [Blocks -> RequestType] /\ mem'[active] = r /\ UNCHANGED heap
        /\ \A a \in Blocks \ {active} : mem'[a] = mem[a]
    BY <1>1, <1>5, <2>3, Becoming DEF Becomes
  <2>6. pc' = "send_request" /\ active' = active
    BY <1>1, <2>4, <2>5 DEF Open, Continue, Steps
  <2>7. UNCHANGED batch
    BY DEF Open
  <2> QED BY <1>1, <1>3, <1>5, <2>4, <2>5, <2>6, <2>7, OpenedSafe DEF f
<1> QED BY <1>4, <1>5 DEF Open

(* A request that has been sent to its server.                              *)
LEMMA Asking ==
    ASSUME Typed, Safe, NEW f \in Fds, NEW cells, file' = Asked(f, cells), UNCHANGED <<sent, recvd>>
    PROVE  /\ file' \in [Fds -> FileType]
           /\ \A g \in Fds : file'[g].type = file[g].type /\ file'[g].of = file[g].of
                             /\ file'[g].st # "reset"
           /\ \A g \in Fds : file[g].type \in {"client", "server"} /\ Pending(g)' => Pending(g)
<1>1. file' = file \/ file' = [file EXCEPT ![f].st = "asked"]
  BY DEF Asked
<1>2. file[f] \in FileType /\ file \in [Fds -> FileType]
  BY FileTyped DEF Typed
<1>3. CASE file' = file
  BY <1>2, <1>3 DEF Pending, Safe, Quiet
<1>4. CASE file' = [file EXCEPT ![f].st = "asked"]
  <2>1. [file[f] EXCEPT !.st = "asked"] \in FileType
    BY <1>2 DEF FileType
  <2>2. /\ file' \in [Fds -> FileType] /\ file'[f] = [file[f] EXCEPT !.st = "asked"]
        /\ \A g \in Fds \ {f} : file'[g] = file[g]
    BY <1>2, <1>4, <2>1
  <2>3. file'[f].type = file[f].type /\ file'[f].of = file[f].of /\ file'[f].st = "asked"
    BY <1>2, <2>2 DEF FileType
  <2> QED BY <2>2, <2>3 DEF Pending, Safe, Quiet
<1> QED BY <1>1, <1>3, <1>4

(* The request is written and its connection to the server registered: input *)
(* that has come before is an edge.                                         *)
LEMMA RegisteredSafe ==
    ASSUME Typed, Safe, pc = "send_request", NEW b \in Blocks, b = active,
           NEW f, f = mem[b].server_fd, NEW cells, file' = Asked(f, cells),
           reg' = [reg EXCEPT ![f] = b],
           ready' = IF Readable(f) THEN ready \cup {f} ELSE ready,
           mem' \in [Blocks -> RequestType], \A a \in Blocks \ {b} : mem'[a] = mem[a],
           mem'[b].client_fd = mem[b].client_fd, mem'[b].server_fd = f,
           mem'[b].current_state = 2,
           UNCHANGED <<given, sent, recvd, eof, rst, backlog, lready, heap, batch>>,
           pc' = "read_response", active' = b
    PROVE  Typed' /\ Safe'
<1> USE DEF given
<1>1. Live(b) /\ heap[b] = "live" /\ State(b) = 1 /\ b # None
  BY Running DEF StateOf
<1>2. /\ f \in Fds /\ file[f].type = "server" /\ reg[f] = None
      /\ \A a \in Blocks \ {b} : Live(a) =>
           mem[a].client_fd # f /\ (State(a) \in 1 .. 3 => mem[a].server_fd # f)
  BY <1>1, EpollAssumption DEF Safe, RequestOwns
<1>3. /\ file' \in [Fds -> FileType]
      /\ \A g \in Fds : file'[g].type = file[g].type /\ file'[g].of = file[g].of
                        /\ file'[g].st # "reset"
      /\ \A g \in Fds : file[g].type \in {"client", "server"} /\ Pending(g)' => Pending(g)
  BY <1>2, Asking
<1>4. /\ reg' \in [Fds -> Blocks \cup {None}] /\ reg'[f] = b
      /\ \A g \in Fds \ {f} : reg'[g] = reg[g]
  BY <1>2 DEF Typed
<1>5. /\ \A a \in Blocks \ {b} : (Live(a)' <=> Live(a)) /\ State(a)' = State(a)
      /\ Live(b)' /\ State(b)' = 2
  BY <1>1 DEF Live, State
<1>6. \A a \in Blocks \ {b} : Live(a) => State(a) # 1
  BY DEF Safe, RequestOwns
<1>7. Typed'
  BY <1>2, <1>3, <1>4 DEF Typed
<1>8. Quiet' /\ \A g \in ready' : reg'[g] # None
  <2>1. \A g \in ready' : reg'[g] # None
    BY <1>1, <1>2, <1>4 DEF Typed, Safe
  <2> QED BY <1>3, <2>1 DEF Safe, Quiet
<1>9. \A g \in Fds : FileOwned(g)'
  <2> SUFFICES ASSUME NEW g \in Fds PROVE FileOwned(g)'
    OBVIOUS
  <2>1. CASE g = f
    BY <1>2, <1>3, <1>4, <1>5, <2>1 DEF FileOwned
  <2>2. CASE g # f
    <3>1. file'[g].type = file[g].type /\ reg'[g] = reg[g]
      BY <1>3, <1>4, <2>2
    <3>2. file[g].type = "client" => reg[g] \in Blocks /\ Live(reg[g])' /\ mem'[reg[g]].client_fd = g
      BY <1>5 DEF Safe, FileOwned
    <3>3. file[g].type = "server" =>
             \E a \in Blocks : Live(a)' /\ mem'[a].server_fd = g /\ State(a)' \in 1 .. 3
                               /\ reg[g] = IF State(a)' = 1 THEN None ELSE a
      BY <1>1, <1>5, <2>2 DEF Safe, FileOwned
    <3> QED BY <3>1, <3>2, <3>3 DEF Safe, FileOwned
  <2> QED BY <2>1, <2>2
<1>10. \A a \in Blocks : RequestOwns(a)' /\ NotInUse(a)'
  <2> SUFFICES ASSUME NEW a \in Blocks PROVE RequestOwns(a)' /\ NotInUse(a)'
    OBVIOUS
  <2>1. CASE a = b
    <3>1. mem[b].client_fd \in Fds /\ file[mem[b].client_fd].type = "client"
          /\ reg[mem[b].client_fd] = b
      BY <1>1 DEF Safe, RequestOwns
    <3>2. mem[b].client_fd # f
      BY <1>2, <3>1
    <3> QED BY <1>1, <1>2, <1>3, <1>4, <1>5, <2>1, <3>1, <3>2 DEF RequestOwns, NotInUse, Wild
  <2>2. CASE a # b
    BY <1>2, <1>3, <1>4, <1>5, <1>6, <2>2 DEF Safe, RequestOwns, NotInUse
  <2> QED BY <2>1, <2>2
<1>11. EventsLive'
  <2> SUFFICES ASSUME NEW d \in batch
               PROVE  /\ ~d.hup /\ (d.ptr # Listener => heap[d.ptr] = "live")
                      /\ (d.ptr # Listener /\ State(d.ptr)' = 0 /\ Live(d.ptr)' =>
                             d.fd = mem'[d.ptr].client_fd /\ d.ptr # b)
    BY DEF EventsLive
  <2>1. d.ptr \in Blocks \cup {Listener}
    BY DEF Typed, EventType
  <2> QED BY <1>5, <2>1 DEF Safe, EventsLive
<1>12. InStep'
  BY <1>5 DEF InStep, StateOf
<1>13. EdgesKept'
  <2>1. \A a : HasEvent(a)' <=> HasEvent(a)
    BY DEF HasEvent
  <2>2. \A a \in Blocks, g \in Fds :
          a # b /\ file[g].type \in {"client", "server"} /\ Awaited(a, g) => Awaited(a, g)'
    BY <1>3, <2>1 DEF Awaited
  <2>3. ASSUME NEW a \in Blocks, Live(a)'
        PROVE  /\ State(a)' = 0 => Awaited(a, mem[a].client_fd)'
               /\ State(a)' = 2 => Awaited(a, mem[a].server_fd)'
    <3>1. CASE a = b
      BY <1>5, <3>1 DEF Awaited
    <3>2. CASE a # b
      BY <1>5, <2>2, <2>3, <3>2, WaitsFor DEF Safe, EdgesKept, Alive
    <3> QED BY <3>1, <3>2
  <2>4. backlog # <<>> => lready \/ HasEvent(Listener)
    BY DEF Safe, EdgesKept, Alive
  <2> QED BY <2>1, <2>3, <2>4 DEF EdgesKept
<1> QED BY <1>7, <1>8, <1>9, <1>10, <1>11, <1>12, <1>13 DEF Safe

(* The request, once it has been written to the server.                     *)
LEMMA SentTyped ==
    ASSUME NEW q \in RequestType, NEW n \in Nat, NEW s \in 0 .. Wild, NEW wbuf \in Seq(Cells)
    PROVE  [q EXCEPT !.written_bytes_server = n, !.current_state = s, !.write_buffer = wbuf]
             \in RequestType
BY DEF RequestType

(* SEND_REQUEST: the write never fails and the registration never does.     *)
LEMMA SendRequestSafe == ASSUME Typed, Safe, SendRequest PROVE Typed' /\ Safe'
<1> DEFINE f == request.server_fd
           n == request.written_bytes_server + request.total_write_amount
           cells == Cut(request.write_buffer, request.written_bytes_server,
                        request.total_write_amount)
           wbuf == Clear(request.write_buffer, n)
           r == [request EXCEPT !.written_bytes_server = n, !.current_state = 2,
                                !.write_buffer = wbuf]
<1>1. /\ pc = "send_request" /\ active \in Blocks /\ active # None /\ Live(active)
      /\ heap[active] = "live" /\ State(active) = 1 /\ request = mem[active]
      /\ f \in Fds /\ file[f].type = "server"
  BY Running DEF SendRequest, StateOf, request
<1>2. reg[f] = None
  BY <1>1 DEF Safe, RequestOwns
<1>3. ~WriteFails(f) /\ CanAdd(f, Registered)
  BY <1>1, <1>2, InputOfServer DEF WriteFails, CanAdd, FileOf, Safe, Registered
<1>4. /\ file' = Asked(f, cells)
      /\ reg' = [reg EXCEPT ![f] = active]
      /\ ready' = IF Readable(f) THEN ready \cup {f} ELSE ready
      /\ Becomes(r)
      /\ UNCHANGED <<given, sent, recvd, eof, rst, conn, backlog, wreg, lready>>
      /\ Continue(2, active) /\ UNCHANGED <<batch, sig_flag>>
  BY <1>3 DEF SendRequest
<1>5. request \in RequestType /\ n \in Nat /\ wbuf \in Seq(Cells)
  <2>1. /\ request \in RequestType /\ request.write_buffer \in Seq(Cells) /\ n \in Nat
    BY <1>1, RequestTyped
  <2> QED BY <2>1, ClearTyped
<1> HIDE DEF n, wbuf, cells, f
<1>6. r \in RequestType
  <2>1. 2 \in 0 .. Wild
    BY DEF Wild
  <2> QED BY <1>5, <2>1, SentTyped
<1>7. r.client_fd = request.client_fd /\ r.server_fd = request.server_fd /\ r.current_state = 2
  BY <1>5 DEF RequestType
<1> HIDE DEF r
<1>8. /\ mem' \in [Blocks -> RequestType] /\ mem'[active] = r /\ UNCHANGED heap
      /\ \A a \in Blocks \ {active} : mem'[a] = mem[a]
  BY <1>1, <1>4, <1>6, Becoming DEF Becomes
<1>9. pc' = "read_response" /\ active' = active
  BY <1>1, <1>4, <1>7, <1>8 DEF Continue, Steps
<1> QED BY <1>1, <1>4, <1>7, <1>8, <1>9, RegisteredSafe DEF f

(* A request whose answer has been read.                                    *)
LEMMA RespondSafe ==
    ASSUME Typed, Safe, pc = "read_response", NEW b \in Blocks, b = active,
           mem' \in [Blocks -> RequestType], \A a \in Blocks \ {b} : mem'[a] = mem[a],
           mem'[b].client_fd = mem[b].client_fd, mem'[b].server_fd = mem[b].server_fd,
           mem'[b].current_state = 3,
           UNCHANGED <<peers, file, reg, ready, lready, heap, batch>>,
           pc' = "send_response", active' = b
    PROVE  Typed' /\ Safe'
<1> USE DEF peers, given
<1>1. Live(b) /\ heap[b] = "live" /\ State(b) = 2 /\ b # None
  BY Running DEF StateOf
<1>2. /\ \A a \in Blocks \ {b} : (Live(a)' <=> Live(a)) /\ State(a)' = State(a)
      /\ Live(b)' /\ State(b)' = 3
  BY <1>1 DEF Live, State
<1>3. \A a \in Blocks : Live(a) => State(a) # 1
  BY DEF Safe, RequestOwns
<1>4. Typed' /\ Quiet' /\ InStep' /\ \A g \in ready' : reg'[g] # None
  BY <1>2 DEF Typed, Safe, Quiet, InStep, StateOf
<1>5. \A g \in Fds : FileOwned(g)'
  <2> SUFFICES ASSUME NEW g \in Fds PROVE FileOwned(g)'
    OBVIOUS
  <2>1. file[g].type = "client" => reg[g] \in Blocks /\ Live(reg[g])' /\ mem'[reg[g]].client_fd = g
    BY <1>2 DEF Safe, FileOwned
  <2>2. file[g].type = "server" =>
          \E a \in Blocks : Live(a)' /\ mem'[a].server_fd = g /\ State(a)' \in 1 .. 3
                            /\ reg[g] = IF State(a)' = 1 THEN None ELSE a
    BY <1>1, <1>2 DEF Safe, FileOwned
  <2> QED BY <2>1, <2>2 DEF Safe, FileOwned
<1>6. \A a \in Blocks : RequestOwns(a)' /\ NotInUse(a)'
  <2> SUFFICES ASSUME NEW a \in Blocks PROVE RequestOwns(a)' /\ NotInUse(a)'
    OBVIOUS
  <2>1. CASE a = b
    BY <1>1, <1>2, <2>1 DEF Safe, RequestOwns, NotInUse, Wild
  <2>2. CASE a # b
    BY <1>2, <1>3, <2>2 DEF Safe, RequestOwns, NotInUse
  <2> QED BY <2>1, <2>2
<1>7. EventsLive'
  <2> SUFFICES ASSUME NEW d \in batch
               PROVE  /\ ~d.hup /\ (d.ptr # Listener => heap[d.ptr] = "live")
                      /\ (d.ptr # Listener /\ State(d.ptr)' = 0 /\ Live(d.ptr)' =>
                             d.fd = mem'[d.ptr].client_fd /\ d.ptr # b)
    BY DEF EventsLive
  <2>1. d.ptr \in Blocks \cup {Listener}
    BY DEF Typed, EventType
  <2> QED BY <1>2, <2>1 DEF Safe, EventsLive
<1>8. EdgesKept'
  <2>1. \A a : HasEvent(a)' <=> HasEvent(a)
    BY DEF HasEvent
  <2>2. \A a \in Blocks, g \in Fds : Awaited(a, g) => Awaited(a, g)'
    BY <2>1 DEF Awaited, Pending
  <2>3. ASSUME NEW a \in Blocks, Live(a)'
        PROVE  /\ State(a)' = 0 => Awaited(a, mem[a].client_fd)'
               /\ State(a)' = 2 => Awaited(a, mem[a].server_fd)'
    <3>1. CASE a = b
      BY <1>2, <3>1
    <3>2. CASE a # b
      BY <1>2, <2>2, <2>3, <3>2, WaitsFor DEF Safe, EdgesKept, Alive
    <3> QED BY <3>1, <3>2
  <2>4. backlog # <<>> => lready \/ HasEvent(Listener)
    BY DEF Safe, EdgesKept, Alive
  <2> QED BY <2>1, <2>3, <2>4 DEF EdgesKept
<1> QED BY <1>4, <1>5, <1>6, <1>7, <1>8 DEF Safe

(* The request, once the server has closed.                                 *)
LEMMA AnsweredTyped ==
    ASSUME NEW q \in RequestType, NEW n \in Nat, NEW s \in 0 .. Wild
    PROVE  [q EXCEPT !.total_write_amount = n, !.current_state = s] \in RequestType
BY DEF RequestType

(* READ_RESPONSE: it pauses when nothing is left to read.                   *)
LEMMA ReadResponseSafe == ASSUME Typed, Safe, ReadResponse PROVE Typed' /\ Safe'
<1> DEFINE f == request.server_fd
           in == Input(f)
           new == Put(request.read_buffer, request.read_bytes_server, in.cells)
           count == Count(request.read_bytes_server, in.cells)
           r == [request EXCEPT !.read_buffer = new, !.read_bytes_server = count]
           total == request.read_bytes_server
           t == [request EXCEPT !.total_write_amount = total, !.current_state = 3]
<1>1. /\ pc = "read_response" /\ active \in Blocks /\ active # None /\ Live(active)
      /\ heap[active] = "live" /\ State(active) = 2 /\ request = mem[active]
      /\ f \in Fds /\ file[f].type = "server"
  BY Running DEF ReadResponse, StateOf, request
<1>2. ~in.error /\ in.cells \in Seq(Cells) /\ request \in RequestType /\ total \in Nat
  BY <1>1, InputOfServer, RequestTyped DEF Safe
<1>3. CASE in.cells # <<>>
  <2>1. /\ Taken(f) /\ Becomes(r)
        /\ UNCHANGED <<given, sent, eof, rst, conn, backlog, reply,
                       reg, wreg, ready, lready, pc, active>>
        /\ UNCHANGED <<batch, sig_flag>>
    BY <1>2, <1>3 DEF ReadResponse
  <2>2. new \in Seq(Cells) /\ count \in Nat
    BY <1>1, <1>2, PutTyped, RequestTyped DEF Count
  <2> HIDE DEF new, count
  <2>3. r \in RequestType
    BY <1>2, <2>2 DEF RequestType
  <2>4. r.client_fd = request.client_fd /\ r.server_fd = request.server_fd
        /\ r.current_state = request.current_state
    BY <1>2 DEF RequestType
  <2> HIDE DEF r
  <2>5. /\ mem' \in [Blocks -> RequestType] /\ mem'[active] = r /\ UNCHANGED heap
        /\ \A a \in Blocks \ {active} : mem'[a] = mem[a]
    BY <1>1, <2>1, <2>3, Becoming DEF Becomes
  <2>6. \A a \in Blocks : /\ mem'[a].client_fd = mem[a].client_fd
                          /\ mem'[a].server_fd = mem[a].server_fd
                          /\ State(a)' = State(a)
    BY <1>1, <2>4, <2>5 DEF State
  <2>7. /\ recvd' = recvd /\ file' \in [Fds -> FileType]
        /\ \A g \in Fds : file'[g].type = file[g].type /\ file'[g].of = file[g].of
                          /\ file'[g].st = file[g].st
        /\ \A g \in Fds : file[g].type \in {"client", "server"} /\ Pending(g)' => Pending(g)
    BY <1>1, <2>1, TakenFromServer DEF Safe
  <2>8. pc' \in DOMAIN StateOf /\ StateOf[pc'] = StateOf[pc] /\ pc' # "open"
    BY <1>1, <2>1 DEF StateOf
  <2>9. recvd' \in [Clients -> 0 .. 2] /\ \A c \in Clients : recvd'[c] <= sent[c]
    BY <2>7 DEF Typed
  <2> QED BY <1>1, <2>1, <2>5, <2>6, <2>7, <2>8, <2>9, LoopSafe
<1>4. CASE /\ in.cells = <<>> /\ in.eof /\ Becomes(t)
           /\ UNCHANGED <<peers, file, reg, ready, lready>>
           /\ Continue(3, active)
  <2>1. t \in RequestType
    <3>1. 3 \in 0 .. Wild
      BY DEF Wild
    <3> HIDE DEF total
    <3> QED BY <1>2, <3>1, AnsweredTyped
  <2>2. t.client_fd = request.client_fd /\ t.server_fd = request.server_fd /\ t.current_state = 3
    BY <1>2 DEF RequestType
  <2> HIDE DEF t
  <2>3. /\ mem' \in [Blocks -> RequestType] /\ mem'[active] = t /\ UNCHANGED heap
        /\ \A a \in Blocks \ {active} : mem'[a] = mem[a]
    BY <1>1, <1>4, <2>1, Becoming DEF Becomes
  <2>4. pc' = "send_response" /\ active' = active
    BY <1>1, <1>4, <2>2, <2>3 DEF Continue, Steps
  <2>5. UNCHANGED batch
    BY DEF ReadResponse
  <2> QED BY <1>1, <1>4, <2>2, <2>3, <2>4, <2>5, RespondSafe
<1>5. CASE in.cells = <<>> /\ in.eof /\ pc' = "exited" /\ UNCHANGED <<peers, kernel, mem, heap, active>>
  BY <1>1, <1>5, StopSafe DEF Alive, ReadResponse
<1>6. CASE in.cells = <<>> /\ ~in.eof
  <2>1. UNCHANGED <<peers, kernel, mem, heap>> /\ Continue(3, active) /\ UNCHANGED <<batch, sig_flag>>
    BY <1>2, <1>6 DEF ReadResponse
  <2>2. pc' = "event" /\ active' = None
    BY <1>1, <2>1 DEF Continue, State
  <2>3. ~Pending(mem[active].server_fd)
    BY <1>1, <1>2, <1>6, ReadableIsPending DEF Safe, Readable
  <2> QED BY <1>1, <2>1, <2>2, <2>3, PauseSafe
<1> QED BY <1>2, <1>3, <1>4, <1>5, <1>6 DEF ReadResponse

(* The request, once everything is written.                                 *)
LEMMA FinishedTyped ==
    ASSUME NEW q \in RequestType, NEW n \in Nat, NEW s \in 0 .. Wild
    PROVE  [q EXCEPT !.written_bytes_client = n, !.current_state = s] \in RequestType
BY DEF RequestType

(* The request, once part of the answer is written.                         *)
LEMMA WrittenTyped ==
    ASSUME NEW q \in RequestType, NEW n \in Nat
    PROVE  [q EXCEPT !.written_bytes_client = n] \in RequestType
BY DEF RequestType

(* A request whose answer has been written: it is kept, in state 4.         *)
LEMMA FinishSafe ==
    ASSUME Typed, Safe, pc = "send_response", NEW n \in Nat, Finish(n), Continue(4, active),
           UNCHANGED <<given, sent, recvd, eof, rst, backlog, lready, batch>>
    PROVE  Typed' /\ Safe'
<1> DEFINE r == [request EXCEPT !.written_bytes_client = n, !.current_state = 4]
<1>1. /\ active \in Blocks /\ Live(active) /\ heap[active] = "live" /\ State(active) = 3
      /\ request = mem[active] /\ request \in RequestType
  BY Running, RequestTyped DEF StateOf, request
<1>2. CloseFds({mem[active].client_fd, mem[active].server_fd}) /\ Becomes(r)
  BY <1>1 DEF Finish
<1>3. r \in RequestType
  <2>1. 4 \in 0 .. Wild
    BY DEF Wild
  <2> QED BY <1>1, <2>1, FinishedTyped
<1>4. r.current_state = 4
  BY <1>1 DEF RequestType
<1> HIDE DEF r
<1>5. /\ mem' \in [Blocks -> RequestType] /\ mem'[active] = r /\ UNCHANGED heap
      /\ \A a \in Blocks \ {active} : mem'[a] = mem[a]
  BY <1>1, <1>2, <1>3, Becoming DEF Becomes
<1>6. \A a \in Blocks : a = active => ~Live(a)' /\ NotInUse(a)'
  BY <1>1, <1>4, <1>5 DEF Live, NotInUse
<1>7. active' = None /\ pc' = "event"
  BY <1>1, <1>4, <1>5 DEF Continue
<1>8. \A a \in Blocks : a = active => Typed' /\ Safe'
  <2> SUFFICES ASSUME NEW a \in Blocks, a = active PROVE Typed' /\ Safe'
    OBVIOUS
  <2>1. {mem[active].client_fd, mem[active].server_fd}
        = {mem[a].client_fd} \cup (IF State(a) = 3 THEN {mem[a].server_fd} ELSE {})
    BY <1>1
  <2>2. heap' \in [Blocks -> HeapType]
    BY <1>5 DEF Typed
  <2> QED BY <1>1, <1>2, <1>5, <1>6, <1>7, <2>1, <2>2, CloseSafe
<1> QED BY <1>1, <1>8

(* SEND_RESPONSE: the last write closes both connections.                   *)
LEMMA SendResponseSafe == ASSUME Typed, Safe, SendResponse PROVE Typed' /\ Safe'
<1> DEFINE f == request.client_fd
           total == request.total_write_amount
           big == \E c \in Clients : f \in FdsOf(c) /\ kind[c] = "big"
<1>1. /\ pc = "send_response" /\ active \in Blocks /\ active # None /\ Live(active)
      /\ heap[active] = "live" /\ State(active) = 3 /\ request = mem[active]
      /\ f \in Fds /\ file[f].type = "client"
  BY Running DEF SendResponse, StateOf, request
<1>2. ~WriteFails(f)
  BY <1>1, InputOfClient DEF WriteFails, FileOf, Safe
<1>3. request \in RequestType /\ request.written_bytes_client \in Nat /\ total \in Nat
  BY <1>1, RequestTyped
<1>4. UNCHANGED <<batch, sig_flag>>
  BY DEF SendResponse
<1>5. CASE UNCHANGED <<peers, kernel, mem, heap>> /\ Continue(4, active)
  <2>1. pc' = "event" /\ active' = None
    BY <1>1, <1>5 DEF Continue, State
  <2> QED BY <1>1, <1>4, <1>5, <2>1, PauseSafe
<1>6. ASSUME NEW n \in 0 .. total,
             UNCHANGED <<given, sent, recvd, eof, rst, backlog, lready>>,
             Finish(request.written_bytes_client + n), Continue(4, active)
      PROVE  Typed' /\ Safe'
  <2>1. request.written_bytes_client + n \in Nat
    BY <1>3
  <2> QED BY <1>1, <1>4, <1>6, <2>1, FinishSafe
<1>7. ASSUME NEW n \in 0 .. total,
             UNCHANGED <<given, sent, recvd, eof, rst, backlog, lready>>,
             Becomes([request EXCEPT !.written_bytes_client = request.written_bytes_client + n]),
             UNCHANGED <<conn, file, reg, wreg, ready, pc, active>>
      PROVE  Typed' /\ Safe'
  <2> DEFINE m == request.written_bytes_client + n
             r == [request EXCEPT !.written_bytes_client = m]
  <2>1. m \in Nat
    BY <1>3
  <2> HIDE DEF m
  <2>2. r \in RequestType
    BY <1>3, <2>1, WrittenTyped
  <2>3. r.client_fd = request.client_fd /\ r.server_fd = request.server_fd
        /\ r.current_state = request.current_state
    BY <1>3 DEF RequestType
  <2>4. Becomes(r)
    BY <1>7 DEF m
  <2> HIDE DEF r
  <2>5. /\ mem' \in [Blocks -> RequestType] /\ mem'[active] = r /\ UNCHANGED heap
        /\ \A a \in Blocks \ {active} : mem'[a] = mem[a]
    BY <1>1, <2>2, <2>4, Becoming DEF Becomes
  <2>6. \A a \in Blocks : /\ mem'[a].client_fd = mem[a].client_fd
                          /\ mem'[a].server_fd = mem[a].server_fd
                          /\ State(a)' = State(a)
    BY <1>1, <2>3, <2>5 DEF State
  <2>7. /\ file' \in [Fds -> FileType] /\ recvd' \in [Clients -> 0 .. 2]
        /\ \A c \in Clients : recvd'[c] <= sent[c]
    BY <1>7 DEF Typed
  <2>8. pc' \in DOMAIN StateOf /\ StateOf[pc'] = StateOf[pc] /\ pc' # "open"
    BY <1>1, <1>7 DEF StateOf
  <2>9. \A g \in Fds : Pending(g)' => Pending(g)
    BY <1>7 DEF Pending
  <2> QED BY <1>1, <1>4, <1>7, <2>5, <2>6, <2>7, <2>8, <2>9, LoopSafe
<1>8. ASSUME NEW n \in 0 .. total,
             IF request.written_bytes_client + n >= total
             THEN Finish(request.written_bytes_client + n) /\ Continue(4, active)
             ELSE /\ Becomes([request EXCEPT !.written_bytes_client = request.written_bytes_client + n])
                  /\ UNCHANGED <<conn, file, reg, wreg, ready, pc, active>>,
             UNCHANGED <<given, sent, recvd, eof, rst, backlog, lready>>
      PROVE  Typed' /\ Safe'
  BY <1>6, <1>7, <1>8
<1> QED BY <1>2, <1>5, <1>8 DEF SendResponse

-----------------------------------------------------------------------------
(* Every step preserves the invariant.                                      *)
LEMMA StepSafe == ASSUME Typed, Safe, NoneLeaves, [Next]_vars PROVE Typed' /\ Safe'
<1>1. CASE UNCHANGED vars
  <2> USE DEF vars, peers, kernel, process, given
  <2>1. Typed' /\ Quiet' /\ EventsLive' /\ InStep' /\ \A g \in ready' : reg'[g] # None
    BY <1>1 DEF Typed, Safe, Quiet, EventsLive, InStep, Live, State
  <2>2. \A f \in Fds : FileOwned(f)'
    BY <1>1 DEF Safe, FileOwned, Live, State
  <2>3. \A b \in Blocks : RequestOwns(b)' /\ NotInUse(b)'
    BY <1>1 DEF Safe, RequestOwns, NotInUse, Live, State
  <2>4. EdgesKept'
    BY <1>1 DEF Safe, EdgesKept, Awaited, Pending, HasEvent, Live, State, Alive
  <2> QED BY <2>1, <2>2, <2>3, <2>4 DEF Safe
<1>2. CASE Timeout \/ Signal
  <2>1. Alive /\ UNCHANGED <<peers, kernel, mem, heap, active, batch>>
        /\ (pc' = pc \/ (pc' = "stopped" /\ pc = "event"))
    BY <1>2 DEF Timeout, Signal, Sleeping, Alive
  <2> QED BY <2>1, StopSafe
<1>3. CASE ProcessStep
  BY <1>2, <1>3, WaitSafe, NoHangUp, DispatchSafe, AcceptSafe, ReadRequestSafe, OpenSafe,
     SendRequestSafe, ReadResponseSafe, SendResponseSafe DEF ProcessStep
<1>4. CASE \E c \in Clients : Alive /\ (ClientConnect(c) \/ ClientSend(c) \/ ClientLeave(c))
  BY <1>4, ConnectSafe, SendSafe, NoLeave
<1>5. CASE \E f \in Fds : Alive /\ ServerStep(f)
  BY <1>5, ServerSafe
<1> QED BY <1>1, <1>2, <1>3, <1>4, <1>5 DEF Next

(* What the clients are never changes.                                      *)
LEMMA KindStays == ASSUME [Next]_vars PROVE kind' = kind
<1> USE DEF peers, given
<1>1. UNCHANGED vars => kind' = kind
  BY DEF vars
<1>2. ProcessStep => kind' = kind
  BY DEF ProcessStep, Wait, Timeout, HangUp, Dispatch, Accept, AcceptInto, ReadRequest, Open,
     SendRequest, ReadResponse, SendResponse, GiveUp, vars
<1>3. Signal => kind' = kind
  BY DEF Signal
<1>4. \A c \in Clients : ClientConnect(c) \/ ClientSend(c) \/ ClientLeave(c) => kind' = kind
  BY DEF ClientConnect, ClientSend, ClientLeave
<1>5. \A f \in Fds : ServerStep(f) => kind' = kind
  BY DEF ServerStep
<1> QED BY <1>1, <1>2, <1>3, <1>4, <1>5 DEF Next

(* The inductive invariant: nothing is claimed of a run in which a client or *)
(* a server leaves.                                                          *)
IInv == NoneLeaves => Typed /\ Safe

(* The invariant holds in every reachable state.                            *)
LEMMA Inductive == Spec => []IInv
<1>1. Init => IInv
  BY InitSafe DEF IInv
<1>2. IInv /\ [Next]_vars => IInv'
  BY StepSafe, KindStays DEF IInv, NoneLeaves
<1> QED BY <1>1, <1>2, PTL DEF Spec

(* No edge is lost: whenever the process goes to sleep in epoll_wait, every  *)
(* request whose connection has input still has an edge to be fetched, as    *)
(* does the listening socket when a connection waits.                        *)
THEOREM NoEdgeLost == Spec => []NoLostEdge
<1>1. IInv => NoLostEdge
  <2> SUFFICES ASSUME IInv, NoneLeaves, pc = "event", batch = {}
               PROVE  /\ backlog # <<>> => lready
                      /\ \A b \in Blocks : Live(b) =>
                          /\ (mem[b].current_state = 0 /\ Readable(mem[b].client_fd)
                                => mem[b].client_fd \in ready)
                          /\ (mem[b].current_state = 2 /\ Readable(mem[b].server_fd)
                                => mem[b].server_fd \in ready)
    BY DEF NoLostEdge
  <2>1. Typed /\ Safe /\ active = None
    BY DEF IInv, Safe, InStep
  <2>2. backlog # <<>> => lready
    BY <2>1 DEF Safe, EdgesKept, HasEvent, Alive
  <2>3. ASSUME NEW b \in Blocks, Live(b)
        PROVE  /\ State(b) = 0 /\ Readable(mem[b].client_fd) => mem[b].client_fd \in ready
               /\ State(b) = 2 /\ Readable(mem[b].server_fd) => mem[b].server_fd \in ready
    BY <2>1, <2>3, WaitsFor, ReadableIsPending DEF Safe, EdgesKept, Awaited, HasEvent, Alive
  <2> QED BY <2>2, <2>3 DEF State
<1> QED BY <1>1, Inductive, PTL

(* Every open descriptor belongs to exactly one request that is under way,   *)
(* whose events it delivers, and no descriptor that is closed does.          *)
THEOREM DescriptorsHeld == Spec => []DescriptorsOwned
<1>1. IInv => DescriptorsOwned
  <2> SUFFICES ASSUME Typed, Safe, NEW f \in Fds,
                      NEW client, client = {b \in Blocks : Live(b) /\ mem[b].client_fd = f},
                      NEW server, server = {b \in Blocks : Live(b) /\ mem[b].server_fd = f
                                                           /\ State(b) # 0}
               PROVE  /\ file[f].type = "client" => client = {reg[f]} /\ server = {}
                      /\ file[f].type = "server" =>
                           \E b \in Blocks : server = {b} /\ client = {} /\ reg[f] \in {b, None}
                      /\ file[f].type \in {"free", "stdin"} => client \cup server = {}
    BY DEF DescriptorsOwned, IInv, State
  <2>1. \A b \in client : file[f].type = "client" /\ b = reg[f]
    BY DEF Safe, RequestOwns
  <2>2. \A b \in server : State(b) \in 1 .. 3 /\ file[f].type = "server"
                          /\ reg[f] = IF State(b) = 1 THEN None ELSE b
    <3>1. f # BadFd
      BY EpollAssumption DEF Fds, BadFd
    <3> QED BY <3>1 DEF Safe, RequestOwns
  <2>3. CASE file[f].type = "client"
    BY <2>1, <2>2, <2>3 DEF Safe, FileOwned
  <2>4. CASE file[f].type = "server"
    <3>1. PICK b \in server : reg[f] = IF State(b) = 1 THEN None ELSE b
      BY <2>4 DEF Safe, FileOwned
    <3>2. \A a \in server : a = b
      BY <2>2, <3>1, EpollAssumption DEF Safe, RequestOwns
    <3> QED BY <2>1, <2>4, <3>1, <3>2
  <2>5. CASE file[f].type \in {"free", "stdin"}
    BY <2>1, <2>2, <2>5
  <2> QED BY <2>3, <2>4, <2>5
<1> QED BY <1>1, Inductive, PTL

-----------------------------------------------------------------------------
(* Types and connections, whoever leaves.                                   *)

PcType == {"event", "accept", "open", "hung", "crashed", "exited", "stopped",
           "read_request", "send_request", "read_response", "send_response"}

PeersTyped ==
    /\ kind \in [Clients -> Kinds] /\ system \in Systems
    /\ sent \in [Clients -> 0 .. 2] /\ recvd \in [Clients -> 0 .. 2]
    /\ \A c \in Clients : recvd[c] <= sent[c]
    /\ eof \subseteq Clients /\ rst \subseteq Clients
    /\ conn \in [Clients -> {"none", "pending", "open", "closed"}]
    /\ backlog \in Seq(Clients) /\ reply \in [Clients -> Seq(Cells)]
KernelTyped ==
    /\ file \in [Fds -> FileType] /\ reg \in [Fds -> Blocks \cup {None}]
    /\ wreg \subseteq Fds /\ ready \subseteq Fds /\ lready \in BOOLEAN
    /\ \A f \in Fds : file[f].type \in {"client", "server"} => file[f].of \in Clients
    /\ \A f \in ready : reg[f] # None
ProcessTyped ==
    /\ mem \in [Blocks -> RequestType] /\ heap \in [Blocks -> HeapType]
    /\ pc \in PcType /\ active \in Blocks \cup {None}
    /\ batch \subseteq EventType /\ sig_flag \in BOOLEAN
    /\ \A e \in batch : e.hup => e.ptr \in Blocks
    /\ pc \in DOMAIN StateOf => active \in Blocks
    /\ pc = "open" => Complete(mem[active].read_buffer)

(* A client has one connection: it waits in the backlog once, or is open on *)
(* one descriptor.  Who has left is one of those who do.                    *)
OneConnection ==
    /\ \A i, j \in 1 .. Len(backlog) : backlog[i] = backlog[j] => i = j
    /\ \A i \in 1 .. Len(backlog) : conn[backlog[i]] = "pending"
    /\ \A f \in Fds : /\ file[f].type = "client" => conn[file[f].of] = "open"
                      /\ file[f].type = "stdin" => f = 0
    /\ \A f, g \in Fds :
         file[f].type = "client" /\ file[g].type = "client" /\ file[f].of = file[g].of => f = g
    /\ \A c \in Clients : /\ c \in rst => kind[c] = "resets" /\ conn[c] # "none"
                          /\ c \in eof => kind[c] = "quits"
                          /\ kind[c] = "quits" => sent[c] <= 1

Tidy == PeersTyped /\ KernelTyped /\ ProcessTyped /\ OneConnection

(* All that is typed.                                                       *)
LEMMA TidyTyped == ASSUME Tidy PROVE Typed
BY DEF Tidy, PeersTyped, KernelTyped, ProcessTyped, Typed

(* The functions of handle_client have these names.                         *)
LEMMA StepNames ==
    /\ DOMAIN Steps = 1 .. 4 /\ Range(Steps) = DOMAIN StateOf \ {"open"}
    /\ Steps[1] = "read_request" /\ Steps[2] = "send_request"
    /\ Steps[3] = "read_response" /\ Steps[4] = "send_response"
<1>1. DOMAIN Steps = 1 .. 4 /\ Steps[1] = "read_request" /\ Steps[2] = "send_request"
      /\ Steps[3] = "read_response" /\ Steps[4] = "send_response"
  BY DEF Steps
<1>2. DOMAIN StateOf = {"read_request", "open", "send_request", "read_response", "send_response"}
  BY DEF StateOf
<1>3. 1 .. 4 = {1, 2, 3, 4}
  OBVIOUS
<1>4. Range(Steps) = {Steps[1], Steps[2], Steps[3], Steps[4]}
  BY <1>1, <1>3 DEF Range
<1> QED BY <1>1, <1>2, <1>4

(* What recv finds on a client's connection.                                *)
LEMMA FromClient ==
    ASSUME Tidy, NEW f \in Fds, file[f].type = "client", NEW c, c = file[f].of
    PROVE  /\ c \in Clients
           /\ Input(f).eof = (c \in eof) /\ Input(f).error = (c \in rst)
           /\ Input(f).cells \in Seq(Cells) /\ Len(Input(f).cells) = sent[c] - recvd[c]
           /\ \A i \in 1 .. sent[c] - recvd[c] :
                Input(f).cells[i] = <<c, IF recvd[c] + i = 1 THEN "head" ELSE "end">>
<1>1. c \in Clients /\ sent[c] \in Nat /\ recvd[c] \in Nat /\ sent[c] - recvd[c] \in Nat
  BY TidyTyped, CountsTyped DEF Tidy, KernelTyped
<1> DEFINE n == sent[c] - recvd[c]
           cell(i) == <<c, IF recvd[c] + i = 1 THEN "head" ELSE "end">>
           cells == [i \in 1 .. n |-> cell(i)]
<1>2. \A i \in 1 .. n : cell(i) \in Cells
  BY <1>1 DEF Cells
<1>3. cells \in Seq(Cells) /\ Len(cells) = n /\ \A i \in 1 .. n : cells[i] = cell(i)
  <2> HIDE DEF cell, n
  <2>1. n \in Nat
    BY <1>1 DEF n
  <2> QED BY <1>2, <2>1, IsASeq
<1>4. InputIs(Input(f), cells, c \in eof, c \in rst)
  BY DEF Input, FileOf, InputIs
<1> HIDE DEF cells
<1>5. Input(f).cells = cells /\ Input(f).eof = (c \in eof) /\ Input(f).error = (c \in rst)
  BY <1>4, InputFields, Zenon
<1> QED BY <1>1, <1>3, <1>5

(* What it finds on a server's.                                             *)
LEMMA FromServer ==
    ASSUME Tidy, NEW f \in Fds, file[f].type = "server", NEW c, c = file[f].of
    PROVE  /\ c \in Clients
           /\ Input(f).eof <=> file[f].st = "closed"
           /\ Input(f).error <=> file[f].st = "reset"
           /\ Input(f).cells \in Seq(Cells)
           /\ Input(f).cells = IF file[f].st \in {"answered", "closed"} /\ ~file[f].got
                               THEN AnswerTo(c) ELSE <<>>
<1>1. c \in Clients
  BY DEF Tidy, KernelTyped
<1> DEFINE cells == IF file[f].st \in {"answered", "closed"} /\ ~file[f].got
                    THEN AnswerTo(c) ELSE <<>>
<1>2. AnswerTo(c) \in Seq(Cells)
  BY <1>1 DEF AnswerTo, Cells
<1>3. cells \in Seq(Cells)
  BY <1>2
<1>4. PICK e \in BOOLEAN, r \in BOOLEAN : (e <=> file[f].st = "closed") /\ (r <=> file[f].st = "reset")
  OBVIOUS
<1>5. InputIs(Input(f), cells, e, r)
  BY <1>4 DEF Input, FileOf, InputIs, AnswerTo
<1> HIDE DEF cells
<1>6. Input(f).cells = cells /\ Input(f).eof = e /\ Input(f).error = r
  BY <1>5, InputFields, Zenon
<1> QED BY <1>1, <1>3, <1>4, <1>6 DEF cells

(* And elsewhere.                                                           *)
LEMMA FromNobody ==
    ASSUME NEW f, f \notin Fds \/ file[f].type \in {"free", "stdin"}
    PROVE  Input(f).cells = <<>> /\ ~Input(f).eof /\ Input(f).error
<1>1. FileOf(f).type \in {"free", "stdin"}
  BY DEF FileOf, Closed
<1> DEFINE no == FALSE
           yes == TRUE
<1>2. InputIs(Input(f), <<>>, no, yes)
  BY <1>1 DEF Input, InputIs
<1> HIDE DEF no, yes
<1>3. Input(f).cells = <<>> /\ Input(f).eof = no /\ Input(f).error = yes
  BY <1>2, InputFields, Zenon
<1>4. ~no /\ yes
  BY DEF no, yes
<1> QED BY <1>3, <1>4

(* Whether recv fails is a truth value.                                     *)
LEMMA ErrorTyped == ASSUME NEW f PROVE Input(f).error \in BOOLEAN
<1> DEFINE o == FileOf(f)
           sends == [i \in 1 .. sent[o.of] - recvd[o.of] |->
                       <<o.of, IF recvd[o.of] + i = 1 THEN "head" ELSE "end">>]
           answers == IF o.st \in {"answered", "closed"} /\ ~o.got
                      THEN << <<o.of, "answer">>, <<o.of, "rest">> >> ELSE <<>>
<1>1. CASE o.type = "client"
  <2>1. InputIs(Input(f), sends, o.of \in eof, o.of \in rst)
    BY <1>1 DEF Input, InputIs
  <2> HIDE DEF o, sends
  <2>2. Input(f).error = (o.of \in rst)
    BY <2>1, InputFields, Zenon
  <2>4. (o.of \in rst) \in BOOLEAN
    OBVIOUS
  <2> QED BY <2>2, <2>4, Zenon
<1>2. CASE o.type = "server"
  <2>1. InputIs(Input(f), answers, o.st = "closed", o.st = "reset")
    BY <1>2 DEF Input, InputIs
  <2> HIDE DEF o, answers
  <2>2. Input(f).error = (o.st = "reset") /\ (o.st = "reset") \in BOOLEAN
    BY <2>1, InputFields, Zenon
  <2> QED BY <2>2, Zenon
<1>3. CASE o.type \notin {"client", "server"}
  <2>1. InputIs(Input(f), <<>>, FALSE, TRUE)
    BY <1>3 DEF Input, InputIs
  <2>2. Input(f).error = TRUE
    BY <2>1, InputFields, Zenon
  <2> QED BY <2>2, Zenon
<1> QED BY <1>1, <1>2, <1>3

(* Whatever recv reads, it is cells, and comes from a client or a server.   *)
LEMMA InputTyped ==
    ASSUME Tidy, NEW f
    PROVE  /\ Input(f).cells \in Seq(Cells)
           /\ Input(f).cells # <<>> => f \in Fds /\ file[f].type \in {"client", "server"}
<1>1. CASE f \notin Fds \/ file[f].type \in {"free", "stdin"}
  <2>1. <<>> \in Seq(Cells)
    OBVIOUS
  <2> QED BY <1>1, <2>1, FromNobody
<1>2. CASE f \in Fds /\ file[f].type = "client"
  <2>1. Input(f).cells \in Seq(Cells)
    BY <1>2, FromClient
  <2> QED BY <1>2, <2>1
<1>3. CASE f \in Fds /\ file[f].type = "server"
  BY <1>3, FromServer
<1> QED BY <1>1, <1>2, <1>3, TidyTyped, FileTyped

(* handle_client goes on with a function of the request, or ends.           *)
LEMMA ContinueTyped ==
    ASSUME NEW i \in 0 .. 4, NEW b \in Blocks, mem' \in [Blocks -> RequestType], Continue(i, b)
    PROVE  /\ pc' \in PcType \ {"open", "hung", "exited"} /\ active' \in Blocks \cup {None}
           /\ pc' \in DOMAIN StateOf => active' = b
<1> DEFINE s == mem'[b].current_state
           go == heap'[b] # "unmapped" /\ s \in i .. 3
<1>1. s \in 0 .. Wild
  BY DEF RequestType
<1>2. CASE go
  <2>1. s + 1 \in DOMAIN Steps
    BY <1>1, <1>2, StepNames DEF Wild
  <2>2. Steps[s + 1] \in Range(Steps)
    BY <2>1 DEF Range
  <2>3. Steps[s + 1] \in DOMAIN StateOf \ {"open"}
    BY <2>2, StepNames
  <2>4. pc' = Steps[s + 1] /\ active' = b
    BY <1>2 DEF Continue
  <2> QED BY <2>3, <2>4 DEF PcType, StateOf
<1>3. CASE ~go
  <2>1. pc' \in {"crashed", "event"} /\ active' = None
    BY <1>3 DEF Continue
  <2> QED BY <2>1 DEF PcType, StateOf
<1> QED BY <1>2, <1>3

(* close() leaves the descriptor table and the epoll instances in order.    *)
LEMMA CloseTyped ==
    ASSUME Tidy, NEW F, CloseFds(F), UNCHANGED lready
    PROVE  /\ KernelTyped' /\ conn' \in [Clients -> {"none", "pending", "open", "closed"}]
           /\ \A f \in Fds \ F : file'[f] = file[f] /\ reg'[f] = reg[f]
           /\ \A f \in Fds \cap F : file'[f] = Closed /\ reg'[f] = None
           /\ \A c \in Clients : conn'[c] = conn[c] \/ conn'[c] = "closed"
           /\ Closed.type = "free" /\ Closed.st = "none"
<1>1. Closed \in FileType /\ Closed.type = "free" /\ Closed.st = "none"
  BY DEF Closed, FileType
<1> USE DEF CloseFds
<1>2. /\ \A f \in Fds \ F : file'[f] = file[f] /\ reg'[f] = reg[f]
      /\ \A f \in Fds \cap F : file'[f] = Closed /\ reg'[f] = None
  OBVIOUS
<1>3. /\ conn' \in [Clients -> {"none", "pending", "open", "closed"}]
      /\ \A c \in Clients : conn'[c] = conn[c] \/ conn'[c] = "closed"
  BY DEF Tidy, PeersTyped
<1>4. KernelTyped'
  <2>1. file' \in [Fds -> FileType] /\ reg' \in [Fds -> Blocks \cup {None}]
    BY <1>1 DEF Tidy, KernelTyped
  <2>2. \A f \in Fds : file'[f].type \in {"client", "server"} => file'[f].of \in Clients
    BY <1>1, <1>2 DEF Tidy, KernelTyped
  <2>3. \A f \in ready' : reg'[f] # None
    BY <1>2 DEF Tidy, KernelTyped
  <2> QED BY <2>1, <2>2, <2>3 DEF Tidy, KernelTyped
<1> QED BY <1>1, <1>2, <1>3, <1>4

(* A closed connection is the only one of its client.                       *)
LEMMA CloseOneConnection ==
    ASSUME Tidy, NEW F, CloseFds(F), UNCHANGED <<given, sent, eof, rst, backlog, lready>>
    PROVE  OneConnection'
<1> USE DEF given
<1>1. /\ \A f \in Fds \ F : file'[f] = file[f]
      /\ \A f \in Fds \cap F : file'[f] = Closed
      /\ \A c \in Clients : conn'[c] = conn[c] \/ conn'[c] = "closed"
      /\ Closed.type = "free"
  BY CloseTyped
<1>2. \A c \in Clients : (\A f \in Fds \cap F : ~(file[f].type = "client" /\ file[f].of = c))
                         => conn'[c] = conn[c]
  BY DEF CloseFds, FdsOf
<1>3. \A i \in 1 .. Len(backlog) : conn'[backlog[i]] = "pending"
  <2> SUFFICES ASSUME NEW i \in 1 .. Len(backlog) PROVE conn'[backlog[i]] = "pending"
    OBVIOUS
  <2>1. backlog[i] \in Clients
    BY ElementOfSeq DEF Tidy, PeersTyped
  <2>2. conn[backlog[i]] = "pending" /\ \A f \in Fds : file[f].type = "client" => file[f].of # backlog[i]
    BY DEF Tidy, OneConnection
  <2> QED BY <1>2, <2>1, <2>2
<1>4. \A f \in Fds : file'[f].type = "client" => conn'[file'[f].of] = "open"
  <2> SUFFICES ASSUME NEW f \in Fds, file'[f].type = "client" PROVE conn'[file'[f].of] = "open"
    OBVIOUS
  <2>1. f \notin F /\ file'[f] = file[f] /\ file[f].of \in Clients /\ conn[file[f].of] = "open"
    BY <1>1 DEF Tidy, KernelTyped, OneConnection
  <2>2. \A g \in Fds \cap F : ~(file[g].type = "client" /\ file[g].of = file[f].of)
    BY <1>1, <2>1 DEF Tidy, OneConnection
  <2> QED BY <1>2, <2>1, <2>2
<1>5. \A c \in Clients : c \in rst => conn'[c] # "none"
  BY <1>1 DEF Tidy, OneConnection
<1> QED BY <1>1, <1>3, <1>4, <1>5 DEF Tidy, OneConnection

(* Nor does anything else that leaves the clients' descriptors alone.       *)
LEMMA SameConnections ==
    ASSUME Tidy, UNCHANGED <<given, sent, eof, rst, backlog, conn>>,
           \A f \in Fds : /\ file'[f].type = "client" <=> file[f].type = "client"
                          /\ file'[f].type = "client" => file'[f].of = file[f].of
                          /\ file'[f].type = "stdin" => file[f].type = "stdin"
    PROVE  OneConnection'
<1> USE DEF given
<1>1. \A f \in Fds : /\ file'[f].type = "client" => conn'[file'[f].of] = "open"
                     /\ file'[f].type = "stdin" => f = 0
  BY DEF Tidy, OneConnection
<1>2. \A f, g \in Fds : file'[f].type = "client" /\ file'[g].type = "client"
                        /\ file'[f].of = file'[g].of => f = g
  BY DEF Tidy, OneConnection
<1> QED BY <1>1, <1>2 DEF Tidy, OneConnection

-----------------------------------------------------------------------------
(* Initially nothing is open.                                               *)
LEMMA InitTidy == ASSUME Init PROVE Tidy
<1>1. Typed
  BY InitTyped
<1>2. \A f \in Fds : /\ file[f].type \in {"free", "stdin"} /\ reg[f] = None
                     /\ file[f].type = "stdin" => f = 0
  BY DEF Init, Closed
<1>3. PeersTyped
  <2>1. conn \in [Clients -> {"none", "pending", "open", "closed"}]
    BY DEF Init
  <2> DEFINE empty == <<>>
  <2>2. empty \in Seq(Cells) /\ reply = [c \in Clients |-> empty]
    BY DEF Init
  <2> HIDE DEF empty
  <2>3. reply \in [Clients -> Seq(Cells)]
    BY <2>2
  <2> QED BY <1>1, <2>1, <2>3 DEF PeersTyped, Typed, Init
<1>4. KernelTyped
  BY <1>1, <1>2 DEF KernelTyped, Typed, Init
<1>5. ProcessTyped
  BY <1>1 DEF ProcessTyped, Typed, Init, PcType, StateOf
<1>6. OneConnection
  <2>1. \A c \in Clients : sent[c] = 0
    BY DEF Init
  <2> QED BY <1>2, <2>1 DEF OneConnection, Init
<1> QED BY <1>3, <1>4, <1>5, <1>6 DEF Tidy

(* A client that connects had no connection.                                *)
LEMMA ConnectTidy == ASSUME Tidy, NEW c \in Clients, ClientConnect(c) PROVE Tidy'
<1> USE DEF ClientConnect, given, process
<1>1. PeersTyped' /\ KernelTyped' /\ ProcessTyped'
  BY AppendProperties DEF Tidy, PeersTyped, KernelTyped, ProcessTyped
<1>2. /\ Len(backlog') = Len(backlog) + 1 /\ backlog'[Len(backlog) + 1] = c
      /\ \A i \in 1 .. Len(backlog) : backlog'[i] = backlog[i]
      /\ Len(backlog) \in Nat
  BY AppendProperties DEF Tidy, PeersTyped
<1>3. \A i \in 1 .. Len(backlog) : backlog[i] # c /\ conn[backlog[i]] = "pending"
  BY DEF Tidy, OneConnection
<1>4. /\ \A i, j \in 1 .. Len(backlog') : backlog'[i] = backlog'[j] => i = j
      /\ \A i \in 1 .. Len(backlog') : conn'[backlog'[i]] = "pending"
  <2>1. \A i \in 1 .. Len(backlog') : i \in 1 .. Len(backlog) \/ i = Len(backlog) + 1
    BY <1>2
  <2>2. \A i \in 1 .. Len(backlog) : backlog[i] \in Clients
    BY ElementOfSeq DEF Tidy, PeersTyped
  <2> QED BY <1>2, <1>3, <2>1, <2>2 DEF Tidy, PeersTyped, OneConnection
<1>5. \A f \in Fds : /\ file'[f].type = "client" => conn'[file'[f].of] = "open"
                     /\ file'[f].type = "stdin" => f = 0
  BY DEF Tidy, KernelTyped, PeersTyped, OneConnection
<1>6. \A d \in Clients : d \in rst' => conn'[d] # "none"
  BY DEF Tidy, PeersTyped, OneConnection
<1> QED BY <1>1, <1>4, <1>5, <1>6 DEF Tidy, OneConnection

(* What a client sends.                                                     *)
LEMMA SendTidy == ASSUME Tidy, NEW c \in Clients, ClientSend(c) PROVE Tidy'
<1> USE DEF ClientSend, given, process
<1>1. /\ sent' = [sent EXCEPT ![c] = sent'[c]] /\ sent'[c] \in 1 .. 2 /\ sent'[c] > sent[c]
      /\ kind[c] = "quits" => sent'[c] <= 1
  BY TidyTyped, CountsTyped DEF Tidy, PeersTyped
<1>2. PeersTyped'
  <2>1. sent' \in [Clients -> 0 .. 2] /\ \A d \in Clients : recvd[d] <= sent'[d]
    BY <1>1, TidyTyped, CountsTyped DEF Tidy, PeersTyped
  <2> QED BY <2>1 DEF Tidy, PeersTyped
<1>3. KernelTyped' /\ ProcessTyped'
  BY DEF Tidy, KernelTyped, ProcessTyped, Wake, FdsOf
<1>4. OneConnection'
  <2>1. \A d \in Clients : kind[d] = "quits" => sent'[d] <= 1
    BY <1>1 DEF Tidy, PeersTyped, OneConnection
  <2> QED BY <2>1 DEF Tidy, OneConnection
<1> QED BY <1>2, <1>3, <1>4 DEF Tidy

(* A client that leaves had connected.                                      *)
LEMMA LeaveTidy == ASSUME Tidy, NEW c \in Clients, ClientLeave(c) PROVE Tidy'
<1> USE DEF ClientLeave, given, process
<1>1. PeersTyped' /\ KernelTyped' /\ ProcessTyped'
  BY DEF Tidy, PeersTyped, KernelTyped, ProcessTyped, Wake, FdsOf
<1>2. OneConnection'
  BY DEF Tidy, OneConnection
<1> QED BY <1>1, <1>2 DEF Tidy

(* A server's connection takes another state.                               *)
LEMMA ServerTidy == ASSUME Tidy, NEW f \in Fds, ServerStep(f) PROVE Tidy'
<1> USE DEF ServerStep, peers, process
<1>1. PICK s \in {"answered", "closed", "reset"} : file' = [file EXCEPT ![f].st = s]
  OBVIOUS
<1>2. /\ file' \in [Fds -> FileType]
      /\ \A g \in Fds : file'[g].type = file[g].type /\ file'[g].of = file[g].of
  <2>1. file \in [Fds -> FileType] /\ file[f] \in FileType
    BY DEF Tidy, KernelTyped
  <2>2. [file[f] EXCEPT !.st = s] \in FileType
    BY <2>1 DEF FileType
  <2>3. file'[f] = [file[f] EXCEPT !.st = s] /\ \A g \in Fds \ {f} : file'[g] = file[g]
    BY <1>1, <2>1
  <2>4. file'[f].type = file[f].type /\ file'[f].of = file[f].of
    BY <2>1, <2>3 DEF FileType
  <2> QED BY <1>1, <2>1, <2>2, <2>3, <2>4
<1>3. PeersTyped' /\ KernelTyped' /\ ProcessTyped'
  <2>1. PeersTyped' /\ ProcessTyped'
    BY DEF Tidy, PeersTyped, ProcessTyped, given
  <2>2. KernelTyped'
    BY <1>2 DEF Tidy, KernelTyped, Wake
  <2> QED BY <2>1, <2>2
<1>4. OneConnection'
  BY <1>2, SameConnections
<1> QED BY <1>3, <1>4 DEF Tidy

(* epoll_wait: an edge is of a descriptor that is registered.               *)
LEMMA EventsTyped ==
    ASSUME Tidy PROVE Events \subseteq EventType /\ \A e \in Events : e.hup => e.ptr \in Blocks
<1> SUFFICES ASSUME NEW e \in Events PROVE e \in EventType /\ (e.hup => e.ptr \in Blocks)
  OBVIOUS
<1>1. CASE e = [ptr |-> Listener, fd |-> None, hup |-> FALSE]
  <2> DEFINE no == FALSE
  <2>1. no \in BOOLEAN /\ e = [ptr |-> Listener, fd |-> None, hup |-> no]
    BY <1>1
  <2>2. ~e.hup
    BY <1>1
  <2> HIDE DEF no
  <2> QED BY <2>1, <2>2 DEF EventType
<1>2. CASE \E f \in ready : e = [ptr |-> reg[f], fd |-> f, hup |-> Input(f).error]
  <2>1. PICK f \in ready : e = [ptr |-> reg[f], fd |-> f, hup |-> Input(f).error]
    BY <1>2
  <2>2. f \in Fds /\ reg[f] \in Blocks
    BY DEF Tidy, KernelTyped
  <2>3. PICK x \in BOOLEAN : x = Input(f).error
    BY ErrorTyped, Zenon
  <2>4. e = [ptr |-> reg[f], fd |-> f, hup |-> x]
    BY <2>1, <2>3, Zenon
  <2> QED BY <2>2, <2>4 DEF EventType
<1> QED BY <1>1, <1>2 DEF Events

LEMMA WaitTidy == ASSUME Tidy, Wait PROVE Tidy'
<1> USE DEF Wait, peers, given
<1>1. PeersTyped' /\ KernelTyped' /\ ProcessTyped'
  BY EventsTyped DEF Tidy, PeersTyped, KernelTyped, ProcessTyped
<1> QED BY <1>1, SameConnections DEF Tidy

(* The process stops, or goes on with another event.                        *)
LEMMA StopTidy ==
    ASSUME Tidy, UNCHANGED <<peers, kernel, mem, heap>>, active' \in {active, None},
           pc' = pc \/ pc' \in {"event", "hung", "crashed", "exited", "stopped"},
           pc' = pc => active' = active,
           batch' \subseteq batch, sig_flag' \in BOOLEAN
    PROVE  Tidy'
<1> USE DEF peers, kernel, given
<1>1. PeersTyped' /\ KernelTyped'
  BY DEF Tidy, PeersTyped, KernelTyped
<1>2. ProcessTyped'
  BY DEF Tidy, ProcessTyped, PcType, StateOf
<1> QED BY <1>1, <1>2, SameConnections DEF Tidy

(* Descriptors are closed, and a request is freed or takes another value.   *)
LEMMA ClosedTidy ==
    ASSUME Tidy, NEW F, CloseFds(F),
           mem' \in [Blocks -> RequestType], heap' \in [Blocks -> HeapType],
           reply' \in [Clients -> Seq(Cells)],
           UNCHANGED <<given, sent, recvd, eof, rst, backlog, lready>>,
           pc' \in PcType \ {"open"}, active' \in Blocks \cup {None},
           pc' \in DOMAIN StateOf => active' \in Blocks,
           batch' \subseteq batch, UNCHANGED sig_flag
    PROVE  Tidy'
<1> USE DEF given
<1>1. KernelTyped' /\ conn' \in [Clients -> {"none", "pending", "open", "closed"}] /\ OneConnection'
  BY CloseTyped, CloseOneConnection
<1>2. PeersTyped'
  BY <1>1 DEF Tidy, PeersTyped
<1>3. ProcessTyped'
  BY DEF Tidy, ProcessTyped
<1> QED BY <1>1, <1>2, <1>3 DEF Tidy

(* EPOLLERR or EPOLLHUP.                                                    *)
LEMMA HangUpTidy == ASSUME Tidy, HangUp PROVE Tidy'
<1>1. PICK e \in batch :
        /\ pc = "event" /\ e.hup
        /\ batch' = batch \ {e}
        /\ IF Freed(e.ptr)
           THEN pc' = "crashed" /\ UNCHANGED <<peers, kernel, mem, heap>>
           ELSE /\ CloseFds({mem[e.ptr].client_fd, mem[e.ptr].server_fd})
                /\ Release(e.ptr)
                /\ UNCHANGED <<given, sent, recvd, eof, rst, backlog, reply, lready, pc>>
        /\ UNCHANGED <<active, sig_flag>>
  BY DEF HangUp
<1>2. CASE Freed(e.ptr)
  <2>1. sig_flag' \in BOOLEAN
    BY <1>1 DEF Tidy, ProcessTyped
  <2> QED BY <1>1, <1>2, <2>1, StopTidy
<1>3. CASE ~Freed(e.ptr)
  <2>1. /\ e.ptr \in Blocks /\ pc' = "event" /\ active' \in Blocks \cup {None}
        /\ reply' \in [Clients -> Seq(Cells)]
    BY <1>1, <1>3 DEF Tidy, ProcessTyped, PeersTyped
  <2>2. mem' \in [Blocks -> RequestType] /\ heap' \in [Blocks -> HeapType]
    BY <1>1, <1>3, <2>1, TidyTyped, Releasing
  <2> QED BY <1>1, <1>3, <2>1, <2>2, ClosedTidy DEF PcType, StateOf
<1> QED BY <1>2, <1>3

(* The next event: its request is handled.                                  *)
LEMMA DispatchTidy == ASSUME Tidy, Dispatch PROVE Tidy'
<1> USE DEF peers, kernel, given
<1>1. PICK e \in batch :
        /\ pc = "event" /\ batch' = batch \ {e}
        /\ UNCHANGED <<peers, kernel, mem, heap, sig_flag>>
        /\ IF e.ptr = Listener THEN pc' = "accept" /\ UNCHANGED active ELSE Continue(0, e.ptr)
  BY DEF Dispatch
<1>2. PeersTyped' /\ KernelTyped' /\ mem' \in [Blocks -> RequestType]
  BY <1>1 DEF Tidy, PeersTyped, KernelTyped, ProcessTyped
<1>3. /\ pc' \in PcType \ {"open"} /\ active' \in Blocks \cup {None}
      /\ pc' \in DOMAIN StateOf => active' \in Blocks
  <2>1. CASE e.ptr = Listener
    BY <1>1, <2>1 DEF Tidy, ProcessTyped, PcType, StateOf
  <2>2. CASE e.ptr # Listener
    <3>1. e.ptr \in Blocks
      BY <2>2 DEF Tidy, ProcessTyped, EventType
    <3> QED BY <1>1, <1>2, <2>2, <3>1, ContinueTyped
  <2> QED BY <2>1, <2>2
<1>4. ProcessTyped'
  BY <1>1, <1>3 DEF Tidy, ProcessTyped
<1> QED BY <1>1, <1>2, <1>4, SameConnections DEF Tidy

(* The descriptor that accept or socket returns is open on nothing.         *)
LEMMA LowestTidy ==
    ASSUME Tidy, FreeFds # {}, NEW f, f = Lowest(FreeFds)
    PROVE  f \in Fds /\ file[f].type = "free"
<1>1. FreeFds \subseteq Fds /\ FreeFds \subseteq Nat
  BY TidyTyped, FreeFdsTyped, EpollAssumption DEF Fds
<1>2. f \in FreeFds
  BY <1>1, LowestIn
<1> QED BY <1>1, <1>2 DEF FreeFds

(* One accept: the connection waited in the backlog.                        *)
LEMMA AcceptOneTidy ==
    ASSUME Tidy, NEW b \in Mallocs, NEW f, f = Lowest(FreeFds), NEW c, c = Head(backlog),
           NEW o, o = [Closed EXCEPT !.type = "client", !.of = c],
           pc = "accept", FreeFds # {}, backlog # <<>>,
           backlog' = Tail(backlog),
           conn' = [conn EXCEPT ![c] = "open"],
           file' = [file EXCEPT ![f] = o],
           reg' = [reg EXCEPT ![f] = b],
           ready' = ready \cup (IF sent[c] > 0 \/ c \in eof \cup rst THEN {f} ELSE {}),
           mem' = [mem EXCEPT ![b].client_fd = f],
           heap' = [heap EXCEPT ![b] = "live"], pc' = "accept",
           UNCHANGED <<given, sent, recvd, eof, rst, reply, wreg, lready>>,
           UNCHANGED <<active, batch, sig_flag>>
    PROVE  Tidy'
<1> USE DEF given
<1>1. f \in Fds /\ file[f].type = "free" /\ b \in Blocks /\ b # None
  BY LowestTidy, EpollAssumption DEF Mallocs
<1>2. /\ c \in Clients /\ c = backlog[1] /\ backlog' \in Seq(Clients)
      /\ Len(backlog) \in Nat \ {0} /\ Len(backlog') = Len(backlog) - 1
      /\ \A i \in 1 .. Len(backlog') : backlog'[i] = backlog[i + 1]
  BY HeadTailProperties DEF Tidy, PeersTyped
<1>3. o.type = "client" /\ o.of = c /\ o \in FileType
  BY <1>2, ClientFile
<1>4. /\ file' \in [Fds -> FileType] /\ file'[f] = o /\ \A g \in Fds \ {f} : file'[g] = file[g]
      /\ reg' \in [Fds -> Blocks \cup {None}] /\ reg'[f] = b
      /\ \A g \in Fds \ {f} : reg'[g] = reg[g]
  BY <1>1, <1>3 DEF Tidy, KernelTyped
<1>5. mem' \in [Blocks -> RequestType]
  <2>1. mem[b] \in RequestType /\ mem' = [mem EXCEPT ![b] = [mem[b] EXCEPT !.client_fd = f]]
    BY <1>1 DEF Tidy, ProcessTyped
  <2>2. [mem[b] EXCEPT !.client_fd = f] \in RequestType
    BY <1>1, <2>1, ClientFdTyped
  <2> QED BY <2>1, <2>2 DEF Tidy, ProcessTyped
<1>6. PeersTyped'
  BY <1>2 DEF Tidy, PeersTyped
<1>7. KernelTyped'
  BY <1>1, <1>2, <1>3, <1>4 DEF Tidy, KernelTyped
<1>8. ProcessTyped'
  <2>1. heap' \in [Blocks -> HeapType]
    BY DEF Tidy, ProcessTyped, HeapType
  <2> QED BY <1>5, <2>1 DEF Tidy, ProcessTyped
<1>9. OneConnection'
  <2>1. conn[c] = "pending" /\ conn'[c] = "open" /\ \A d \in Clients \ {c} : conn'[d] = conn[d]
    <3>1. 1 \in 1 .. Len(backlog) /\ conn \in [Clients -> {"none", "pending", "open", "closed"}]
      BY <1>2 DEF Tidy, PeersTyped
    <3> QED BY <1>2, <3>1 DEF Tidy, OneConnection
  <2>2. \A i \in 1 .. Len(backlog') :
          i + 1 \in 1 .. Len(backlog) /\ backlog'[i] = backlog[i + 1] /\ backlog'[i] \in Clients
          /\ backlog'[i] # c
    <3> SUFFICES ASSUME NEW i \in 1 .. Len(backlog')
                 PROVE  i + 1 \in 1 .. Len(backlog) /\ backlog'[i] = backlog[i + 1]
                        /\ backlog'[i] \in Clients /\ backlog'[i] # c
      OBVIOUS
    <3>1. 1 \in 1 .. Len(backlog) /\ i + 1 \in 1 .. Len(backlog) /\ i + 1 # 1
      BY <1>2
    <3>2. backlog[i + 1] # backlog[1]
      BY <3>1 DEF Tidy, OneConnection
    <3>3. backlog'[i] \in Clients
      BY <1>2, ElementOfSeq
    <3> QED BY <1>2, <3>1, <3>2, <3>3
  <2>3. /\ \A i, j \in 1 .. Len(backlog') : backlog'[i] = backlog'[j] => i = j
        /\ \A i \in 1 .. Len(backlog') : conn'[backlog'[i]] = "pending"
    BY <2>1, <2>2 DEF Tidy, OneConnection
  <2>4. \A g \in Fds : file[g].type = "client" => file[g].of \in Clients \ {c}
    BY <2>1 DEF Tidy, KernelTyped, OneConnection
  <2>5. \A g \in Fds : /\ file'[g].type = "client" => conn'[file'[g].of] = "open"
                       /\ file'[g].type = "stdin" => g = 0
    BY <1>3, <1>4, <2>1, <2>4 DEF Tidy, OneConnection
  <2>6. \A g, h \in Fds : file'[g].type = "client" /\ file'[h].type = "client"
                          /\ file'[g].of = file'[h].of => g = h
    BY <1>3, <1>4, <2>4 DEF Tidy, OneConnection
  <2>7. \A d \in Clients : d \in rst => conn'[d] # "none"
    BY <2>1 DEF Tidy, OneConnection
  <2> QED BY <2>3, <2>5, <2>6, <2>7 DEF Tidy, OneConnection
<1> QED BY <1>6, <1>7, <1>8, <1>9 DEF Tidy

LEMMA AcceptTidy == ASSUME Tidy, Accept PROVE Tidy'
<1> USE DEF Accept, AcceptInto
<1>1. CASE UNCHANGED <<peers, kernel, mem, heap>> /\ pc' \in {"exited", "event"}
  <2>1. sig_flag' \in BOOLEAN
    BY DEF Tidy, ProcessTyped
  <2> QED BY <1>1, <2>1, StopTidy
<1>2. CASE FreeFds # {} /\ backlog # <<>>
  BY <1>2, AcceptOneTidy
<1> QED BY <1>1, <1>2

-----------------------------------------------------------------------------
(* The functions of handle_client: of which request, and what it becomes.   *)
LEMMA ActiveTyped ==
    ASSUME Tidy, pc \in DOMAIN StateOf, NEW b, b = active
    PROVE  /\ b \in Blocks /\ b # None /\ request = mem[b] /\ request \in RequestType
           /\ request.client_fd \in Fds \cup {BadFd} /\ request.server_fd \in Fds \cup {BadFd}
           /\ request.current_state \in 0 .. Wild
           /\ request.read_buffer \in Seq(Cells) /\ request.write_buffer \in Seq(Cells)
           /\ request.total_write_amount \in Nat /\ request.written_bytes_server \in Nat
           /\ request.read_bytes_server \in Nat /\ request.read_bytes_client \in Nat
           /\ request.written_bytes_client \in Nat
<1>1. b \in Blocks /\ request = mem[b]
  BY DEF Tidy, ProcessTyped, request
<1>2. b # None
  BY <1>1, EpollAssumption
<1> QED BY <1>1, <1>2, TidyTyped, RequestTyped DEF State

(* The request takes another value; a descriptor may be opened for it.      *)
LEMMA BecomesTidy ==
    ASSUME Tidy, pc \in DOMAIN StateOf, NEW r \in RequestType, Becomes(r),
           KernelTyped', reply' \in [Clients -> Seq(Cells)],
           recvd' \in [Clients -> 0 .. 2], \A c \in Clients : recvd'[c] <= sent[c],
           \A f \in Fds : file'[f].type = file[f].type \/ (file[f].type = "free" /\ file'[f].type = "server"),
           \A f \in Fds : file[f].type # "free" => file'[f].of = file[f].of,
           pc' \in PcType, pc' \in DOMAIN StateOf => active' = active,
           active' \in {active, None}, pc' = "open" => Complete(r.read_buffer),
           UNCHANGED <<given, sent, eof, rst, conn, backlog, batch, sig_flag>>
    PROVE  Tidy'
<1> USE DEF given
<1>1. active \in Blocks
  BY ActiveTyped
<1>2. mem' \in [Blocks -> RequestType] /\ mem'[active] = r /\ heap' = heap
  BY <1>1, TidyTyped, Becoming DEF Becomes
<1>3. PeersTyped'
  BY DEF Tidy, PeersTyped
<1>4. ProcessTyped'
  <2>1. "open" \in DOMAIN StateOf
    BY DEF StateOf
  <2>2. active' \in Blocks \cup {None}
    BY <1>1
  <2> QED BY <1>1, <1>2, <2>1, <2>2 DEF Tidy, ProcessTyped
<1>5. OneConnection'
  BY SameConnections
<1> QED BY <1>3, <1>4, <1>5 DEF Tidy

(* A request that goes on or pauses with nothing changed.                   *)
LEMMA PauseTidy ==
    ASSUME Tidy, pc \in DOMAIN StateOf, NEW i \in 0 .. 4, Continue(i, active),
           UNCHANGED <<peers, kernel, mem, heap, batch, sig_flag>>
    PROVE  Tidy'
<1> USE DEF peers, kernel, given
<1>1. PeersTyped' /\ KernelTyped'
  BY DEF Tidy, PeersTyped, KernelTyped
<1>2. ProcessTyped'
  <2>1. active \in Blocks /\ mem' \in [Blocks -> RequestType]
    BY ActiveTyped DEF Tidy, ProcessTyped
  <2>2. /\ pc' \in PcType \ {"open", "hung", "exited"} /\ active' \in Blocks \cup {None}
        /\ pc' \in DOMAIN StateOf => active' = active
    BY <2>1, ContinueTyped
  <2> QED BY <2>1, <2>2 DEF Tidy, ProcessTyped
<1> QED BY <1>1, <1>2, SameConnections DEF Tidy

(* A request that is given up.                                              *)
LEMMA GiveUpTidy ==
    ASSUME Tidy, pc \in DOMAIN StateOf, NEW F, GiveUp(F), NEW i \in 0 .. 4, Continue(i, active),
           UNCHANGED <<batch, sig_flag>>
    PROVE  Tidy'
<1>1. active \in Blocks
  BY ActiveTyped
<1>2. /\ CloseFds(F) /\ Release(active)
      /\ UNCHANGED <<given, sent, recvd, eof, rst, backlog, reply, lready>>
  BY DEF GiveUp
<1>3. mem' \in [Blocks -> RequestType] /\ heap' \in [Blocks -> HeapType]
  BY <1>1, <1>2, TidyTyped, Releasing
<1>4. /\ pc' \in PcType \ {"open", "hung", "exited"} /\ active' \in Blocks \cup {None}
      /\ pc' \in DOMAIN StateOf => active' = active
  BY <1>1, <1>3, ContinueTyped
<1>5. reply' \in [Clients -> Seq(Cells)]
  BY <1>2 DEF Tidy, PeersTyped
<1> QED BY <1>1, <1>2, <1>3, <1>4, <1>5, ClosedTidy

(* recv takes what there is.                                                *)
LEMMA TakenTyped ==
    ASSUME Tidy, NEW f, Taken(f), UNCHANGED <<sent, reg, wreg, ready, lready>>
    PROVE  /\ KernelTyped' /\ recvd' \in [Clients -> 0 .. 2]
           /\ \A c \in Clients : recvd'[c] <= sent[c]
           /\ \A g \in Fds : file'[g].type = file[g].type /\ file'[g].of = file[g].of
                             /\ file'[g].st = file[g].st
<1>1. CASE UNCHANGED <<file, recvd>>
  BY <1>1 DEF Tidy, PeersTyped, KernelTyped
<1>2. CASE file' = file /\ f \in Fds /\ file[f].type = "client" /\ recvd' = [recvd EXCEPT ![file[f].of] = sent[file[f].of]]
  <2>1. file[f].of \in Clients
    BY <1>2 DEF Tidy, KernelTyped
  <2>2. /\ recvd \in [Clients -> 0 .. 2] /\ sent \in [Clients -> 0 .. 2]
        /\ \A c \in Clients : recvd[c] <= sent[c]
    BY DEF Tidy, PeersTyped
  <2>3. /\ recvd' \in [Clients -> 0 .. 2]
        /\ \A c \in Clients : recvd'[c] = recvd[c] \/ recvd'[c] = sent[c]
    BY <1>2, <2>1, <2>2
  <2>4. \A c \in Clients : recvd'[c] <= sent[c]
    BY <2>2, <2>3
  <2>5. KernelTyped'
    BY <1>2 DEF Tidy, KernelTyped
  <2> QED BY <1>2, <2>3, <2>4, <2>5
<1>3. CASE f \in Fds /\ file' = [file EXCEPT ![f].got = TRUE] /\ recvd' = recvd
  <2> DEFINE yes == TRUE
  <2>1. yes \in BOOLEAN /\ file' = [file EXCEPT ![f].got = yes]
    BY <1>3
  <2> HIDE DEF yes
  <2>2. file \in [Fds -> FileType] /\ file[f] \in FileType
    BY <1>3 DEF Tidy, KernelTyped
  <2>3. file'[f] = [file[f] EXCEPT !.got = yes] /\ \A g \in Fds \ {f} : file'[g] = file[g]
    BY <1>3, <2>1, <2>2
  <2>4. file'[f] \in FileType /\ file' \in [Fds -> FileType]
    BY <1>3, <2>1, <2>2, <2>3 DEF FileType
  <2>5. file'[f].type = file[f].type /\ file'[f].of = file[f].of /\ file'[f].st = file[f].st
    BY <2>2, <2>3 DEF FileType
  <2>6. \A g \in Fds : file'[g].type = file[g].type /\ file'[g].of = file[g].of
                      /\ file'[g].st = file[g].st
    BY <2>3, <2>5
  <2>7. KernelTyped'
    BY <2>4, <2>6 DEF Tidy, KernelTyped
  <2> QED BY <1>3, <2>6, <2>7 DEF Tidy, PeersTyped
<1>4. FileOf(f).type = "client" => f \in Fds /\ file[f].type = "client" /\ FileOf(f) = file[f]
  BY DEF FileOf, Closed
<1>5. FileOf(f).type = "server" => f \in Fds
  BY DEF FileOf, Closed
<1> QED BY <1>1, <1>2, <1>3, <1>4, <1>5 DEF Taken

LEMMA ReadRequestTidy == ASSUME Tidy, ReadRequest PROVE Tidy'
<1> DEFINE in == Input(request.client_fd)
           new == Put(request.read_buffer, request.read_bytes_client, in.cells)
           count == Count(request.read_bytes_client, in.cells)
           r == [request EXCEPT !.read_buffer = new, !.read_bytes_client = count]
<1>1. /\ pc = "read_request" /\ pc \in DOMAIN StateOf /\ active \in Blocks
      /\ request = mem[active] /\ UNCHANGED <<batch, sig_flag>>
  BY ActiveTyped DEF ReadRequest, StateOf
<1>2. CASE in.cells # <<>>
  <2>1. /\ Taken(request.client_fd) /\ Becomes(r)
        /\ pc' = IF Complete(new) THEN "open" ELSE "read_request"
        /\ UNCHANGED <<given, sent, eof, rst, conn, backlog, reply,
                       reg, wreg, ready, lready, active>>
    BY <1>2 DEF ReadRequest
  <2>2. request \in RequestType /\ new \in Seq(Cells) /\ count \in Nat
    BY <1>1, InputTyped, PutTyped, ActiveTyped DEF Count
  <2> HIDE DEF new, count
  <2>3. r \in RequestType /\ r.read_buffer = new
    BY <2>2 DEF RequestType
  <2> HIDE DEF r
  <2>4. /\ KernelTyped' /\ recvd' \in [Clients -> 0 .. 2]
        /\ \A c \in Clients : recvd'[c] <= sent[c]
        /\ \A g \in Fds : file'[g].type = file[g].type /\ file'[g].of = file[g].of
    BY <2>1, TakenTyped
  <2>5. reply' \in [Clients -> Seq(Cells)]
    BY <2>1 DEF Tidy, PeersTyped
  <2> QED BY <1>1, <2>1, <2>3, <2>4, <2>5, BecomesTidy DEF PcType
<1>3. CASE GiveUp({request.client_fd}) /\ Continue(1, active)
  BY <1>1, <1>3, GiveUpTidy
<1>4. CASE UNCHANGED <<peers, kernel, mem, heap>> /\ Continue(1, active)
  BY <1>1, <1>4, PauseTidy
<1>5. CASE /\ pc' = IF Complete(request.read_buffer) THEN "open" ELSE "hung"
           /\ UNCHANGED <<peers, kernel, mem, heap, active>>
  <2>1. sig_flag' \in BOOLEAN
    BY <1>1 DEF Tidy, ProcessTyped
  <2>2. CASE Complete(request.read_buffer)
    <3> USE DEF peers, kernel, given
    <3>1. PeersTyped' /\ KernelTyped'
      BY <1>5 DEF Tidy, PeersTyped, KernelTyped
    <3>2. ProcessTyped'
      BY <1>1, <1>5, <2>2 DEF Tidy, ProcessTyped, PcType
    <3> QED BY <1>5, <3>1, <3>2, SameConnections DEF Tidy
  <2>3. CASE ~Complete(request.read_buffer)
    BY <1>1, <1>5, <2>1, <2>3, StopTidy
  <2> QED BY <2>2, <2>3
<1> QED BY <1>2, <1>3, <1>4, <1>5 DEF ReadRequest

LEMMA OpenTidy == ASSUME Tidy, Open PROVE Tidy'
<1> DEFINE c == request.read_buffer[1][1]
           f == Lowest(FreeFds)
           o == [type |-> "server", of |-> c, st |-> "new", got |-> FALSE]
           wbuf == Put(request.write_buffer, 0, << <<c, "request">> >>)
           rbuf == Clear(request.read_buffer, request.read_bytes_client)
           r == [request EXCEPT !.server_fd = f, !.current_state = 1, !.write_buffer = wbuf,
                                !.total_write_amount = 1, !.read_buffer = rbuf]
<1>1. /\ pc = "open" /\ pc \in DOMAIN StateOf /\ active \in Blocks /\ request = mem[active]
      /\ Continue(1, active) /\ UNCHANGED <<batch, sig_flag>>
  BY ActiveTyped DEF Open, StateOf
<1>2. request.read_buffer \in Seq(Cells) /\ Complete(request.read_buffer)
  BY <1>1, ActiveTyped DEF Tidy, ProcessTyped
<1>3. c \in Clients
  BY <1>2, CompleteHasClient
<1>4. CASE GiveUp({request.client_fd})
  BY <1>1, <1>4, GiveUpTidy
<1>5. CASE /\ FreeFds # {}
           /\ file' = [file EXCEPT ![f] = o] /\ wreg' = wreg \cup {f}
           /\ Becomes(r)
           /\ UNCHANGED <<peers, reg, ready, lready>>
  <2>1. f \in Fds /\ file[f].type = "free"
    BY <1>5, LowestTidy
  <2>2. request \in RequestType /\ wbuf \in Seq(Cells) /\ rbuf \in Seq(Cells)
    <3>1. << <<c, "request">> >> \in Seq(Cells)
      BY <1>3 DEF Cells
    <3>2. /\ request \in RequestType /\ request.write_buffer \in Seq(Cells)
          /\ request.read_bytes_client \in Nat /\ 0 \in Nat
      BY <1>1, ActiveTyped
    <3> QED BY <1>2, <3>1, <3>2, PutTyped, ClearTyped
  <2>3. o.type = "server" /\ o.of = c /\ o \in FileType
    BY <1>3, ServerFile
  <2> HIDE DEF wbuf, rbuf, f, o
  <2>4. r \in RequestType
    <3>1. 1 \in 0 .. Wild /\ 1 \in Nat
      BY DEF Wild
    <3> QED BY <2>1, <2>2, <3>1, OpenedTyped
  <2> HIDE DEF r
  <2>5. file' \in [Fds -> FileType] /\ file'[f] = o /\ \A g \in Fds \ {f} : file'[g] = file[g]
    BY <1>5, <2>1, <2>3 DEF Tidy, KernelTyped
  <2>6. KernelTyped'
    BY <1>3, <1>5, <2>1, <2>3, <2>5 DEF Tidy, KernelTyped
  <2>7. mem' \in [Blocks -> RequestType]
    BY <1>1, <1>5, <2>4, TidyTyped, Becoming DEF Becomes
  <2>8. /\ pc' \in PcType \ {"open", "hung", "exited"} /\ active' \in Blocks \cup {None}
        /\ pc' \in DOMAIN StateOf => active' = active
    BY <1>1, <2>7, ContinueTyped
  <2>9. active' \in {active, None}
    BY <1>1 DEF Continue
  <2>10. /\ \A g \in Fds : file'[g].type = file[g].type
                           \/ (file[g].type = "free" /\ file'[g].type = "server")
         /\ \A g \in Fds : file[g].type # "free" => file'[g].of = file[g].of
    BY <2>1, <2>3, <2>5
  <2>11. /\ reply' \in [Clients -> Seq(Cells)] /\ recvd' \in [Clients -> 0 .. 2]
         /\ \A d \in Clients : recvd'[d] <= sent[d]
    BY <1>5 DEF Tidy, PeersTyped, peers
  <2> QED BY <1>1, <1>5, <2>4, <2>6, <2>8, <2>9, <2>10, <2>11, BecomesTidy DEF peers
<1> QED BY <1>4, <1>5, <1>1 DEF Open

(* What is cut from a buffer is cells.                                      *)
LEMMA CutTyped ==
    ASSUME NEW buf \in Seq(Cells), NEW off \in Nat, NEW n \in Nat
    PROVE  Cut(buf, off, n) \in Seq(Cells)
<1>1. \A i \in 1 .. n : (IF off + i <= Len(buf) THEN buf[off + i] ELSE None) \in Cells
  <2> SUFFICES ASSUME NEW i \in 1 .. n
               PROVE  (IF off + i <= Len(buf) THEN buf[off + i] ELSE None) \in Cells
    OBVIOUS
  <2>1. CASE off + i <= Len(buf)
    <3>1. off + i \in 1 .. Len(buf)
      BY <2>1
    <3> QED BY <2>1, <3>1, ElementOfSeq
  <2>2. CASE ~(off + i <= Len(buf))
    BY <2>2 DEF Cells
  <2> QED BY <2>1, <2>2
<1> QED BY <1>1, IsASeq DEF Cut

(* A write: who is sent what.                                               *)
LEMMA SentIsTyped ==
    ASSUME Tidy, NEW f, NEW cells \in Seq(Cells), reply' = Sent(f, cells)
    PROVE  /\ reply' \in [Clients -> Seq(Cells)]
           /\ \A c \in Clients : f \in FdsOf(c) => reply'[c] = reply[c] \o cells
           /\ \A c \in Clients : f \notin FdsOf(c) => reply'[c] = reply[c]
<1>1. reply \in [Clients -> Seq(Cells)]
  BY DEF Tidy, PeersTyped
<1>2. \A c \in Clients : reply[c] \o cells \in Seq(Cells)
  BY <1>1, ConcatProperties
<1> QED BY <1>1, <1>2 DEF Sent

LEMMA AskedTyped ==
    ASSUME Tidy, NEW f \in Fds, NEW cells, file' = Asked(f, cells)
    PROVE  /\ file' \in [Fds -> FileType]
           /\ \A g \in Fds : file'[g].type = file[g].type /\ file'[g].of = file[g].of
                             /\ file'[g].got = file[g].got
           /\ \A g \in Fds : file'[g].st = file[g].st \/ (file[g].st = "new" /\ file'[g].st = "asked")
           /\ \A g \in Fds \ {f} : file'[g] = file[g]
<1>1. file' = file \/ (file[f].st = "new" /\ file' = [file EXCEPT ![f].st = "asked"])
  BY DEF Asked, FileOf
<1>2. file[f] \in FileType /\ file \in [Fds -> FileType]
  BY DEF Tidy, KernelTyped
<1>3. CASE file' = file
  BY <1>2, <1>3
<1>4. CASE file[f].st = "new" /\ file' = [file EXCEPT ![f].st = "asked"]
  <2>1. [file[f] EXCEPT !.st = "asked"] \in FileType
    BY <1>2 DEF FileType
  <2>2. /\ file' \in [Fds -> FileType] /\ file'[f] = [file[f] EXCEPT !.st = "asked"]
        /\ \A g \in Fds \ {f} : file'[g] = file[g]
    BY <1>2, <1>4, <2>1
  <2>3. /\ file'[f].type = file[f].type /\ file'[f].of = file[f].of /\ file'[f].got = file[f].got
        /\ file'[f].st = "asked"
    BY <1>2, <2>2 DEF FileType
  <2> QED BY <1>4, <2>2, <2>3
<1> QED BY <1>1, <1>3, <1>4

LEMMA SendRequestTidy == ASSUME Tidy, SendRequest PROVE Tidy'
<1> DEFINE f == request.server_fd
           n == request.written_bytes_server + request.total_write_amount
           cells == Cut(request.write_buffer, request.written_bytes_server,
                        request.total_write_amount)
           wbuf == Clear(request.write_buffer, n)
           r == [request EXCEPT !.written_bytes_server = n, !.current_state = 2,
                                !.write_buffer = wbuf]
<1>1. /\ pc = "send_request" /\ pc \in DOMAIN StateOf /\ active \in Blocks /\ active # None
      /\ request = mem[active] /\ UNCHANGED <<batch, sig_flag>>
  BY ActiveTyped DEF SendRequest, StateOf
<1>2. CASE GiveUp({request.client_fd, f}) /\ Continue(2, active)
  BY <1>1, <1>2, GiveUpTidy
<1>3. CASE pc' = "exited" /\ UNCHANGED <<peers, kernel, mem, heap, active>>
  <2>1. sig_flag' \in BOOLEAN
    BY <1>1 DEF Tidy, ProcessTyped
  <2> QED BY <1>1, <1>3, <2>1, StopTidy
<1>4. CASE /\ CanAdd(f, Registered)
           /\ reply' = Sent(f, cells) /\ file' = Asked(f, cells)
           /\ reg' = [reg EXCEPT ![f] = active]
           /\ ready' = IF Readable(f) THEN ready \cup {f} ELSE ready
           /\ Becomes(r)
           /\ UNCHANGED <<given, sent, recvd, eof, rst, conn, backlog, wreg, lready>>
           /\ Continue(2, active)
  <2>1. f \in Fds
    BY <1>4 DEF CanAdd, FileOf, Closed
  <2>2. request \in RequestType /\ n \in Nat /\ wbuf \in Seq(Cells) /\ cells \in Seq(Cells)
    <3>1. /\ request \in RequestType /\ request.write_buffer \in Seq(Cells) /\ n \in Nat
          /\ request.written_bytes_server \in Nat /\ request.total_write_amount \in Nat
      BY <1>1, ActiveTyped
    <3> QED BY <3>1, ClearTyped, CutTyped
  <2> HIDE DEF n, wbuf, cells, f
  <2>3. r \in RequestType
    <3>1. 2 \in 0 .. Wild
      BY DEF Wild
    <3> QED BY <2>2, <3>1, SentTyped
  <2> HIDE DEF r
  <2>4. /\ file' \in [Fds -> FileType] /\ reply' \in [Clients -> Seq(Cells)]
        /\ \A g \in Fds : file'[g].type = file[g].type /\ file'[g].of = file[g].of
    BY <1>4, <2>1, <2>2, AskedTyped, SentIsTyped
  <2>5. KernelTyped'
    <3>1. reg' \in [Fds -> Blocks \cup {None}] /\ reg'[f] = active
          /\ \A g \in Fds \ {f} : reg'[g] = reg[g]
      BY <1>1, <1>4, <2>1 DEF Tidy, KernelTyped
    <3> QED BY <1>1, <1>4, <2>1, <2>4, <3>1 DEF Tidy, KernelTyped
  <2>6. mem' \in [Blocks -> RequestType]
    BY <1>1, <1>4, <2>3, TidyTyped, Becoming DEF Becomes
  <2>7. /\ pc' \in PcType \ {"open", "hung", "exited"} /\ active' \in Blocks \cup {None}
        /\ pc' \in DOMAIN StateOf => active' = active
    BY <1>1, <1>4, <2>6, ContinueTyped
  <2>8. active' \in {active, None}
    BY <1>4 DEF Continue
  <2>9. recvd' \in [Clients -> 0 .. 2] /\ \A d \in Clients : recvd'[d] <= sent[d]
    BY <1>4 DEF Tidy, PeersTyped
  <2> QED BY <1>1, <1>4, <2>3, <2>4, <2>5, <2>7, <2>8, <2>9, BecomesTidy
<1> QED BY <1>2, <1>3, <1>4 DEF SendRequest

LEMMA ReadResponseTidy == ASSUME Tidy, ReadResponse PROVE Tidy'
<1> DEFINE f == request.server_fd
           in == Input(f)
           new == Put(request.read_buffer, request.read_bytes_server, in.cells)
           count == Count(request.read_bytes_server, in.cells)
           r == [request EXCEPT !.read_buffer = new, !.read_bytes_server = count]
           total == request.read_bytes_server
           t == [request EXCEPT !.total_write_amount = total, !.current_state = 3]
<1>1. /\ pc = "read_response" /\ pc \in DOMAIN StateOf /\ active \in Blocks
      /\ request = mem[active] /\ request \in RequestType /\ total \in Nat
      /\ UNCHANGED <<batch, sig_flag>>
  BY ActiveTyped DEF ReadResponse, StateOf
<1>2. CASE in.cells # <<>>
  <2>1. /\ Taken(f) /\ Becomes(r)
        /\ UNCHANGED <<given, sent, eof, rst, conn, backlog, reply,
                       reg, wreg, ready, lready, pc, active>>
    BY <1>2 DEF ReadResponse
  <2>2. new \in Seq(Cells) /\ count \in Nat
    BY <1>1, InputTyped, PutTyped, ActiveTyped DEF Count
  <2> HIDE DEF new, count
  <2>3. r \in RequestType
    BY <1>1, <2>2 DEF RequestType
  <2> HIDE DEF r
  <2>4. /\ KernelTyped' /\ recvd' \in [Clients -> 0 .. 2]
        /\ \A c \in Clients : recvd'[c] <= sent[c]
        /\ \A g \in Fds : file'[g].type = file[g].type /\ file'[g].of = file[g].of
    BY <2>1, TakenTyped
  <2>5. reply' \in [Clients -> Seq(Cells)]
    BY <2>1 DEF Tidy, PeersTyped
  <2> QED BY <1>1, <2>1, <2>3, <2>4, <2>5, BecomesTidy DEF PcType
<1>3. CASE GiveUp({request.client_fd}) /\ Continue(3, active)
  BY <1>1, <1>3, GiveUpTidy
<1>4. CASE /\ CanAdd(request.client_fd, wreg)
           /\ wreg' = wreg \cup {request.client_fd}
           /\ Becomes(t)
           /\ UNCHANGED <<peers, file, reg, ready, lready>>
           /\ Continue(3, active)
  <2>1. request.client_fd \in Fds
    BY <1>4 DEF CanAdd, FileOf, Closed
  <2>2. t \in RequestType
    <3>1. 3 \in 0 .. Wild
      BY DEF Wild
    <3> HIDE DEF total
    <3> QED BY <1>1, <3>1, AnsweredTyped
  <2> HIDE DEF t
  <2>3. KernelTyped'
    BY <1>4, <2>1 DEF Tidy, KernelTyped
  <2>4. mem' \in [Blocks -> RequestType]
    BY <1>1, <1>4, <2>2, TidyTyped, Becoming DEF Becomes
  <2>5. /\ pc' \in PcType \ {"open", "hung", "exited"} /\ active' \in Blocks \cup {None}
        /\ pc' \in DOMAIN StateOf => active' = active
    BY <1>1, <1>4, <2>4, ContinueTyped
  <2>6. active' \in {active, None}
    BY <1>4 DEF Continue
  <2>7. /\ reply' \in [Clients -> Seq(Cells)] /\ recvd' \in [Clients -> 0 .. 2]
        /\ \A d \in Clients : recvd'[d] <= sent[d]
    BY <1>4 DEF Tidy, PeersTyped, peers
  <2> QED BY <1>1, <1>4, <2>2, <2>3, <2>5, <2>6, <2>7, BecomesTidy DEF peers
<1>5. CASE pc' = "exited" /\ UNCHANGED <<peers, kernel, mem, heap, active>>
  <2>1. sig_flag' \in BOOLEAN
    BY <1>1 DEF Tidy, ProcessTyped
  <2> QED BY <1>1, <1>5, <2>1, StopTidy
<1>6. CASE UNCHANGED <<peers, kernel, mem, heap>> /\ Continue(3, active)
  BY <1>1, <1>6, PauseTidy
<1> QED BY <1>2, <1>3, <1>4, <1>5, <1>6 DEF ReadResponse

LEMMA SendResponseTidy == ASSUME Tidy, SendResponse PROVE Tidy'
<1> DEFINE f == request.client_fd
           total == request.total_write_amount
           cells(n) == Cut(request.read_buffer, request.written_bytes_client, n)
<1>1. /\ pc = "send_response" /\ pc \in DOMAIN StateOf /\ active \in Blocks
      /\ request = mem[active] /\ request \in RequestType /\ total \in Nat
      /\ request.read_buffer \in Seq(Cells) /\ request.written_bytes_client \in Nat
      /\ UNCHANGED <<batch, sig_flag>>
  BY ActiveTyped DEF SendResponse, StateOf
<1>2. CASE GiveUp({f, request.server_fd}) /\ Continue(4, active)
  BY <1>1, <1>2, GiveUpTidy
<1>3. CASE UNCHANGED <<peers, kernel, mem, heap>> /\ Continue(4, active)
  BY <1>1, <1>3, PauseTidy
<1>4. ASSUME NEW n \in 0 .. total, NEW m, m = request.written_bytes_client + n,
             reply' = Sent(f, cells(n)),
             UNCHANGED <<given, sent, recvd, eof, rst, backlog, lready>>,
             \/ Finish(m) /\ Continue(4, active)
             \/ /\ Becomes([request EXCEPT !.written_bytes_client = m])
                /\ UNCHANGED <<conn, file, reg, wreg, ready, pc, active>>
      PROVE  Tidy'
  <2>1. n \in Nat /\ m \in Nat
    BY <1>1, <1>4
  <2>2. cells(n) \in Seq(Cells)
    BY <1>1, <2>1, CutTyped
  <2>3. reply' \in [Clients -> Seq(Cells)]
    <3> HIDE DEF cells
    <3> QED BY <1>4, <2>2, SentIsTyped
  <2>4. CASE Finish(m) /\ Continue(4, active)
    <3> DEFINE r == [request EXCEPT !.written_bytes_client = m, !.current_state = 4]
    <3>1. r \in RequestType
      <4>1. 4 \in 0 .. Wild
        BY DEF Wild
      <4> QED BY <1>1, <2>1, <4>1, FinishedTyped
    <3>2. CloseFds({f, request.server_fd}) /\ Becomes(r)
      BY <2>4 DEF Finish
    <3> HIDE DEF r
    <3>3. mem' \in [Blocks -> RequestType] /\ heap' \in [Blocks -> HeapType]
      BY <1>1, <3>1, <3>2, TidyTyped, Becoming DEF Becomes, Tidy, ProcessTyped
    <3>4. /\ pc' \in PcType \ {"open", "hung", "exited"} /\ active' \in Blocks \cup {None}
          /\ pc' \in DOMAIN StateOf => active' = active
      BY <1>1, <2>4, <3>3, ContinueTyped
    <3> QED BY <1>1, <1>4, <2>3, <3>2, <3>3, <3>4, ClosedTidy
  <2>5. CASE /\ Becomes([request EXCEPT !.written_bytes_client = m])
             /\ UNCHANGED <<conn, file, reg, wreg, ready, pc, active>>
    <3> DEFINE r == [request EXCEPT !.written_bytes_client = m]
    <3>1. r \in RequestType
      BY <1>1, <2>1, WrittenTyped
    <3>2. Becomes(r)
      BY <2>5
    <3> HIDE DEF r
    <3>3. KernelTyped'
      BY <1>4, <2>5 DEF Tidy, KernelTyped
    <3>4. /\ recvd' \in [Clients -> 0 .. 2] /\ \A d \in Clients : recvd'[d] <= sent[d]
          /\ pc' \in PcType
      BY <1>4, <2>5 DEF Tidy, PeersTyped, ProcessTyped
    <3> QED BY <1>1, <1>4, <2>3, <2>5, <3>1, <3>2, <3>3, <3>4, BecomesTidy
  <2> QED BY <1>4, <2>4, <2>5
<1> QED BY <1>2, <1>3, <1>4 DEF SendResponse

-----------------------------------------------------------------------------
(* Every step leaves the state tidy.                                        *)
LEMMA StepTidy == ASSUME Tidy, [Next]_vars PROVE Tidy'
<1>1. CASE UNCHANGED vars
  <2> USE DEF vars, peers, kernel, process, given
  <2>1. PeersTyped' /\ KernelTyped' /\ ProcessTyped'
    BY <1>1 DEF Tidy, PeersTyped, KernelTyped, ProcessTyped
  <2> QED BY <1>1, <2>1, SameConnections DEF Tidy
<1>2. CASE Timeout \/ Signal
  <2>1. /\ UNCHANGED <<peers, kernel, mem, heap, active, batch>>
        /\ pc' = pc \/ pc' = "stopped"
    BY <1>2 DEF Timeout, Signal
  <2>2. sig_flag' \in BOOLEAN
    BY <1>2 DEF Timeout, Signal, Tidy, ProcessTyped
  <2> QED BY <2>1, <2>2, StopTidy
<1>3. CASE ProcessStep
  BY <1>2, <1>3, WaitTidy, HangUpTidy, DispatchTidy, AcceptTidy, ReadRequestTidy, OpenTidy,
     SendRequestTidy, ReadResponseTidy, SendResponseTidy DEF ProcessStep
<1>4. CASE \E c \in Clients : Alive /\ (ClientConnect(c) \/ ClientSend(c) \/ ClientLeave(c))
  BY <1>4, ConnectTidy, SendTidy, LeaveTidy
<1>5. CASE \E f \in Fds : Alive /\ ServerStep(f)
  BY <1>5, ServerTidy
<1> QED BY <1>1, <1>2, <1>3, <1>4, <1>5 DEF Next

LEMMA AlwaysTidy == Spec => []Tidy
<1>1. Init => Tidy
  BY InitTidy
<1>2. Tidy /\ [Next]_vars => Tidy'
  BY StepTidy
<1> QED BY <1>1, <1>2, PTL DEF Spec

(* Every variable has its type, whoever leaves and whatever the allocator    *)
(* does: request_infos whose fields were never written or are free-list      *)
(* links are no exception.                                                   *)
THEOREM TypeCorrect == Spec => []TypeOK
<1>1. Tidy => TypeOK
  <2> SUFFICES ASSUME Tidy PROVE TypeOK
    OBVIOUS
  <2>1. \A b \in Blocks :
          /\ {mem[b].client_fd, mem[b].server_fd} \subseteq Fds \cup {BadFd}
          /\ mem[b].current_state \in 0 .. Wild
          /\ {mem[b].read_bytes_client, mem[b].read_bytes_server, mem[b].total_write_amount,
               mem[b].written_bytes_client, mem[b].written_bytes_server} \subseteq Nat
          /\ mem[b].read_buffer \in Seq(Cells) /\ mem[b].write_buffer \in Seq(Cells)
    BY TidyTyped, RequestTyped DEF State
  <2>2. pc \in {"event", "accept", "open", "hung", "crashed", "exited", "stopped"} \cup Range(Steps)
    BY StepNames DEF Tidy, ProcessTyped, PcType, StateOf
  <2>3. PeersTyped /\ KernelTyped /\ ProcessTyped
    BY DEF Tidy
  <2> HIDE DEF Tidy
  <2> QED BY <2>1, <2>2, <2>3 DEF PeersTyped, KernelTyped, ProcessTyped, TypeOK, FileType, HeapType,
             EventType
<1> QED BY <1>1, AlwaysTidy, PTL

-----------------------------------------------------------------------------
(* The requests and their connections, when no request_info is handed out   *)
(* again with what it held and no request is left half closed.              *)

(* There are descriptors for every request, and none was given up; or what  *)
(* has been freed cannot be mistaken for a request, and no client resets.   *)
Ample == system.limit > 2 * Cardinality(Clients) /\ NoneGaveUp
Calm == Ample \/ ("merged" \notin system.frees /\ \A c \in Clients : kind[c] # "resets")

(* Nothing is done for an event of such a block, but the end of the process *)
(* if it is unmapped.                                                       *)
Settled(b) == State(b) = Wild \/ heap[b] = "unmapped"
(* The client of a request that is under way.                               *)
Client(b) == file[mem[b].client_fd].of
(* The connection of a server that reset it: it stays open after the request *)
(* is given up.                                                              *)
Leaked(f) == file[f].st = "reset" /\ reg[f] \in Blocks /\ State(reg[f]) = Wild

(* To whom an open descriptor belongs.                                      *)
HeldBy(f) ==
    /\ file[f].type = "client" =>
         reg[f] \in Blocks /\ Live(reg[f]) /\ mem[reg[f]].client_fd = f
    /\ file[f].type = "server" =>
         /\ conn[file[f].of] # "none"
         /\ Leaked(f) \/ \E b \in Blocks : Live(b) /\ mem[b].server_fd = f /\ State(b) \in 1 .. 3
                                           /\ reg[f] = IF State(b) = 1 THEN None ELSE b
    /\ file[f].type \in {"free", "stdin"} => reg[f] = None
    /\ file[f].st = "reset" => file[f].type = "server" /\ kind[file[f].of] = "serverresets"
    /\ f \in wreg => file[f].type = "server" \/ (file[f].type = "client" /\ State(reg[f]) = 3)

(* What a request that is under way holds; at which steps it may be in the  *)
(* states that one call of handle_client leads through.                     *)
Holds(b) ==
    Live(b) =>
        /\ State(b) \in {0, 1, 2, 3, Wild}
        /\ mem[b].client_fd \in Fds /\ file[mem[b].client_fd].type = "client"
        /\ reg[mem[b].client_fd] = b
        /\ State(b) \in 1 .. 3 =>
             /\ mem[b].server_fd \in Fds /\ file[mem[b].server_fd].type = "server"
             /\ reg[mem[b].server_fd] = IF State(b) = 1 THEN None ELSE b
             /\ file[mem[b].server_fd].of = Client(b)
        /\ State(b) = 1 => active = b /\ pc = "send_request"
        /\ State(b) = 3 => kind[Client(b)] = "big" \/ (active = b /\ pc = "send_response")
        /\ State(b) = Wild => mem[b].server_fd = BadFd
(* What is in a block that is not a request.                                *)
Unheld(b) ==
    /\ heap[b] # "live" =>
         \/ heap[b] = "unused" /\ mem[b] = Zeroed
         \/ heap[b] = "linked" /\ State(b) = Wild /\ mem[b].server_fd = BadFd
         \/ heap[b] = "unmapped"
    /\ Ample => heap[b] \in {"unused", "live"}

(* The buffer and the counters, at each state of a request.                 *)
IsRequest(buf, c, n) ==
    Len(buf) = n /\ \A i \in 1 .. n : buf[i] = <<c, IF i = 1 THEN "head" ELSE "end">>
Content(b) ==
    LET c == Client(b) IN
    Live(b) =>
        /\ State(b) = 0 =>
             /\ IsRequest(mem[b].read_buffer, c, recvd[c]) /\ mem[b].read_bytes_client = recvd[c]
             /\ mem[b].read_bytes_server = 0 /\ mem[b].written_bytes_client = 0
        /\ State(b) \in 1 .. 3 => recvd[c] = 2
        /\ State(b) \in 1 .. 2 =>
             /\ mem[b].written_bytes_client = 0
             /\ file[mem[b].server_fd].got =>
                  mem[b].read_bytes_server = 2 /\ mem[b].read_buffer = AnswerTo(c)
             /\ ~file[mem[b].server_fd].got =>
                  mem[b].read_bytes_server = 0 /\ Len(mem[b].read_buffer) = 2
        /\ State(b) = 3 =>
             /\ mem[b].total_write_amount = 2 /\ mem[b].read_buffer = AnswerTo(c)
             /\ kind[c] # "big" => mem[b].written_bytes_client = 0

(* Nothing is read of a connection before it is accepted.                   *)
Unread == \A c \in Clients : conn[c] \in {"none", "pending"} => recvd[c] = 0

(* An event of a request that has something to do is the only one.          *)
EventsSound ==
    \A e \in batch :
        /\ e.hup => ~Ample
        /\ e.ptr # Listener /\ ~Settled(e.ptr) =>
             /\ Live(e.ptr) /\ State(e.ptr) \in {0, 2, 3} /\ e.ptr # active
             /\ State(e.ptr) = 0 => ~e.hup
             /\ \A d \in batch : d.ptr = e.ptr => d = e

Sound ==
    /\ \A f \in Fds : HeldBy(f)
    /\ \A b \in Blocks : Holds(b) /\ Unheld(b) /\ Content(b)
    /\ Unread /\ EventsSound /\ InStep

(* What a client has been sent, and why the process would stop.             *)
Replied ==
    \A c \in Clients :
        /\ kind[c] = "big" => Range(reply[c]) \subseteq Range(AnswerTo(c)) \cup {None}
        /\ kind[c] # "big" => reply[c] = <<>> \/ (reply[c] = AnswerTo(c) /\ conn[c] = "closed")
Causes ==
    Ample =>
        /\ pc \notin {"crashed", "exited"}
        /\ pc = "hung" => \E c \in eof : recvd[c] = sent[c]

Kept == (Alive => Sound) /\ Replied /\ Causes

-----------------------------------------------------------------------------
(* A calm state was calm before: clients that have connected have.          *)
Calmer == /\ UNCHANGED given
          /\ \A c \in Clients : conn[c] # "none" => conn'[c] # "none"

LEMMA StaysAmple ==
    ASSUME Calmer PROVE (Ample' => Ample) /\ (Calm' => Calm)
BY DEF Calmer, given, Ample, Calm, NoneGaveUp

(* In calm no client's connection is reset.                                 *)
LEMMA NoReset == ASSUME Tidy, Calm PROVE rst = {}
<1> SUFFICES ASSUME NEW c \in rst PROVE FALSE
  OBVIOUS
<1>1. c \in Clients /\ kind[c] = "resets" /\ conn[c] # "none"
  BY DEF Tidy, PeersTyped, OneConnection
<1> QED BY <1>1 DEF Calm, Ample, NoneGaveUp, GivesUp

(* Nor a server's, in ample resources.                                      *)
LEMMA NoServerReset ==
    ASSUME Tidy, NEW f \in Fds, HeldBy(f), Ample PROVE file[f].st # "reset"
<1> SUFFICES ASSUME file[f].st = "reset" PROVE FALSE
  OBVIOUS
<1>1. file[f].of \in Clients /\ kind[file[f].of] = "serverresets" /\ conn[file[f].of] # "none"
  BY DEF HeldBy, Tidy, KernelTyped
<1> QED BY <1>1 DEF Ample, NoneGaveUp, GivesUp

(* Two requests share no connection.                                        *)
LEMMA Apart ==
    ASSUME Sound, NEW a \in Blocks, NEW b \in Blocks, a # b, Live(a), Live(b)
    PROVE  /\ mem[a].client_fd # mem[b].client_fd
           /\ State(a) \in 1 .. 3 => mem[a].server_fd # mem[b].client_fd
           /\ State(a) \in 1 .. 3 /\ State(b) \in 1 .. 3 => mem[a].server_fd # mem[b].server_fd
BY EpollAssumption DEF Sound, Holds

(* Nor a client.                                                            *)
LEMMA OtherClient ==
    ASSUME Tidy, Sound, NEW a \in Blocks, NEW b \in Blocks, a # b, Live(a), Live(b)
    PROVE  Client(a) \in Clients /\ Client(b) \in Clients /\ Client(a) # Client(b)
<1>1. /\ mem[a].client_fd \in Fds /\ file[mem[a].client_fd].type = "client"
      /\ mem[b].client_fd \in Fds /\ file[mem[b].client_fd].type = "client"
      /\ mem[a].client_fd # mem[b].client_fd
  BY Apart DEF Sound, Holds
<1> QED BY <1>1 DEF Client, Tidy, KernelTyped, OneConnection

(* What is done for request b leaves the others and their connections alone. *)
(* Only the descriptors of G change, which are those of b and new ones.      *)
LEMMA OthersKept ==
    ASSUME Tidy, Sound, Calmer, NEW b \in Blocks, active \in {b, None}, active' \in {b, None},
           NEW G,
           Live(b) => mem[b].client_fd \in G /\ (State(b) \in 1 .. 3 => mem[b].server_fd \in G),
           \A a \in Blocks \ {b} : Live(a) =>
             mem[a].client_fd \notin G /\ (State(a) \in 1 .. 3 => mem[a].server_fd \notin G),
           \A g \in Fds \ G : file'[g] = file[g] /\ reg'[g] = reg[g] /\ (g \in wreg' => g \in wreg),
           \A a \in Blocks \ {b} : mem'[a] = mem[a] /\ heap'[a] = heap[a],
           State(b) = Wild => State(b)' = Wild,
           \A c \in Clients : recvd'[c] = recvd[c] \/ (Live(b) /\ c = Client(b)),
           batch' \subseteq batch, \A d \in batch' : d.ptr = b => Settled(b)'
    PROVE  /\ \A g \in Fds \ G : HeldBy(g)'
           /\ \A a \in Blocks \ {b} : Holds(a)' /\ Unheld(a)' /\ Content(a)'
           /\ EventsSound'
<1> USE DEF Calmer, given
<1>1. \A a \in Blocks \ {b} : /\ Live(a)' <=> Live(a)
                              /\ State(a)' = State(a) /\ (Settled(a)' <=> Settled(a))
  BY DEF Live, State, Settled
<1>2. \A a \in Blocks \ {b} : Live(a) =>
        /\ active # a /\ State(a) # 1
        /\ mem[a].client_fd \in Fds \ G /\ file[mem[a].client_fd].type = "client"
        /\ reg[mem[a].client_fd] = a
        /\ State(a) \in 1 .. 3 => mem[a].server_fd \in Fds \ G
  BY EpollAssumption DEF Sound, Holds
<1>3. \A a \in Blocks \ {b} : Live(a) => Client(a)' = Client(a)
  BY <1>2 DEF Client
<1>4. ASSUME NEW g \in Fds \ G PROVE HeldBy(g)'
  <2>1. file'[g] = file[g] /\ reg'[g] = reg[g] /\ HeldBy(g)
    BY DEF Sound
  <2>2. file[g].type = "client" =>
          /\ reg[g] \in Blocks \ {b} /\ Live(reg[g]) /\ mem[reg[g]].client_fd = g
    BY <2>1 DEF HeldBy
  <2>3. file[g].type = "client" =>
          /\ reg[g] \in Blocks /\ Live(reg[g])' /\ mem'[reg[g]].client_fd = g
          /\ State(reg[g])' = State(reg[g])
    BY <1>1, <2>2
  <2>4. Leaked(g) => Leaked(g)'
    BY <1>1, <2>1 DEF Leaked
  <2>5. ASSUME NEW a \in Blocks, Live(a), mem[a].server_fd = g, State(a) \in 1 .. 3,
               reg[g] = IF State(a) = 1 THEN None ELSE a
        PROVE  /\ Live(a)' /\ mem'[a].server_fd = g /\ State(a)' \in 1 .. 3
               /\ reg[g] = IF State(a)' = 1 THEN None ELSE a
    <3>1. a # b
      BY <2>5
    <3> QED BY <1>1, <2>5, <3>1
  <2>6. file[g].type = "server" =>
          /\ conn'[file[g].of] # "none"
          /\ Leaked(g)' \/ \E a \in Blocks : Live(a)' /\ mem'[a].server_fd = g /\ State(a)' \in 1 .. 3
                                             /\ reg[g] = IF State(a)' = 1 THEN None ELSE a
    BY <2>1, <2>4, <2>5 DEF HeldBy, Tidy, KernelTyped
  <2> QED BY <2>1, <2>3, <2>6 DEF HeldBy
<1>5. ASSUME NEW a \in Blocks \ {b} PROVE Holds(a)' /\ Unheld(a)' /\ Content(a)'
  <2>1. Unheld(a)'
    BY <1>1, StaysAmple DEF Sound, Unheld
  <2>2. CASE ~Live(a)
    BY <1>1, <2>1, <2>2 DEF Holds, Content
  <2>3. CASE Live(a)
    <3>1. /\ mem'[a] = mem[a] /\ State(a)' = State(a) /\ Client(a)' = Client(a)
          /\ State(a) # 1 /\ active # a
      BY <1>1, <1>2, <1>3, <2>3
    <3>2. Holds(a)'
      BY <1>2, <2>3, <3>1 DEF Sound, Holds
    <3>3. recvd'[Client(a)] = recvd[Client(a)]
      <4>1. Client(a) \in Clients
        BY <1>2, <2>3 DEF Client, Tidy, KernelTyped
      <4>2. Live(b) => Client(a) # Client(b)
        BY <2>3, OtherClient
      <4> QED BY <4>1, <4>2
    <3>4. State(a) \in 1 .. 3 => file'[mem[a].server_fd] = file[mem[a].server_fd]
      BY <1>2, <2>3
    <3>5. Content(a)'
      BY <2>3, <3>1, <3>3, <3>4 DEF Sound, Content
    <3> QED BY <2>1, <3>2, <3>5
  <2> QED BY <2>2, <2>3
<1>6. EventsSound'
  <2> SUFFICES ASSUME NEW e \in batch'
               PROVE  /\ e.hup => ~Ample'
                      /\ e.ptr # Listener /\ ~Settled(e.ptr)' =>
                           /\ Live(e.ptr)' /\ State(e.ptr)' \in {0, 2, 3} /\ e.ptr # active'
                           /\ State(e.ptr)' = 0 => ~e.hup
                           /\ \A d \in batch' : d.ptr = e.ptr => d = e
    BY DEF EventsSound
  <2>1. e \in batch /\ e.ptr \in Blocks \cup {Listener}
    BY DEF Tidy, ProcessTyped, EventType
  <2>2. e.hup => ~Ample'
    BY <2>1, StaysAmple DEF Sound, EventsSound
  <2>3. ASSUME e.ptr # Listener, ~Settled(e.ptr)'
        PROVE  /\ Live(e.ptr)' /\ State(e.ptr)' \in {0, 2, 3} /\ e.ptr # active'
               /\ State(e.ptr)' = 0 => ~e.hup
               /\ \A d \in batch' : d.ptr = e.ptr => d = e
    <3>1. e.ptr \in Blocks \ {b}
      BY <2>1, <2>3
    <3>2. e.ptr # None
      BY <3>1, EpollAssumption
    <3> QED BY <1>1, <2>1, <2>3, <3>1, <3>2 DEF Sound, EventsSound
  <2> QED BY <2>2, <2>3
<1> QED BY <1>4, <1>5, <1>6

-----------------------------------------------------------------------------
(* What clients and servers do leaves the requests alone.                   *)
LEMMA PeersSound ==
    ASSUME Tidy, Sound, Calmer,
           \A f \in Fds : /\ file'[f].type = file[f].type /\ file'[f].of = file[f].of
                          /\ file'[f].got = file[f].got
                          /\ file[f].st = "reset" => file'[f].st = "reset"
                          /\ file'[f].st = "reset" =>
                               file[f].type = "server" /\ kind[file[f].of] = "serverresets",
           \A c \in Clients : conn'[c] \in {"none", "pending"} => conn[c] \in {"none", "pending"},
           UNCHANGED <<recvd, reg, wreg, process>>
    PROVE  Sound'
<1> USE DEF Calmer, given, process
<1>1. \A b \in Blocks : (Live(b)' <=> Live(b)) /\ State(b)' = State(b) /\ (Settled(b)' <=> Settled(b))
  BY DEF Live, State, Settled
<1>2. ASSUME NEW f \in Fds PROVE HeldBy(f)'
  <2>1. HeldBy(f) /\ reg[f] \in Blocks \cup {None}
    BY DEF Sound, Tidy, KernelTyped
  <2>2. Leaked(f) => Leaked(f)'
    BY <1>1 DEF Leaked
  <2>3. file[f].type = "client" => reg[f] \in Blocks /\ Live(reg[f])' /\ mem[reg[f]].client_fd = f
    BY <1>1, <2>1 DEF HeldBy
  <2>4. f \in wreg => file[f].type = "server" \/ (file[f].type = "client" /\ State(reg[f])' = 3)
    BY <1>1, <2>1 DEF HeldBy
  <2>5. file[f].type = "server" =>
          /\ conn'[file[f].of] # "none"
          /\ Leaked(f)' \/ \E b \in Blocks : Live(b)' /\ mem[b].server_fd = f /\ State(b)' \in 1 .. 3
                                             /\ reg[f] = IF State(b)' = 1 THEN None ELSE b
    BY <1>1, <2>1, <2>2 DEF HeldBy, Tidy, KernelTyped
  <2> QED BY <2>1, <2>3, <2>4, <2>5 DEF HeldBy
<1>3. ASSUME NEW b \in Blocks PROVE Holds(b)' /\ Unheld(b)' /\ Content(b)'
  <2>1. Unheld(b)'
    BY <1>1, StaysAmple DEF Sound, Unheld
  <2>2. Live(b) => Client(b)' = Client(b)
    BY DEF Sound, Holds, Client
  <2>3. Holds(b)'
    BY <1>1, <2>2 DEF Sound, Holds
  <2>4. Live(b) /\ State(b) \in 1 .. 3 => mem[b].server_fd \in Fds
    BY DEF Sound, Holds
  <2>5. Live(b) /\ State(b) \in 1 .. 3 => file'[mem[b].server_fd].got = file[mem[b].server_fd].got
    BY <2>4
  <2>6. Content(b)'
    BY <1>1, <2>2, <2>5 DEF Sound, Content
  <2> QED BY <2>1, <2>3, <2>6
<1>4. EventsSound'
  <2>1. \A e \in batch : e.ptr \in Blocks \cup {Listener}
    BY DEF Tidy, ProcessTyped, EventType
  <2> QED BY <1>1, <2>1, StaysAmple DEF Sound, EventsSound
<1>5. Unread' /\ InStep'
  <2>1. Unread'
    BY DEF Sound, Unread
  <2>2. InStep'
    BY <1>1 DEF Sound, InStep, StateOf
  <2> QED BY <2>1, <2>2
<1> QED BY <1>2, <1>3, <1>4, <1>5 DEF Sound

(* What has been sent to the clients stays so.                              *)
LEMMA RepliedStays ==
    ASSUME Replied, UNCHANGED <<given, reply>>,
           \A c \in Clients : conn[c] = "closed" => conn'[c] = "closed"
    PROVE  Replied'
BY DEF Replied, given

LEMMA ConnectKept == ASSUME Tidy, Kept, Calm, Alive, NEW c \in Clients, ClientConnect(c) PROVE Kept'
<1> USE DEF ClientConnect, process
<1>1. conn \in [Clients -> {"none", "pending", "open", "closed"}]
  BY DEF Tidy, PeersTyped
<1>2. Calmer
  BY <1>1 DEF Calmer
<1>3. \A f \in Fds : file[f].st = "reset" => file[f].type = "server" /\ kind[file[f].of] = "serverresets"
  BY DEF Kept, Sound, HeldBy
<1>4. Sound'
  <2>1. \A d \in Clients : conn'[d] \in {"none", "pending"} => conn[d] \in {"none", "pending"}
    BY <1>1
  <2> QED BY <1>2, <1>3, <2>1, PeersSound DEF Kept, given
<1>5. Replied'
  BY <1>1, RepliedStays DEF Kept
<1>6. Causes'
  BY <1>2, StaysAmple DEF Kept, Causes, Alive
<1> QED BY <1>4, <1>5, <1>6 DEF Kept

LEMMA SendKept == ASSUME Tidy, Kept, Calm, Alive, NEW c \in Clients, ClientSend(c) PROVE Kept'
<1> USE DEF ClientSend, process
<1>2. Calmer
  BY DEF Calmer
<1>3. \A f \in Fds : file[f].st = "reset" => file[f].type = "server" /\ kind[file[f].of] = "serverresets"
  BY DEF Kept, Sound, HeldBy
<1>4. Sound'
  BY <1>2, <1>3, PeersSound DEF Kept, given
<1>5. Replied'
  BY RepliedStays DEF Kept
<1>6. Causes'
  BY <1>2, StaysAmple DEF Kept, Causes, Alive
<1> QED BY <1>4, <1>5, <1>6 DEF Kept

LEMMA LeaveKept == ASSUME Tidy, Kept, Calm, Alive, NEW c \in Clients, ClientLeave(c) PROVE Kept'
<1> USE DEF ClientLeave, process
<1>2. Calmer
  BY DEF Calmer
<1>3. \A f \in Fds : file[f].st = "reset" => file[f].type = "server" /\ kind[file[f].of] = "serverresets"
  BY DEF Kept, Sound, HeldBy
<1>4. Sound'
  BY <1>2, <1>3, PeersSound DEF Kept, given
<1>5. Replied'
  BY RepliedStays DEF Kept
<1>6. Causes'
  BY <1>2, StaysAmple DEF Kept, Causes, Alive
<1> QED BY <1>4, <1>5, <1>6 DEF Kept

LEMMA ServerKept == ASSUME Tidy, Kept, Calm, Alive, NEW f \in Fds, ServerStep(f) PROVE Kept'
<1> USE DEF ServerStep, peers, process
<1>1. PICK s \in {"answered", "closed", "reset"} :
        /\ file' = [file EXCEPT ![f].st = s] /\ file[f].type = "server" /\ file[f].st # "reset"
        /\ s = "reset" => kind[file[f].of] = "serverresets"
  OBVIOUS
<1>2. /\ \A g \in Fds \ {f} : file'[g] = file[g]
      /\ file'[f].type = file[f].type /\ file'[f].of = file[f].of
      /\ file'[f].got = file[f].got /\ file'[f].st = s
  <2>1. file \in [Fds -> FileType] /\ file[f] \in FileType
    BY DEF Tidy, KernelTyped
  <2>2. file'[f] = [file[f] EXCEPT !.st = s] /\ \A g \in Fds \ {f} : file'[g] = file[g]
    BY <1>1, <2>1
  <2> QED BY <2>1, <2>2 DEF FileType
<1>3. \A g \in Fds : file[g].st = "reset" => file[g].type = "server" /\ kind[file[g].of] = "serverresets"
  BY DEF Kept, Sound, HeldBy
<1>4. Calmer
  BY DEF Calmer
<1>5. Sound'
  <2>1. \A g \in Fds : /\ file'[g].type = file[g].type /\ file'[g].of = file[g].of
                       /\ file'[g].got = file[g].got
                       /\ file[g].st = "reset" => file'[g].st = "reset"
                       /\ file'[g].st = "reset" =>
                            file[g].type = "server" /\ kind[file[g].of] = "serverresets"
    BY <1>1, <1>2, <1>3
  <2> QED BY <1>4, <2>1, PeersSound DEF Kept
<1>6. Replied'
  BY RepliedStays DEF Kept
<1>7. Causes'
  BY <1>4, StaysAmple DEF Kept, Causes, Alive
<1> QED BY <1>5, <1>6, <1>7 DEF Kept

-----------------------------------------------------------------------------
(* What a step that changes no connection and no block leaves as it is.     *)
LEMMA IdleSound ==
    ASSUME Tidy, Sound, UNCHANGED <<peers, file, reg, wreg, mem, heap>>
    PROVE  /\ \A f \in Fds : HeldBy(f)'
           /\ \A b \in Blocks : Unheld(b)' /\ Content(b)'
           /\ \A b \in Blocks : (Live(b)' <=> Live(b)) /\ State(b)' = State(b)
                                /\ (Settled(b)' <=> Settled(b))
           /\ Unread' /\ (Ample' <=> Ample)
<1> USE DEF peers, given
<1>1. \A b \in Blocks : (Live(b)' <=> Live(b)) /\ State(b)' = State(b) /\ (Settled(b)' <=> Settled(b))
  BY DEF Live, State, Settled
<1>2. Ample' <=> Ample
  BY DEF Ample, NoneGaveUp
<1>3. \A f \in Fds : HeldBy(f)'
  BY <1>1 DEF Sound, HeldBy, Leaked, Live, State
<1>4. \A b \in Blocks : Unheld(b)' /\ Content(b)'
  BY <1>1, <1>2 DEF Sound, Unheld, Content, Client
<1>5. Unread'
  BY DEF Sound, Unread
<1> QED BY <1>1, <1>2, <1>3, <1>4, <1>5

(* A request that is not being handled has something that waits for an event. *)
LEMMA Waits ==
    ASSUME Sound, NEW b \in Blocks, Live(b), b # active
    PROVE  /\ State(b) \in {0, 2, 3, Wild} /\ (State(b) = 3 => kind[Client(b)] = "big")
           /\ mem[b].client_fd \in Fds /\ file[mem[b].client_fd].type = "client"
           /\ reg[mem[b].client_fd] = b
BY DEF Sound, Holds

(* What recv finds on a client's connection.                                *)
LEMMA ClientInput ==
    ASSUME Tidy, NEW f \in Fds, file[f].type = "client", NEW c, c = file[f].of
    PROVE  /\ c \in Clients /\ sent[c] \in 0 .. 2 /\ recvd[c] \in 0 .. sent[c]
           /\ (Input(f).eof <=> c \in eof) /\ (Input(f).error <=> c \in rst)
           /\ Input(f).cells \in Seq(Cells) /\ Len(Input(f).cells) = sent[c] - recvd[c]
           /\ Input(f).cells = <<>> <=> recvd[c] = sent[c]
           /\ \A i \in 1 .. sent[c] - recvd[c] :
                Input(f).cells[i] = <<c, IF recvd[c] + i = 1 THEN "head" ELSE "end">>
<1> DEFINE in == Input(f)
<1>1. /\ c \in Clients /\ in.eof = (c \in eof) /\ in.error = (c \in rst)
      /\ in.cells \in Seq(Cells) /\ Len(in.cells) = sent[c] - recvd[c]
      /\ \A i \in 1 .. sent[c] - recvd[c] :
           in.cells[i] = <<c, IF recvd[c] + i = 1 THEN "head" ELSE "end">>
  BY FromClient
<1> HIDE DEF in
<1>2. (in.eof <=> c \in eof) /\ (in.error <=> c \in rst)
  BY <1>1, Zenon
<1>3. sent[c] \in 0 .. 2 /\ recvd[c] \in 0 .. sent[c]
  BY <1>1, TidyTyped, CountsTyped
<1>4. in.cells = <<>> <=> recvd[c] = sent[c]
  BY <1>1, <1>3, EmptySeq
<1> QED BY <1>1, <1>2, <1>3, <1>4 DEF in

(* epoll_wait: there is one event for each request that has something to do. *)
LEMMA EventOf ==
    ASSUME Tidy, Sound, Calm, pc = "event", NEW e \in Events
    PROVE  /\ e.hup => ~Ample
           /\ e.ptr # Listener /\ ~Settled(e.ptr) =>
                /\ Live(e.ptr) /\ State(e.ptr) \in {0, 2, 3} /\ e.ptr # None
                /\ State(e.ptr) = 0 => ~e.hup
                /\ e.fd = IF State(e.ptr) = 0 THEN mem[e.ptr].client_fd ELSE mem[e.ptr].server_fd
                /\ e.hup = Input(e.fd).error
<1>1. CASE e = [ptr |-> Listener, fd |-> None, hup |-> FALSE]
  BY <1>1
<1>2. CASE \E f \in ready : Readable(f) /\ e = [ptr |-> reg[f], fd |-> f, hup |-> Input(f).error]
  <2>1. PICK f \in ready : Readable(f) /\ e = [ptr |-> reg[f], fd |-> f, hup |-> Input(f).error]
    BY <1>2
  <2>2. e.ptr = reg[f] /\ e.fd = f /\ e.hup = Input(f).error
    BY <2>1, Zenon
  <2>3. f \in Fds /\ reg[f] \in Blocks /\ reg[f] # None /\ HeldBy(f)
    BY EpollAssumption DEF Tidy, KernelTyped, Sound
  <2>4. active = None
    BY DEF Sound, InStep
  <2>5. file[f].type \in {"client", "server"}
    BY <2>3, TidyTyped, FileTyped DEF HeldBy
  <2>6. CASE file[f].type = "client"
    <3>1. Live(reg[f]) /\ mem[reg[f]].client_fd = f
      BY <2>3, <2>6 DEF HeldBy
    <3>3. ~Input(f).error
      BY <2>3, <2>6, ClientInput, NoReset
    <3>4. State(reg[f]) \in {0, Wild}
      <4> SUFFICES ASSUME State(reg[f]) \in {2, 3} PROVE FALSE
        BY <2>3, <2>4, <3>1, Waits
      <4> DEFINE c == Client(reg[f])
      <4>1. c = file[f].of /\ c \in Clients /\ recvd[c] = 2
        BY <2>3, <2>6, <3>1 DEF Client, Sound, Content, Tidy, KernelTyped
      <4>2. sent[c] = 2 /\ c \notin eof
        <5>1. sent[c] \in 0 .. 2 /\ recvd[c] <= sent[c] /\ (c \in eof => sent[c] <= 1)
          BY <4>1 DEF Tidy, PeersTyped, OneConnection
        <5> QED BY <4>1, <5>1
      <4> HIDE DEF c
      <4>3. Input(f).cells = <<>> /\ ~Input(f).eof
        BY <2>3, <2>6, <4>1, <4>2, ClientInput
      <4> QED BY <2>1, <3>3, <4>3 DEF Readable
    <3> QED BY <2>2, <2>3, <3>1, <3>3, <3>4 DEF Settled
  <2>7. CASE file[f].type = "server"
    <3>1. Input(f).error => ~Ample
      BY <2>3, <2>7, FromServer, NoServerReset
    <3>2. ASSUME ~Settled(reg[f])
          PROVE  Live(reg[f]) /\ mem[reg[f]].server_fd = f /\ State(reg[f]) \in {2, 3}
      <4>1. ~Leaked(f)
        BY <3>2 DEF Settled, Leaked
      <4>2. PICK b \in Blocks : Live(b) /\ mem[b].server_fd = f /\ State(b) \in 1 .. 3
                                /\ reg[f] = IF State(b) = 1 THEN None ELSE b
        BY <2>3, <2>7, <4>1 DEF HeldBy
      <4> QED BY <2>3, <4>2
    <3> QED BY <2>2, <2>3, <3>1, <3>2
  <2> QED BY <2>5, <2>6, <2>7
<1> QED BY <1>1, <1>2 DEF Events

LEMMA WaitKept == ASSUME Tidy, Kept, Calm, Wait PROVE Kept'
<1> USE DEF Wait
<1>0. Sound /\ pc' = "event" /\ active = None
  BY DEF Kept, Alive, Sound, InStep
<1>1. /\ \A f \in Fds : HeldBy(f)'
      /\ \A b \in Blocks : Unheld(b)' /\ Content(b)'
      /\ \A b \in Blocks : (Live(b)' <=> Live(b)) /\ State(b)' = State(b)
                           /\ (Settled(b)' <=> Settled(b))
      /\ Unread' /\ (Ample' <=> Ample)
  BY <1>0, IdleSound
<1>2. \A b \in Blocks : Holds(b)'
  BY <1>0, <1>1 DEF Sound, Holds, Client, peers, given
<1>3. EventsSound'
  <2> SUFFICES ASSUME NEW e \in Events
               PROVE  /\ e.hup => ~Ample
                      /\ e.ptr # Listener /\ ~Settled(e.ptr) =>
                           /\ Live(e.ptr) /\ State(e.ptr) \in {0, 2, 3} /\ e.ptr # active
                           /\ State(e.ptr) = 0 => ~e.hup
                           /\ \A d \in Events : d.ptr = e.ptr => d = e
    <3>1. \A e \in Events : e.ptr \in Blocks \cup {Listener}
      BY EventsTyped DEF EventType
    <3> QED BY <1>1, <3>1 DEF EventsSound
  <2>1. ASSUME e.ptr # Listener, ~Settled(e.ptr), NEW d \in Events, d.ptr = e.ptr PROVE d = e
    <3>1. e \in EventType /\ d \in EventType
      BY EventsTyped
    <3>2. d.fd = e.fd
      BY <1>0, <2>1, EventOf
    <3>3. d.hup = Input(d.fd).error /\ e.hup = Input(e.fd).error
      BY <1>0, <2>1, EventOf
    <3> QED BY <2>1, <3>1, <3>2, <3>3 DEF EventType
  <2> QED BY <1>0, <2>1, EventOf
<1>4. InStep'
  BY <1>0 DEF InStep, StateOf
<1>5. Replied'
  BY RepliedStays DEF Kept, peers
<1>6. Causes'
  BY <1>0 DEF Causes
<1> QED BY <1>1, <1>2, <1>3, <1>4, <1>5, <1>6 DEF Kept, Sound

(* A step that changes neither connections nor blocks: the request that was *)
(* handled may wait for an event, the one that is handled from now on has   *)
(* no event that is still to be looked at.                                  *)
LEMMA IdleKept ==
    ASSUME Tidy, Kept, Alive, UNCHANGED <<peers, file, reg, wreg, mem, heap>>,
           batch' \subseteq batch, active' \in Blocks \cup {None}, InStep',
           pc' \notin {"crashed", "exited", "hung"},
           \A b \in Blocks : Live(b) /\ b = active /\ b # active' =>
             State(b) # 1 /\ (State(b) = 3 => kind[Client(b)] = "big"),
           \A b \in Blocks : Live(b) /\ b = active' =>
             /\ State(b) = 1 => pc' = "send_request"
             /\ State(b) = 3 => pc' = "send_response",
           \A e \in batch' : e.ptr # Listener /\ ~Settled(e.ptr) => e.ptr # active'
    PROVE  Kept'
<1>0. Sound
  BY DEF Kept
<1>1. /\ \A f \in Fds : HeldBy(f)'
      /\ \A b \in Blocks : Unheld(b)' /\ Content(b)'
      /\ \A b \in Blocks : (Live(b)' <=> Live(b)) /\ State(b)' = State(b)
                           /\ (Settled(b)' <=> Settled(b))
      /\ Unread' /\ (Ample' <=> Ample)
  BY <1>0, IdleSound
<1>2. ASSUME NEW b \in Blocks PROVE Holds(b)'
  <2> SUFFICES ASSUME Live(b) PROVE Holds(b)'
    BY <1>1 DEF Holds
  <2>1. Client(b)' = Client(b)
    BY DEF Client
  <2>2. State(b) = 1 => active' = b /\ pc' = "send_request"
    BY <1>0 DEF Sound, Holds
  <2>3. State(b) = 3 => kind[Client(b)] = "big" \/ (active' = b /\ pc' = "send_response")
    BY <1>0 DEF Sound, Holds
  <2>4. kind' = kind
    BY DEF peers, given
  <2> QED BY <1>0, <1>1, <2>1, <2>2, <2>3, <2>4 DEF Sound, Holds
<1>3. EventsSound'
  <2>1. \A e \in batch : e.ptr \in Blocks \cup {Listener}
    BY DEF Tidy, ProcessTyped, EventType
  <2> QED BY <1>0, <1>1, <2>1 DEF Sound, EventsSound
<1>5. Replied'
  BY RepliedStays DEF Kept, peers
<1>6. Causes'
  BY DEF Causes
<1> QED BY <1>1, <1>2, <1>3, <1>5, <1>6 DEF Kept, Sound

(* Nothing changes but the flag, or the process stops.                      *)
LEMMA StopKept ==
    ASSUME Tidy, Kept, UNCHANGED <<peers, kernel, mem, heap, active, batch>>,
           pc' = pc \/ pc' = "stopped"
    PROVE  Kept'
<1>1. Replied'
  BY RepliedStays DEF Kept, peers
<1>2. Causes'
  <2>1. Ample' <=> Ample
    BY DEF Ample, NoneGaveUp, peers, given
  <2>2. UNCHANGED <<recvd, sent, eof>>
    BY DEF peers
  <2> QED BY <2>1, <2>2 DEF Kept, Causes
<1>3. CASE pc' = "stopped" \/ ~Alive
  BY <1>1, <1>2, <1>3 DEF Kept, Alive
<1>4. CASE pc' = pc /\ Alive
  <2>1. Sound
    BY <1>4 DEF Kept
  <2>2. InStep'
    BY <1>4, <2>1 DEF Sound, InStep, Live, State
  <2>3. active' \in Blocks \cup {None}
    BY DEF Tidy, ProcessTyped
  <2>4. pc' \notin {"crashed", "exited", "hung"}
    BY <1>4 DEF Alive
  <2>5. \A b \in Blocks : Live(b) /\ b = active' =>
          /\ State(b) = 1 => pc' = "send_request"
          /\ State(b) = 3 => pc' = "send_response"
    <3> SUFFICES ASSUME NEW b \in Blocks, Live(b), b = active
                 PROVE  /\ State(b) = 1 => pc = "send_request"
                        /\ State(b) = 3 => pc = "send_response"
      BY <1>4
    <3>1. pc \notin {"event", "accept"}
      BY <2>1, EpollAssumption DEF Sound, InStep
    <3>2. pc \in DOMAIN StateOf
      BY <1>4, <3>1 DEF Alive, Tidy, ProcessTyped, PcType, StateOf
    <3> QED BY <2>1, <3>2 DEF Sound, InStep, StateOf
  <2>6. \A e \in batch' : e.ptr # Listener /\ ~Settled(e.ptr) => e.ptr # active'
    BY <2>1 DEF Sound, EventsSound
  <2> QED BY <1>4, <2>2, <2>3, <2>4, <2>5, <2>6, IdleKept DEF kernel
<1> QED BY <1>3, <1>4

(* The next event is looked at.                                             *)
LEMMA DispatchKept == ASSUME Tidy, Kept, Dispatch PROVE Kept'
<1>1. PICK e \in batch :
        /\ pc = "event" /\ batch' = batch \ {e}
        /\ UNCHANGED <<peers, kernel, mem, heap, sig_flag>>
        /\ IF e.ptr = Listener THEN pc' = "accept" /\ UNCHANGED active ELSE Continue(0, e.ptr)
  BY DEF Dispatch
<1>2. Alive /\ Sound /\ active = None
  BY <1>1 DEF Kept, Alive, Sound, InStep
<1>3. None \notin Blocks
  BY EpollAssumption
<1>4. CASE pc' \in {"event", "accept"} /\ active' = None
  <2>1. InStep'
    BY <1>4 DEF InStep, StateOf
  <2>2. \A d \in batch' : d.ptr # Listener /\ ~Settled(d.ptr) => d.ptr # active'
    BY <1>1, <1>2, <1>4 DEF Sound, EventsSound
  <2> QED BY <1>1, <1>2, <1>3, <1>4, <2>1, <2>2, IdleKept DEF kernel
<1>5. CASE e.ptr # Listener
  <2> DEFINE b == e.ptr
  <2>1. b \in Blocks /\ State(b) \in 0 .. Wild /\ mem'[b] = mem[b] /\ heap'[b] = heap[b]
    BY <1>1, <1>5, TidyTyped, RequestTyped DEF Tidy, ProcessTyped, EventType
  <2>2. CASE heap[b] = "unmapped"
    <3>1. pc' = "crashed"
      BY <1>1, <1>5, <2>1, <2>2 DEF Continue
    <3>2. ~Ample'
      BY <1>1, <1>2, <2>1, <2>2 DEF Sound, Unheld, Ample, NoneGaveUp, peers, given
    <3>3. Replied'
      BY <1>1, RepliedStays DEF Kept, peers
    <3> QED BY <3>1, <3>2, <3>3 DEF Kept, Causes, Alive
  <2>3. CASE heap[b] # "unmapped" /\ State(b) \notin 0 .. 3
    <3>1. pc' = "event" /\ active' = None
      BY <1>1, <1>5, <2>1, <2>3 DEF Continue, State
    <3> QED BY <1>4, <3>1
  <2>4. CASE heap[b] # "unmapped" /\ State(b) \in 0 .. 3
    <3>1. pc' = Steps[State(b) + 1] /\ active' = b
      BY <1>1, <1>5, <2>1, <2>4 DEF Continue, State
    <3>2. ~Settled(b)
      BY <2>4 DEF Settled, Wild
    <3>3. Live(b) /\ State(b) \in {0, 2, 3} /\ \A d \in batch : d.ptr = b => d = e
      BY <1>2, <1>5, <3>2 DEF Sound, EventsSound
    <3> HIDE DEF b
    <3>4. /\ pc' \in DOMAIN StateOf /\ StateOf[pc'] = State(b) /\ pc' # "open"
          /\ State(b) = 3 => pc' = "send_response"
      <4>1. CASE State(b) = 0
        BY <3>1, <4>1, StepNames DEF StateOf
      <4>2. CASE State(b) = 2
        BY <3>1, <4>2, StepNames DEF StateOf
      <4>3. CASE State(b) = 3
        BY <3>1, <4>3, StepNames DEF StateOf
      <4> QED BY <3>3, <4>1, <4>2, <4>3
    <3>5. InStep'
      BY <2>1, <3>1, <3>3, <3>4 DEF InStep, StateOf, Live, State
    <3>6. \A d \in batch' : d.ptr # active'
      BY <1>1, <3>1, <3>3
    <3>7. pc' \notin {"crashed", "exited", "hung"}
      BY <3>4 DEF StateOf
    <3> QED BY <1>1, <1>2, <1>3, <2>1, <3>1, <3>3, <3>4, <3>5, <3>6, <3>7, IdleKept DEF kernel
  <2> QED BY <2>2, <2>3, <2>4
<1> QED BY <1>1, <1>2, <1>4, <1>5

-----------------------------------------------------------------------------
(* Connections of a request are closed, and it is not under way any more.   *)
(* That of its server may be left to it, if the server has reset it.        *)
LEMMA ClosedSound ==
    ASSUME Tidy, Sound, NEW b \in Blocks, Live(b), NEW F, CloseFds(F),
           UNCHANGED <<given, recvd>>, UNCHANGED lready,
           mem[b].client_fd \in F,
           \A f \in Fds \cap F : f = mem[b].client_fd \/ (State(b) \in 1 .. 3 /\ f = mem[b].server_fd),
           State(b) \in 1 .. 3 /\ mem[b].server_fd \notin F =>
             State(b) # 1 /\ file[mem[b].server_fd].st = "reset" /\ State(b)' = Wild,
           active \in {b, None}, active' = None,
           \A a \in Blocks \ {b} : mem'[a] = mem[a] /\ heap'[a] = heap[a],
           ~Live(b)', Unheld(b)', State(b) = Wild => State(b)' = Wild,
           batch' \subseteq batch, \A d \in batch' : d.ptr = b => Settled(b)'
    PROVE  /\ \A f \in Fds : HeldBy(f)'
           /\ \A a \in Blocks : Holds(a)' /\ Unheld(a)' /\ Content(a)'
           /\ EventsSound' /\ Unread'
<1> DEFINE G == {mem[b].client_fd} \cup (IF State(b) \in 1 .. 3 THEN {mem[b].server_fd} ELSE {})
<1>1. /\ \A f \in Fds \ F : file'[f] = file[f] /\ reg'[f] = reg[f]
      /\ \A f \in Fds \cap F : file'[f] = Closed /\ reg'[f] = None
      /\ \A c \in Clients : conn'[c] = conn[c] \/ conn'[c] = "closed"
      /\ Closed.type = "free" /\ Closed.st = "none" /\ wreg' = wreg \ F
  BY CloseTyped DEF CloseFds
<1>2. Calmer
  BY <1>1 DEF Calmer
<1>3. \A a \in Blocks \ {b} : Live(a) =>
        mem[a].client_fd \notin G /\ (State(a) \in 1 .. 3 => mem[a].server_fd \notin G)
  BY Apart
<1>4. \A g \in Fds \ G : file'[g] = file[g] /\ reg'[g] = reg[g] /\ (g \in wreg' => g \in wreg)
  BY <1>1
<1>5. /\ \A g \in Fds \ G : HeldBy(g)'
      /\ \A a \in Blocks \ {b} : Holds(a)' /\ Unheld(a)' /\ Content(a)'
      /\ EventsSound'
  <2>1. Live(b) => mem[b].client_fd \in G /\ (State(b) \in 1 .. 3 => mem[b].server_fd \in G)
    OBVIOUS
  <2>2. active' \in {b, None} /\ \A c \in Clients : recvd'[c] = recvd[c]
    OBVIOUS
  <2> HIDE DEF G
  <2> QED BY <1>2, <1>3, <1>4, <2>1, <2>2, OthersKept
<1>6. ASSUME NEW f \in Fds \cap G PROVE HeldBy(f)'
  <2>1. CASE f \in F
    <3>1. file'[f].type = "free" /\ file'[f].st = "none" /\ reg'[f] = None /\ f \notin wreg'
      BY <1>1, <2>1
    <3> QED BY <3>1 DEF HeldBy
  <2>2. CASE f \notin F
    <3>1. f = mem[b].server_fd /\ State(b) \in 2 .. 3 /\ file[f].st = "reset" /\ State(b)' = Wild
      BY <2>2
    <3>2. file[f].type = "server" /\ reg[f] = b
      BY <3>1 DEF Sound, Holds
    <3>3. file'[f] = file[f] /\ reg'[f] = reg[f] /\ HeldBy(f)
      BY <1>1, <2>2 DEF Sound
    <3>4. Leaked(f)'
      BY <3>1, <3>2, <3>3 DEF Leaked
    <3>5. file[f].of \in Clients /\ conn'[file[f].of] # "none"
      BY <1>2, <3>2, <3>3 DEF HeldBy, Calmer, Tidy, KernelTyped
    <3>6. kind' = kind
      BY DEF given
    <3> QED BY <3>2, <3>3, <3>4, <3>5, <3>6 DEF HeldBy
  <2> QED BY <2>1, <2>2
<1>7. Holds(b)' /\ Content(b)'
  BY DEF Holds, Content
<1>8. Unread'
  BY <1>1 DEF Sound, Unread
<1> QED BY <1>5, <1>6, <1>7, <1>8

(* The request is freed: nothing will be done for it any more.              *)
LEMMA Forgetting ==
    ASSUME Tidy, Calm, ~Ample, NEW b \in Blocks, Release(b), ~Ample'
    PROVE  /\ \A a \in Blocks \ {b} : mem'[a] = mem[a] /\ heap'[a] = heap[a]
           /\ heap'[b] = "unmapped" \/ (heap'[b] = "linked" /\ State(b)' = Wild)
           /\ ~Live(b)' /\ Unheld(b)' /\ Settled(b)'
           /\ State(b) = Wild => State(b)' = Wild
<1>1. PICK how \in system.frees :
        /\ heap' = [heap EXCEPT ![b] = how]
        /\ mem' = IF how = "linked"
                  THEN [mem EXCEPT ![b].client_fd = BadFd, ![b].server_fd = BadFd,
                                   ![b].current_state = Wild]
                  ELSE mem
  BY DEF Release
<1>2. how \in {"unmapped", "linked"}
  <2>1. system.frees \subseteq {"unmapped", "merged", "linked"}
    BY EpollAssumption DEF Tidy, PeersTyped, SystemType
  <2> QED BY <2>1 DEF Calm
<1>3. heap \in [Blocks -> HeapType] /\ mem \in [Blocks -> RequestType] /\ mem[b] \in RequestType
  BY DEF Tidy, ProcessTyped
<1>4. heap'[b] = how /\ \A a \in Blocks \ {b} : heap'[a] = heap[a]
  BY <1>1, <1>3
<1>5. CASE how = "unmapped"
  BY <1>1, <1>4, <1>5 DEF Live, Unheld, Settled, State
<1>6. CASE how = "linked"
  <2> DEFINE r == [mem[b] EXCEPT !.client_fd = BadFd, !.server_fd = BadFd, !.current_state = Wild]
  <2>1. mem' = [mem EXCEPT ![b] = r]
    BY <1>1, <1>3, <1>6 DEF RequestType
  <2>2. r.server_fd = BadFd /\ r.current_state = Wild
    BY <1>3 DEF RequestType
  <2> HIDE DEF r
  <2>3. mem'[b] = r /\ \A a \in Blocks \ {b} : mem'[a] = mem[a]
    BY <1>3, <2>1
  <2> QED BY <1>4, <1>6, <2>2, <2>3 DEF Live, Unheld, Settled, State
<1> QED BY <1>2, <1>4, <1>5, <1>6

(* A request is given up.                                                   *)
LEMMA GivenUpKept ==
    ASSUME Tidy, Kept, Calm, ~Ample, Alive, NEW b \in Blocks, Live(b), active \in {b, None},
           NEW F, CloseFds(F), Release(b),
           UNCHANGED <<given, sent, recvd, eof, rst, reply, lready>>,
           mem[b].client_fd \in F,
           \A f \in Fds \cap F : f = mem[b].client_fd \/ (State(b) \in 1 .. 3 /\ f = mem[b].server_fd),
           State(b) \in 1 .. 3 /\ mem[b].server_fd \notin F =>
             /\ State(b) # 1 /\ file[mem[b].server_fd].st = "reset"
             /\ heap'[b] = "unmapped" => pc' = "crashed",
           pc' \in {"event", "crashed"}, active' = None, batch' \subseteq batch
    PROVE  Kept'
<1>0. Sound
  BY DEF Kept
<1>1. \A c \in Clients : conn'[c] = conn[c] \/ conn'[c] = "closed"
  BY CloseTyped
<1>2. ~Ample' /\ Causes'
  <2>1. Calmer
    BY <1>1 DEF Calmer
  <2> QED BY <2>1, StaysAmple DEF Causes
<1>3. Replied'
  BY <1>1, RepliedStays DEF Kept
<1>4. CASE pc' = "crashed"
  BY <1>2, <1>3, <1>4 DEF Kept, Alive
<1>5. CASE pc' = "event"
  <2>1. /\ \A a \in Blocks \ {b} : mem'[a] = mem[a] /\ heap'[a] = heap[a]
        /\ heap'[b] = "unmapped" \/ (heap'[b] = "linked" /\ State(b)' = Wild)
        /\ ~Live(b)' /\ Unheld(b)' /\ Settled(b)'
        /\ State(b) = Wild => State(b)' = Wild
    BY <1>2, Forgetting
  <2>2. State(b) \in 1 .. 3 /\ mem[b].server_fd \notin F =>
          State(b) # 1 /\ file[mem[b].server_fd].st = "reset" /\ State(b)' = Wild
    BY <1>5, <2>1
  <2>3. /\ \A f \in Fds : HeldBy(f)'
        /\ \A a \in Blocks : Holds(a)' /\ Unheld(a)' /\ Content(a)'
        /\ EventsSound' /\ Unread'
    BY <1>0, <2>1, <2>2, ClosedSound
  <2>4. InStep'
    BY <1>5 DEF InStep, StateOf
  <2> QED BY <1>2, <1>3, <2>3, <2>4 DEF Kept, Sound
<1> QED BY <1>4, <1>5

(* EPOLLERR or EPOLLHUP of a request under way, or of a block it was.       *)
LEMMA HangUpKept == ASSUME Tidy, Kept, Calm, HangUp PROVE Kept'
<1>1. PICK e \in batch :
        /\ pc = "event" /\ e.hup
        /\ batch' = batch \ {e}
        /\ IF Freed(e.ptr)
           THEN pc' = "crashed" /\ UNCHANGED <<peers, kernel, mem, heap>>
           ELSE /\ CloseFds({mem[e.ptr].client_fd, mem[e.ptr].server_fd})
                /\ Release(e.ptr)
                /\ UNCHANGED <<given, sent, recvd, eof, rst, backlog, reply, lready, pc>>
        /\ UNCHANGED <<active, sig_flag>>
  BY DEF HangUp
<1> DEFINE b == e.ptr
<1>2. Alive /\ Sound /\ active = None
  BY <1>1 DEF Kept, Alive, Sound, InStep
<1>3. b \in Blocks /\ b # Listener /\ ~Ample
  BY <1>1, <1>2, EpollAssumption DEF Tidy, ProcessTyped, Sound, EventsSound
<1>4. CASE Freed(b)
  <2>1. ~Ample'
    BY <1>1, <1>3, <1>4 DEF Ample, NoneGaveUp, peers, given
  <2>2. Replied'
    BY <1>1, <1>4, RepliedStays DEF Kept, peers
  <2> QED BY <1>1, <1>4, <2>1, <2>2 DEF Kept, Causes, Alive
<1>5. CASE ~Freed(b)
  <2>1. heap[b] = "live"
    BY <1>5 DEF Freed
  <2>2. Live(b) /\ State(b) \in {2, 3, Wild}
    <3>1. CASE State(b) = Wild
      BY <2>1, <3>1 DEF Live, State, Wild
    <3>2. CASE State(b) # Wild
      <4>1. ~Settled(b)
        BY <2>1, <3>2 DEF Settled
      <4> QED BY <1>1, <1>2, <1>3, <4>1 DEF Sound, EventsSound
    <3> QED BY <3>1, <3>2
  <2>3. State(b) = Wild => mem[b].server_fd = BadFd /\ BadFd \notin Fds
    BY <1>2, <1>3, <2>2 DEF Sound, Holds, Fds, BadFd
  <2> HIDE DEF b
  <2>4. \A f \in Fds \cap {mem[b].client_fd, mem[b].server_fd} :
          f = mem[b].client_fd \/ (State(b) \in 1 .. 3 /\ f = mem[b].server_fd)
    BY <2>2, <2>3
  <2>5. CloseFds({mem[b].client_fd, mem[b].server_fd}) /\ Release(b)
    BY <1>1, <1>5 DEF b
  <2>6. UNCHANGED <<given, sent, recvd, eof, rst, reply, lready>> /\ pc' = "event"
    BY <1>1, <1>5 DEF b
  <2> QED BY <1>1, <1>2, <1>3, <2>2, <2>4, <2>5, <2>6, GivenUpKept
<1> QED BY <1>4, <1>5

-----------------------------------------------------------------------------
(* The request that is being handled.                                       *)
LEMMA Handled ==
    ASSUME Tidy, Kept, pc \in DOMAIN StateOf, NEW b, b = active, NEW c, c = Client(b)
    PROVE  /\ Alive /\ Sound /\ b \in Blocks /\ b # None /\ request = mem[b]
           /\ Live(b) /\ heap[b] = "live" /\ State(b) = StateOf[pc]
           /\ mem[b].client_fd \in Fds /\ file[mem[b].client_fd].type = "client"
           /\ reg[mem[b].client_fd] = b /\ c = file[mem[b].client_fd].of
           /\ c \in Clients /\ conn[c] = "open"
           /\ \A d \in batch : d.ptr # b
<1>1. Alive /\ Sound
  BY DEF Kept, Alive, StateOf
<1>2. b \in Blocks /\ Live(b) /\ State(b) = StateOf[pc] /\ request = mem[b] /\ b # None
  BY <1>1, EpollAssumption DEF Sound, InStep, request
<1>3. mem[b].client_fd \in Fds /\ file[mem[b].client_fd].type = "client" /\ reg[mem[b].client_fd] = b
  BY <1>1, <1>2 DEF Sound, Holds
<1>4. c = file[mem[b].client_fd].of /\ c \in Clients /\ conn[c] = "open"
  BY <1>3 DEF Client, Tidy, KernelTyped, OneConnection
<1>5. \A d \in batch : d.ptr # b
  <2> SUFFICES ASSUME NEW d \in batch, d.ptr = b PROVE FALSE
    OBVIOUS
  <2>1. b # Listener /\ State(b) # Wild
    BY <1>2, EpollAssumption DEF StateOf, Wild
  <2>2. ~Settled(b)
    BY <1>2, <2>1 DEF Settled, Live
  <2> QED BY <1>1, <2>1, <2>2 DEF Sound, EventsSound
<1> QED BY <1>1, <1>2, <1>3, <1>4, <1>5 DEF Live

(* It is given up.                                                          *)
LEMMA GiveUpKept ==
    ASSUME Tidy, Kept, Calm, ~Ample, pc \in DOMAIN StateOf, NEW b, b = active,
           NEW F, GiveUp(F), NEW i \in 0 .. 4, Continue(i, active), batch' = batch,
           mem[b].client_fd \in F,
           \A f \in Fds \cap F : f = mem[b].client_fd \/ (State(b) \in 1 .. 3 /\ f = mem[b].server_fd),
           State(b) \in 1 .. 3 /\ mem[b].server_fd \notin F =>
             State(b) # 1 /\ file[mem[b].server_fd].st = "reset"
    PROVE  Kept'
<1>1. /\ Alive /\ b \in Blocks /\ Live(b)
      /\ CloseFds(F) /\ Release(b)
      /\ UNCHANGED <<given, sent, recvd, eof, rst, backlog, reply, lready>>
  BY Handled DEF GiveUp
<1>2. ~Ample'
  <2>1. \A d \in Clients : conn'[d] = conn[d] \/ conn'[d] = "closed"
    BY <1>1, CloseTyped
  <2> QED BY <1>1, <2>1, StaysAmple DEF Calmer
<1>3. heap'[b] = "unmapped" \/ (heap'[b] = "linked" /\ State(b)' = Wild)
  BY <1>1, <1>2, Forgetting
<1>4. /\ pc' \in {"event", "crashed"} /\ active' = None
      /\ heap'[b] = "unmapped" => pc' = "crashed"
  BY <1>3 DEF Continue, State, Wild
<1> QED BY <1>1, <1>4, GivenUpKept

(* It has to wait for an event.                                             *)
LEMMA PauseKept ==
    ASSUME Tidy, Kept, pc \in DOMAIN StateOf, NEW b, b = active,
           State(b) \in {0, 2} \/ (State(b) = 3 /\ kind[Client(b)] = "big"),
           NEW i \in 1 .. 4, i > State(b), Continue(i, active),
           UNCHANGED <<peers, kernel, mem, heap, batch>>
    PROVE  Kept'
<1>1. Alive /\ Sound /\ b \in Blocks /\ b # None /\ heap[b] = "live"
  BY Handled
<1>2. pc' = "event" /\ active' = None
  BY <1>1 DEF Continue, State
<1>3. InStep'
  BY <1>2 DEF InStep, StateOf
<1>4. \A e \in batch' : e.ptr # Listener /\ ~Settled(e.ptr) => e.ptr # active'
  BY <1>2, EpollAssumption DEF Tidy, ProcessTyped, EventType
<1> QED BY <1>1, <1>2, <1>3, <1>4, EpollAssumption, IdleKept DEF kernel

-----------------------------------------------------------------------------
(* In ample resources a descriptor is free: two for each client are open.   *)
LEMMA OneFdEach ==
    ASSUME NEW S, NEW g \in [S -> Clients], \A x, y \in S : g[x] = g[y] => x = y
    PROVE  IsFiniteSet(S) /\ Cardinality(S) <= Cardinality(Clients)
<1>1. g \in Injection(S, Clients)
  BY DEF Injection, IsInjective
<1> QED BY <1>1, FS_Injection, EpollAssumption

LEMMA SomeFree == ASSUME Tidy, Sound, Ample PROVE FreeFds # {}
<1> SUFFICES ASSUME FreeFds = {} PROVE FALSE
  OBVIOUS
<1> DEFINE L == system.limit
           clients == {f \in 0 .. L : file[f].type = "client"}
           servers == {f \in 0 .. L : file[f].type = "server"}
<1>1. L \in Nat /\ L \in 1 .. MaxFd /\ 0 .. L \subseteq Fds
  BY EpollAssumption DEF Tidy, PeersTyped, SystemType, Fds
<1>2. Cardinality(Clients) \in Nat /\ L > 2 * Cardinality(Clients)
  BY FS_CardinalityType, EpollAssumption DEF Ample
<1>3. IsFiniteSet(clients) /\ Cardinality(clients) <= Cardinality(Clients)
  <2> DEFINE g == [f \in clients |-> file[f].of]
  <2>1. g \in [clients -> Clients]
    BY <1>1 DEF Tidy, KernelTyped
  <2>2. \A x, y \in clients : g[x] = g[y] => x = y
    BY <1>1 DEF Tidy, OneConnection
  <2> HIDE DEF g, clients
  <2> QED BY <2>1, <2>2, OneFdEach
<1>4. IsFiniteSet(servers) /\ Cardinality(servers) <= Cardinality(Clients)
  <2> DEFINE g == [f \in servers |-> file[f].of]
  <2>1. g \in [servers -> Clients]
    BY <1>1 DEF Tidy, KernelTyped
  <2>2. ASSUME NEW f \in servers
        PROVE  \E b \in Blocks : Live(b) /\ mem[b].server_fd = f /\ file[f].of = Client(b)
    <3>1. f \in Fds /\ file[f].type = "server" /\ HeldBy(f)
      BY <1>1 DEF Sound
    <3>2. ~Leaked(f)
      BY <3>1, NoServerReset DEF Leaked
    <3> QED BY <3>1, <3>2 DEF HeldBy, Sound, Holds
  <2>3. ASSUME NEW x \in servers, NEW y \in servers, file[x].of = file[y].of PROVE x = y
    <3>1. PICK a \in Blocks : Live(a) /\ mem[a].server_fd = x /\ file[x].of = Client(a)
      BY <2>2
    <3>2. PICK b \in Blocks : Live(b) /\ mem[b].server_fd = y /\ file[y].of = Client(b)
      BY <2>2
    <3>3. a = b
      BY <2>3, <3>1, <3>2, OtherClient
    <3> QED BY <3>1, <3>2, <3>3
  <2>4. \A x, y \in servers : g[x] = g[y] => x = y
    BY <2>3
  <2> HIDE DEF g, servers
  <2> QED BY <2>1, <2>4, OneFdEach
<1>5. 0 .. L \subseteq {0} \cup (clients \cup servers)
  <2> SUFFICES ASSUME NEW f \in 0 .. L, f # 0 PROVE file[f].type \in {"client", "server"}
    OBVIOUS
  <2>1. f \in Fds /\ file[f].type \in {"free", "stdin", "client", "server"}
    BY <1>1, TidyTyped, FileTyped
  <2>2. file[f].type # "free"
    BY DEF FreeFds
  <2> QED BY <2>1, <2>2 DEF Tidy, OneConnection
<1> HIDE DEF L, clients, servers
<1>6. /\ IsFiniteSet(clients \cup servers)
      /\ Cardinality(clients \cup servers) <= 2 * Cardinality(Clients)
  <2>1. /\ IsFiniteSet(clients \cup servers)
        /\ Cardinality(clients \cup servers) =
             Cardinality(clients) + Cardinality(servers) - Cardinality(clients \cap servers)
    BY <1>3, <1>4, FS_Union
  <2>2. IsFiniteSet(clients \cap servers)
    BY <1>3, FS_Subset
  <2>3. /\ Cardinality(clients) \in Nat /\ Cardinality(servers) \in Nat
        /\ Cardinality(clients \cap servers) \in Nat
    BY <1>3, <1>4, <2>2, FS_CardinalityType
  <2> QED BY <1>2, <1>3, <1>4, <2>1, <2>3
<1>7. /\ IsFiniteSet({0} \cup (clients \cup servers))
      /\ Cardinality({0} \cup (clients \cup servers)) <= 1 + 2 * Cardinality(Clients)
  <2>1. IsFiniteSet({0}) /\ Cardinality({0}) = 1
    BY FS_Singleton
  <2>2. Cardinality({0} \cup (clients \cup servers)) =
          1 + Cardinality(clients \cup servers) - Cardinality({0} \cap (clients \cup servers))
    BY <1>6, <2>1, FS_Union
  <2>3. IsFiniteSet({0} \cap (clients \cup servers))
    BY <2>1, FS_Subset
  <2>4. Cardinality(clients \cup servers) \in Nat
        /\ Cardinality({0} \cap (clients \cup servers)) \in Nat
    BY <1>6, <2>3, FS_CardinalityType
  <2>5. IsFiniteSet({0} \cup (clients \cup servers))
    BY <1>6, <2>1, FS_Union
  <2> QED BY <1>2, <1>6, <2>2, <2>4, <2>5
<1>8. Cardinality(0 .. L) = L + 1 /\ Cardinality(0 .. L) <= Cardinality({0} \cup (clients \cup servers))
  <2>1. L \in Int /\ 0 \in Int /\ ~(0 > L)
    BY <1>1 DEF L
  <2>2. Cardinality(0 .. L) = L - 0 + 1
    BY <2>1, FS_Interval
  <2>3. 0 .. L \in SUBSET ({0} \cup (clients \cup servers))
    BY <1>5
  <2> QED BY <1>7, <2>1, <2>2, <2>3, FS_Subset
<1>9. Cardinality({0} \cup (clients \cup servers)) \in Nat
  BY <1>7, FS_CardinalityType
<1>10. L > 2 * Cardinality(Clients)
  BY <1>2 DEF L
<1> QED BY <1>1, <1>2, <1>7, <1>8, <1>9, <1>10

(* A connection is accepted, into a block that was never used or that is    *)
(* not in use for good.                                                     *)
LEMMA AcceptOneKept ==
    ASSUME Tidy, Kept, NEW b \in Mallocs, NEW f, f = Lowest(FreeFds), NEW c, c = Head(backlog),
           NEW o, o = [Closed EXCEPT !.type = "client", !.of = c],
           pc = "accept", FreeFds # {}, backlog # <<>>,
           conn' = [conn EXCEPT ![c] = "open"],
           file' = [file EXCEPT ![f] = o],
           reg' = [reg EXCEPT ![f] = b],
           mem' = [mem EXCEPT ![b].client_fd = f],
           heap' = [heap EXCEPT ![b] = "live"], pc' = "accept",
           UNCHANGED <<given, sent, recvd, eof, rst, reply, wreg, active, batch>>
    PROVE  Kept'
<1>0. Alive /\ Sound /\ active = None
  BY DEF Kept, Alive, Sound, InStep
<1>1. f \in Fds /\ file[f].type = "free" /\ b \in Blocks /\ b # None /\ b # Listener
  BY LowestTidy, EpollAssumption DEF Mallocs
<1>2. c \in Clients /\ conn[c] = "pending" /\ recvd[c] = 0
  <2>1. c \in Clients /\ c = backlog[1] /\ 1 \in 1 .. Len(backlog)
    BY HeadTailProperties DEF Tidy, PeersTyped
  <2> QED BY <1>0, <2>1 DEF Tidy, OneConnection, Sound, Unread
<1>3. o.type = "client" /\ o.of = c /\ o.st # "reset" /\ o \in FileType
  BY <1>2, ClientFile
<1>4. /\ file'[f] = o /\ \A g \in Fds \ {f} : file'[g] = file[g]
      /\ reg'[f] = b /\ \A g \in Fds \ {f} : reg'[g] = reg[g]
      /\ conn'[c] = "open" /\ \A d \in Clients \ {c} : conn'[d] = conn[d]
  BY <1>1, <1>2 DEF Tidy, PeersTyped, KernelTyped
<1>5. /\ \A a \in Blocks \ {b} : mem'[a] = mem[a] /\ heap'[a] = heap[a]
      /\ heap'[b] = "live" /\ mem'[b] = [mem[b] EXCEPT !.client_fd = f]
  BY <1>1 DEF Tidy, ProcessTyped
<1>6. /\ mem'[b].client_fd = f /\ mem'[b].server_fd = mem[b].server_fd
      /\ mem'[b].read_buffer = mem[b].read_buffer /\ State(b)' = State(b)
      /\ mem'[b].read_bytes_client = mem[b].read_bytes_client
      /\ mem'[b].read_bytes_server = mem[b].read_bytes_server
      /\ mem'[b].written_bytes_client = mem[b].written_bytes_client
  <2>1. mem[b] \in RequestType
    BY <1>1 DEF Tidy, ProcessTyped
  <2> QED BY <1>5, <2>1 DEF RequestType, State
<1>7. ~Live(b) /\ (mem[b] = Zeroed \/ (State(b) = Wild /\ mem[b].server_fd = BadFd))
  BY <1>0, <1>1 DEF Sound, Unheld, Mallocs, Live
<1>8. Calmer
  BY <1>2, <1>4 DEF Calmer
<1>9. /\ \A g \in Fds \ {f} : HeldBy(g)'
      /\ \A a \in Blocks \ {b} : Holds(a)' /\ Unheld(a)' /\ Content(a)'
      /\ EventsSound'
  <2>1. \A a \in Blocks \ {b} : Live(a) =>
          mem[a].client_fd \notin {f} /\ (State(a) \in 1 .. 3 => mem[a].server_fd \notin {f})
    BY <1>0, <1>1 DEF Sound, Holds
  <2>2. \A d \in batch' : d.ptr = b => Settled(b)'
    <3>1. \A d \in batch : d.ptr = b => Settled(b)
      BY <1>0, <1>1, <1>7 DEF Sound, EventsSound
    <3>2. Settled(b) => State(b)' = Wild
      BY <1>6 DEF Settled, Mallocs
    <3> QED BY <3>1, <3>2 DEF Settled
  <2>3. \A g \in Fds \ {f} : file'[g] = file[g] /\ reg'[g] = reg[g] /\ (g \in wreg' => g \in wreg)
    BY <1>4
  <2>4. State(b) = Wild => State(b)' = Wild
    BY <1>6
  <2>5. Live(b) => mem[b].client_fd \in {f} /\ (State(b) \in 1 .. 3 => mem[b].server_fd \in {f})
    BY <1>7
  <2>6. active \in {b, None} /\ active' \in {b, None} /\ batch' \subseteq batch
        /\ \A d \in Clients : recvd'[d] = recvd[d]
    BY <1>0
  <2> QED BY <1>0, <1>1, <1>5, <1>8, <2>1, <2>2, <2>3, <2>4, <2>5, <2>6, OthersKept
<1>10. Live(b)' /\ State(b)' \in {0, Wild} /\ Client(b)' = c
  <2>1. State(b)' \in {0, Wild}
    BY <1>6, <1>7 DEF Zeroed, State
  <2>2. Live(b)'
    BY <1>5, <2>1 DEF Live, State, Wild
  <2> QED BY <1>3, <1>4, <1>6, <2>1, <2>2 DEF Client
<1>11. HeldBy(f)'
  <2>1. f \notin wreg'
    BY <1>0, <1>1 DEF Sound, HeldBy
  <2> QED BY <1>1, <1>3, <1>4, <1>6, <1>10, <2>1 DEF HeldBy
<1>12. Holds(b)'
  <2>1. State(b)' = Wild => mem'[b].server_fd = BadFd
    <3>1. mem[b] = Zeroed => State(b) = 0
      BY DEF Zeroed, State
    <3>2. Wild # 0
      BY DEF Wild
    <3> QED BY <1>6, <1>7, <3>1, <3>2
  <2>2. /\ State(b)' \in {0, 1, 2, 3, Wild} /\ State(b)' \notin 1 .. 3
        /\ State(b)' # 1 /\ State(b)' # 3
    BY <1>10 DEF Wild
  <2>3. mem'[b].client_fd \in Fds /\ file'[mem'[b].client_fd].type = "client"
        /\ reg'[mem'[b].client_fd] = b
    BY <1>1, <1>3, <1>4, <1>6
  <2> QED BY <2>1, <2>2, <2>3 DEF Holds
<1>13. Unheld(b)' /\ Content(b)'
  <2>1. Unheld(b)'
    BY <1>5 DEF Unheld
  <2>2. State(b)' = 0 =>
          /\ IsRequest(mem'[b].read_buffer, c, 0) /\ mem'[b].read_bytes_client = 0
          /\ mem'[b].read_bytes_server = 0 /\ mem'[b].written_bytes_client = 0
    <3> SUFFICES ASSUME State(b)' = 0
                 PROVE  /\ IsRequest(mem'[b].read_buffer, c, 0) /\ mem'[b].read_bytes_client = 0
                        /\ mem'[b].read_bytes_server = 0 /\ mem'[b].written_bytes_client = 0
      OBVIOUS
    <3>1. mem[b] = Zeroed
      BY <1>6, <1>7 DEF Wild
    <3>2. mem'[b].read_buffer = <<>> /\ mem'[b].read_bytes_client = 0
          /\ mem'[b].read_bytes_server = 0 /\ mem'[b].written_bytes_client = 0
      BY <1>6, <3>1 DEF Zeroed
    <3> QED BY <3>2 DEF IsRequest
  <2>3. State(b)' \notin 1 .. 3
    BY <1>10 DEF Wild
  <2>4. recvd'[c] = 0
    BY <1>2
  <2> QED BY <1>10, <2>1, <2>2, <2>3, <2>4 DEF Content
<1>14. Unread' /\ InStep'
  <2>1. Unread'
    BY <1>0, <1>4 DEF Sound, Unread
  <2> QED BY <1>0, <2>1 DEF InStep, StateOf
<1>15. Replied'
  BY <1>2, <1>4, RepliedStays DEF Kept
<1>16. Causes'
  BY DEF Causes
<1> QED BY <1>9, <1>11, <1>12, <1>13, <1>14, <1>15, <1>16 DEF Kept, Sound

LEMMA AcceptKept == ASSUME Tidy, Kept, Accept PROVE Kept'
<1> USE DEF Accept, AcceptInto
<1>0. Alive /\ Sound /\ active = None
  BY DEF Kept, Alive, Sound, InStep
<1>1. CASE FreeFds = {} /\ pc' = "exited" /\ UNCHANGED <<peers, kernel, mem, heap>>
  <2>1. ~Ample'
    BY <1>0, <1>1, SomeFree DEF Ample, NoneGaveUp, peers, given
  <2>2. Replied'
    BY <1>1, RepliedStays DEF Kept, peers
  <2> QED BY <1>1, <2>1, <2>2 DEF Kept, Causes, Alive
<1>2. CASE pc' = "event" /\ UNCHANGED <<peers, kernel, mem, heap>>
  <2>1. active' = None /\ batch' = batch
    BY <1>0
  <2>2. InStep'
    BY <1>2, <2>1 DEF InStep, StateOf
  <2>3. \A e \in batch' : e.ptr # Listener /\ ~Settled(e.ptr) => e.ptr # active'
    BY <2>1, EpollAssumption DEF Tidy, ProcessTyped, EventType
  <2> QED BY <1>0, <1>2, <2>1, <2>2, <2>3, EpollAssumption, IdleKept DEF kernel
<1>3. CASE FreeFds # {} /\ backlog # <<>>
  BY <1>3, AcceptOneKept
<1> QED BY <1>1, <1>2, <1>3

-----------------------------------------------------------------------------
(* The request that is being handled takes another value, and descriptors   *)
(* that are its own or were free may change: the others do not mind.        *)
LEMMA BusySound ==
    ASSUME Tidy, Kept, Calmer, pc \in DOMAIN StateOf, NEW b, b = active,
           NEW r \in RequestType, Becomes(r), active' \in {b, None}, batch' = batch,
           NEW G, mem[b].client_fd \in G, State(b) \in 1 .. 3 => mem[b].server_fd \in G,
           \A g \in Fds \cap G : \/ g = mem[b].client_fd \/ file[g].type = "free"
                                 \/ State(b) \in 1 .. 3 /\ g = mem[b].server_fd,
           \A g \in Fds \ G : file'[g] = file[g] /\ reg'[g] = reg[g] /\ (g \in wreg' => g \in wreg),
           \A d \in Clients : recvd'[d] = recvd[d] \/ d = Client(b)
    PROVE  /\ \A g \in Fds \ G : HeldBy(g)'
           /\ \A a \in Blocks \ {b} : Holds(a)' /\ Unheld(a)' /\ Content(a)'
           /\ EventsSound' /\ Unheld(b)'
           /\ mem'[b] = r /\ heap'[b] = "live" /\ State(b)' = r.current_state
           /\ Live(b)' <=> r.current_state # 4
<1>1. /\ Sound /\ b \in Blocks /\ b # None /\ Live(b) /\ heap[b] = "live" /\ State(b) = StateOf[pc]
      /\ \A d \in batch : d.ptr # b
  BY Handled
<1>2. /\ mem'[b] = r /\ \A a \in Blocks \ {b} : mem'[a] = mem[a]
      /\ heap' = heap
  BY <1>1 DEF Becomes, Tidy, ProcessTyped
<1>3. \A a \in Blocks \ {b} : Live(a) =>
        mem[a].client_fd \notin G /\ (State(a) \in 1 .. 3 => mem[a].server_fd \notin G)
  <2> SUFFICES ASSUME NEW a \in Blocks \ {b}, Live(a)
               PROVE  mem[a].client_fd \notin G /\ (State(a) \in 1 .. 3 => mem[a].server_fd \notin G)
    OBVIOUS
  <2>1. /\ mem[a].client_fd \in Fds /\ file[mem[a].client_fd].type = "client"
        /\ State(a) \in 1 .. 3 => mem[a].server_fd \in Fds /\ file[mem[a].server_fd].type = "server"
    BY <1>1 DEF Sound, Holds
  <2>2. mem[a].client_fd # mem[b].client_fd
        /\ (State(a) \in 1 .. 3 => mem[a].server_fd # mem[b].client_fd)
    BY <1>1, Apart
  <2>3. State(b) \in 1 .. 3 => /\ mem[a].client_fd # mem[b].server_fd
                               /\ State(a) \in 1 .. 3 => mem[a].server_fd # mem[b].server_fd
    BY <1>1, Apart
  <2> QED BY <2>1, <2>2, <2>3
<1>4. State(b) # Wild
  BY <1>1 DEF StateOf, Wild
<1>5. /\ \A g \in Fds \ G : HeldBy(g)'
      /\ \A a \in Blocks \ {b} : Holds(a)' /\ Unheld(a)' /\ Content(a)'
      /\ EventsSound'
  <2>1. \A a \in Blocks \ {b} : mem'[a] = mem[a] /\ heap'[a] = heap[a]
    BY <1>2
  <2>2. /\ batch' \subseteq batch /\ \A d \in batch' : d.ptr = b => Settled(b)'
        /\ active \in {b, None}
    BY <1>1
  <2>3. \A d \in Clients : recvd'[d] = recvd[d] \/ (Live(b) /\ d = Client(b))
    BY <1>1
  <2> QED BY <1>1, <1>3, <1>4, <2>1, <2>2, <2>3, OthersKept
<1>6. heap'[b] = "live" /\ State(b)' = r.current_state
  BY <1>1, <1>2 DEF State
<1>7. Live(b)' <=> r.current_state # 4
  BY <1>2, <1>6 DEF Live
<1>8. Unheld(b)'
  BY <1>6 DEF Unheld
<1> QED BY <1>2, <1>5, <1>6, <1>7, <1>8

(* What is read goes to the end of what has been read.                      *)
LEMMA ReadOn ==
    ASSUME NEW buf \in Seq(Cells), NEW c \in Clients, NEW n \in Nat, IsRequest(buf, c, n),
           NEW cells \in Seq(Cells),
           \A i \in 1 .. Len(cells) : cells[i] = <<c, IF n + i = 1 THEN "head" ELSE "end">>
    PROVE  IsRequest(Put(buf, n, cells), c, n + Len(cells))
<1> DEFINE m == n + Len(cells)
           new == Put(buf, n, cells)
<1>1. Len(cells) \in Nat /\ m \in Nat /\ m >= n /\ Len(buf) = n
  BY LenProperties DEF IsRequest
<1>2. new = [i \in 1 .. m |-> IF i \in n + 1 .. m THEN cells[i - n]
                              ELSE IF i <= n THEN buf[i] ELSE None]
  BY <1>1 DEF Put
<1> HIDE DEF new
<1>3. Len(new) = m
  BY <1>1, <1>2
<1>4. ASSUME NEW i \in 1 .. m PROVE new[i] = <<c, IF i = 1 THEN "head" ELSE "end">>
  <2>1. CASE i <= n
    <3>1. new[i] = buf[i] /\ i \in 1 .. n
      BY <1>1, <1>2, <2>1
    <3> QED BY <3>1 DEF IsRequest
  <2>2. CASE i > n
    <3>1. new[i] = cells[i - n] /\ i - n \in 1 .. Len(cells) /\ n + (i - n) = i
      BY <1>1, <1>2, <2>2
    <3> QED BY <3>1
  <2> QED BY <1>1, <2>1, <2>2
<1> QED BY <1>3, <1>4 DEF IsRequest, new

LEMMA ReadRequestKept ==
    ASSUME Tidy, Kept, Calm, ReadRequest,
           NEW b, b = active, NEW c, c = Client(b), NEW f, f = mem[b].client_fd
    PROVE  Kept'
<1> DEFINE in == Input(f)
           new == Put(request.read_buffer, request.read_bytes_client, in.cells)
           count == Count(request.read_bytes_client, in.cells)
           r == [request EXCEPT !.read_buffer = new, !.read_bytes_client = count]
<1>1. /\ pc = "read_request" /\ pc \in DOMAIN StateOf /\ StateOf[pc] = 0 /\ batch' = batch
  BY DEF ReadRequest, StateOf
<1>2. /\ Alive /\ Sound /\ b \in Blocks /\ b # None /\ request = mem[b] /\ request.client_fd = f
      /\ Live(b) /\ heap[b] = "live" /\ State(b) = 0
      /\ f \in Fds /\ file[f].type = "client" /\ reg[f] = b /\ c = file[f].of
      /\ c \in Clients /\ conn[c] = "open"
      /\ \A d \in batch : d.ptr # b
  BY <1>1, Handled
<1>3. /\ sent[c] \in 0 .. 2 /\ recvd[c] \in 0 .. sent[c]
      /\ (in.eof <=> c \in eof) /\ (in.error <=> c \in rst)
      /\ in.cells \in Seq(Cells) /\ Len(in.cells) = sent[c] - recvd[c]
      /\ in.cells = <<>> <=> recvd[c] = sent[c]
      /\ \A i \in 1 .. sent[c] - recvd[c] :
           in.cells[i] = <<c, IF recvd[c] + i = 1 THEN "head" ELSE "end">>
  BY <1>2, ClientInput
<1>4. CASE in.cells # <<>>
  <2>1. /\ Taken(f) /\ Becomes(r)
        /\ pc' = IF Complete(new) THEN "open" ELSE "read_request"
        /\ UNCHANGED <<given, sent, eof, rst, conn, backlog, reply, reg, wreg, ready, lready, active>>
    BY <1>2, <1>4 DEF ReadRequest
  <2>2. file' = file /\ recvd' = [recvd EXCEPT ![c] = sent[c]]
    BY <1>2, <2>1 DEF Taken, FileOf
  <2>3. recvd'[c] = sent[c] /\ \A d \in Clients \ {c} : recvd'[d] = recvd[d]
    BY <1>2, <2>2 DEF Tidy, PeersTyped
  <2>4. request \in RequestType /\ request.read_buffer \in Seq(Cells)
    BY <1>1, ActiveTyped
  <2>5. /\ IsRequest(request.read_buffer, c, recvd[c]) /\ request.read_bytes_client = recvd[c]
        /\ request.read_bytes_server = 0 /\ request.written_bytes_client = 0
    BY <1>2 DEF Sound, Content
  <2>6. IsRequest(new, c, sent[c]) /\ count = sent[c]
    <3>1. recvd[c] \in Nat /\ recvd[c] + Len(in.cells) = sent[c]
      BY <1>3
    <3> HIDE DEF in
    <3>2. IsRequest(Put(request.read_buffer, recvd[c], in.cells), c, recvd[c] + Len(in.cells))
      BY <1>2, <1>3, <2>4, <2>5, <3>1, ReadOn
    <3> QED BY <2>5, <3>1, <3>2 DEF Count
  <2>7. new \in Seq(Cells) /\ count \in Nat
    BY <1>1, <1>3, ActiveTyped, PutTyped DEF Count
  <2> HIDE DEF new, count, in
  <2>8. r \in RequestType /\ r.current_state = 0 /\ r.client_fd = f
        /\ r.read_buffer = new /\ r.read_bytes_client = count
        /\ r.read_bytes_server = 0 /\ r.written_bytes_client = 0
    BY <1>2, <2>4, <2>5, <2>7 DEF RequestType, State
  <2> HIDE DEF r
  <2>9. Calmer
    BY <2>1 DEF Calmer
  <2>10. /\ \A g \in Fds \ {f} : HeldBy(g)'
         /\ \A a \in Blocks \ {b} : Holds(a)' /\ Unheld(a)' /\ Content(a)'
         /\ EventsSound' /\ Unheld(b)'
         /\ mem'[b] = r /\ heap'[b] = "live" /\ State(b)' = 0 /\ Live(b)'
    <3>1. mem[b].client_fd \in {f} /\ State(b) \notin 1 .. 3
      BY <1>2
    <3>2. active = b /\ active' = b /\ c = Client(b)
      BY <2>1
    <3>3. \A g \in Fds \ {f} : file'[g] = file[g] /\ reg'[g] = reg[g] /\ (g \in wreg' => g \in wreg)
      BY <2>1, <2>2
    <3>4. \A g \in Fds \cap {f} : g = mem[b].client_fd
      BY <3>1
    <3>5. \A d \in Clients : recvd'[d] = recvd[d] \/ d = Client(b)
      BY <2>3, <3>2
    <3>6. /\ r \in RequestType /\ Becomes(r) /\ active' \in {b, None} /\ batch' = batch
          /\ r.current_state = 0
      BY <1>1, <2>1, <2>8, <3>2
    <3>7. /\ \A g \in Fds \ {f} : HeldBy(g)'
          /\ \A a \in Blocks \ {b} : Holds(a)' /\ Unheld(a)' /\ Content(a)'
          /\ EventsSound' /\ Unheld(b)'
          /\ mem'[b] = r /\ heap'[b] = "live" /\ State(b)' = r.current_state
          /\ Live(b)' <=> r.current_state # 4
      <4> DEFINE G == {f}
      <4>1. mem[b].client_fd \in G /\ (State(b) \in 1 .. 3 => mem[b].server_fd \in G)
        BY <3>1
      <4>2. \A g \in Fds \cap G : g = mem[b].client_fd
        BY <3>4
      <4>4. \A g \in Fds \ G : file'[g] = file[g] /\ reg'[g] = reg[g] /\ (g \in wreg' => g \in wreg)
        BY <3>3
      <4> HIDE DEF G
      <4>3. /\ \A g \in Fds \ G : HeldBy(g)'
            /\ \A a \in Blocks \ {b} : Holds(a)' /\ Unheld(a)' /\ Content(a)'
            /\ EventsSound' /\ Unheld(b)'
            /\ mem'[b] = r /\ heap'[b] = "live" /\ State(b)' = r.current_state
            /\ Live(b)' <=> r.current_state # 4
        BY <1>1, <2>9, <3>2, <3>5, <3>6, <4>1, <4>2, <4>4, BusySound
      <4> QED BY <4>3 DEF G
    <3> QED BY <3>6, <3>7
  <2>11. HeldBy(f)'
    <3>1. file'[f] = file[f] /\ reg'[f] = b /\ mem'[b].client_fd = f /\ (f \in wreg' => f \in wreg)
      BY <1>2, <2>1, <2>2, <2>8, <2>10
    <3>2. HeldBy(f) /\ kind' = kind /\ State(b)' = State(b)
      BY <1>2, <2>1, <2>10 DEF Sound, given
    <3> QED BY <1>2, <2>10, <3>1, <3>2 DEF HeldBy
  <2>12. Client(b)' = c
    BY <1>2, <2>2, <2>8, <2>10 DEF Client
  <2>13. Holds(b)'
    <3>1. mem'[b].client_fd = f /\ file'[f].type = "client" /\ reg'[f] = b /\ f \in Fds
      BY <1>2, <2>1, <2>2, <2>8, <2>10
    <3> QED BY <2>10, <3>1 DEF Holds, Wild
  <2>14. Content(b)'
    BY <2>3, <2>6, <2>8, <2>10, <2>12 DEF Content
  <2>15. Unread'
    BY <1>2, <2>1, <2>3 DEF Sound, Unread
  <2>16. InStep'
    <3>1. active' = b /\ mem'[b].read_buffer = new
      BY <2>1, <2>8, <2>10
    <3> QED BY <1>2, <2>1, <2>10, <3>1 DEF InStep, StateOf
  <2>17. Replied'
    BY <2>1, RepliedStays DEF Kept
  <2>18. Causes'
    BY <2>1 DEF Causes
  <2> QED BY <2>10, <2>11, <2>13, <2>14, <2>15, <2>16, <2>17, <2>18 DEF Kept, Sound
<1>5. ~in.error
  BY <1>3, NoReset
<1>6. CASE in.cells = <<>> /\ ~in.eof
  <2>1. UNCHANGED <<peers, kernel, mem, heap>> /\ Continue(1, active)
    BY <1>2, <1>5, <1>6 DEF ReadRequest
  <2> QED BY <1>1, <1>2, <2>1, PauseKept
<1>7. CASE in.cells = <<>> /\ in.eof
  <2>1. /\ pc' = IF Complete(request.read_buffer) THEN "open" ELSE "hung"
        /\ UNCHANGED <<peers, kernel, mem, heap, active>>
    BY <1>2, <1>5, <1>7 DEF ReadRequest
  <2>2. CASE pc' = "open"
    <3>1. InStep'
      BY <1>2, <2>1, <2>2 DEF InStep, StateOf, Live, State
    <3>2. \A e \in batch' : e.ptr # active'
      BY <1>1, <1>2, <2>1
    <3> QED BY <1>1, <1>2, <2>1, <2>2, <3>1, <3>2, IdleKept DEF kernel
  <2>3. CASE pc' = "hung"
    <3>1. Replied'
      BY <2>1, RepliedStays DEF Kept, peers
    <3>2. c \in eof /\ recvd[c] = sent[c]
      BY <1>3, <1>7
    <3>3. UNCHANGED <<recvd, sent, eof>>
      BY <2>1 DEF peers
    <3> QED BY <2>3, <3>1, <3>2, <3>3 DEF Kept, Causes, Alive
  <2> QED BY <2>1, <2>2, <2>3
<1> QED BY <1>4, <1>5, <1>6, <1>7

(* The headers of the request are complete: it is the client's own, whole.  *)
LEMMA WholeRequest ==
    ASSUME NEW buf, NEW c, NEW n \in 0 .. 2, IsRequest(buf, c, n), Complete(buf),
           DOMAIN buf = 1 .. Len(buf)
    PROVE  n = 2 /\ Len(buf) = 2 /\ buf[1][1] = c
<1>1. PICK i \in 1 .. n : buf[i][2] \in {"end", "answer"}
  BY DEF Complete, IsRequest
<1>2. buf[i] = <<c, IF i = 1 THEN "head" ELSE "end">> /\ 1 \in 1 .. n
  BY <1>1 DEF IsRequest
<1>3. i # 1
  <2> SUFFICES ASSUME i = 1 PROVE FALSE
    OBVIOUS
  <2>1. buf[i] = <<c, "head">>
    BY <1>2
  <2> QED BY <1>1, <2>1
<1>4. n = 2
  BY <1>1, <1>3
<1>5. buf[1] = <<c, "head">>
  BY <1>2 DEF IsRequest
<1> QED BY <1>4, <1>5 DEF IsRequest

LEMMA OpenKept ==
    ASSUME Tidy, Kept, Calm, Open,
           NEW b, b = active, NEW c, c = Client(b), NEW d, d = mem[b].client_fd,
           NEW f, f = Lowest(FreeFds)
    PROVE  Kept'
<1> DEFINE o == [type |-> "server", of |-> c, st |-> "new", got |-> FALSE]
           wbuf == Put(request.write_buffer, 0, << <<c, "request">> >>)
           rbuf == Clear(request.read_buffer, request.read_bytes_client)
           r == [request EXCEPT !.server_fd = f, !.current_state = 1, !.write_buffer = wbuf,
                                !.total_write_amount = 1, !.read_buffer = rbuf]
<1>1. /\ pc = "open" /\ pc \in DOMAIN StateOf /\ StateOf[pc] = 0 /\ batch' = batch
      /\ Continue(1, active)
  BY DEF Open, StateOf
<1>2. /\ Alive /\ Sound /\ b \in Blocks /\ b # None /\ request = mem[b] /\ request.client_fd = d
      /\ Live(b) /\ heap[b] = "live" /\ State(b) = 0
      /\ d \in Fds /\ file[d].type = "client" /\ reg[d] = b /\ c = file[d].of
      /\ c \in Clients /\ conn[c] = "open"
  BY <1>1, Handled
<1>3. request \in RequestType /\ request.read_buffer \in Seq(Cells)
      /\ request.write_buffer \in Seq(Cells) /\ request.read_bytes_client \in Nat
  BY <1>1, ActiveTyped
<1>4. /\ IsRequest(request.read_buffer, c, recvd[c])
      /\ request.read_bytes_server = 0 /\ request.written_bytes_client = 0
  BY <1>2 DEF Sound, Content
<1>5. recvd[c] = 2 /\ Len(request.read_buffer) = 2 /\ request.read_buffer[1][1] = c
  <2>1. Complete(request.read_buffer)
    BY <1>1, <1>2 DEF Sound, InStep
  <2>2. recvd[c] \in 0 .. 2
    BY <1>2 DEF Tidy, PeersTyped
  <2>3. DOMAIN request.read_buffer = 1 .. Len(request.read_buffer)
    BY <1>3
  <2> QED BY <1>4, <2>1, <2>2, <2>3, WholeRequest
<1>6. CASE (kind[c] \in {"malformed", "nohost", "refused"} \/ FreeFds = {}) /\ GiveUp({request.client_fd})
  <2>1. ~Ample
    BY <1>2, <1>6, SomeFree DEF Ample, NoneGaveUp, GivesUp
  <2> QED BY <1>1, <1>2, <1>6, <2>1, GiveUpKept
<1>7. CASE /\ FreeFds # {}
           /\ file' = [file EXCEPT ![f] = o] /\ wreg' = wreg \cup {f}
           /\ Becomes(r)
           /\ UNCHANGED <<peers, reg, ready, lready>>
  <2>1. f \in Fds /\ file[f].type = "free" /\ f # d
    BY <1>2, <1>7, LowestTidy
  <2>2. wbuf \in Seq(Cells) /\ rbuf \in Seq(Cells) /\ Len(rbuf) = 2
    <3>1. << <<c, "request">> >> \in Seq(Cells) /\ 0 \in Nat
      BY <1>2 DEF Cells
    <3>2. wbuf \in Seq(Cells) /\ rbuf \in Seq(Cells)
      BY <1>3, <3>1, PutTyped, ClearTyped
    <3>3. DOMAIN request.read_buffer = 1 .. 2 /\ DOMAIN rbuf = DOMAIN request.read_buffer
      BY <1>3, <1>5 DEF Clear
    <3> HIDE DEF rbuf
    <3> QED BY <3>2, <3>3
  <2>3. o.type = "server" /\ o.of = c /\ o.st = "new" /\ ~o.got /\ o \in FileType
    BY <1>2, ServerFile
  <2> HIDE DEF wbuf, rbuf, o
  <2>4. r \in RequestType
    <3>1. 1 \in 0 .. Wild /\ 1 \in Nat
      BY DEF Wild
    <3> QED BY <1>3, <2>1, <2>2, <3>1, OpenedTyped
  <2>5. /\ r.current_state = 1 /\ r.client_fd = d /\ r.server_fd = f /\ r.read_buffer = rbuf
        /\ r.read_bytes_server = 0 /\ r.written_bytes_client = 0
    BY <1>2, <1>3, <1>4 DEF RequestType
  <2> HIDE DEF r
  <2>6. file'[f] = o /\ \A g \in Fds \ {f} : file'[g] = file[g]
    BY <1>7, <2>1 DEF Tidy, KernelTyped
  <2>7. UNCHANGED <<given, recvd, conn, reply, reg>>
    BY <1>7 DEF peers
  <2>8. Calmer
    BY <2>7 DEF Calmer
  <2>9. mem'[b] = r /\ heap'[b] = "live" /\ State(b)' = 1 /\ Live(b)'
    BY <1>2, <1>7, <2>5 DEF Becomes, Tidy, ProcessTyped, State, Live
  <2>10. pc' = "send_request" /\ active' = b
    <3>1. heap'[b] # "unmapped" /\ mem'[b].current_state = 1
      BY <2>5, <2>9
    <3> QED BY <1>1, <1>2, <3>1, StepNames DEF Continue
  <2>11. /\ \A g \in Fds \ {d, f} : HeldBy(g)'
         /\ \A a \in Blocks \ {b} : Holds(a)' /\ Unheld(a)' /\ Content(a)'
         /\ EventsSound' /\ Unheld(b)'
    <3> DEFINE G == {d, f}
    <3>1. mem[b].client_fd \in G /\ (State(b) \in 1 .. 3 => mem[b].server_fd \in G)
      BY <1>2
    <3>2. \A g \in Fds \cap G : g = mem[b].client_fd \/ file[g].type = "free"
      BY <2>1
    <3>3. \A g \in Fds \ G : file'[g] = file[g] /\ reg'[g] = reg[g] /\ (g \in wreg' => g \in wreg)
      BY <1>7, <2>6, <2>7
    <3>4. active' \in {b, None} /\ \A e \in Clients : recvd'[e] = recvd[e] \/ e = Client(b)
      BY <2>7, <2>10
    <3> HIDE DEF G
    <3>5. /\ \A g \in Fds \ G : HeldBy(g)'
          /\ \A a \in Blocks \ {b} : Holds(a)' /\ Unheld(a)' /\ Content(a)'
          /\ EventsSound' /\ Unheld(b)'
      BY <1>1, <1>7, <2>4, <2>8, <3>1, <3>2, <3>3, <3>4, BusySound
    <3> QED BY <3>5 DEF G
  <2>12. HeldBy(d)'
    <3>1. d \notin wreg'
      BY <1>2, <1>7, <2>1 DEF Sound, HeldBy
    <3>2. file'[d] = file[d] /\ reg'[d] = b /\ mem'[b].client_fd = d /\ HeldBy(d)
      BY <1>2, <2>1, <2>5, <2>6, <2>7, <2>9 DEF Sound
    <3>3. kind' = kind
      BY <2>7 DEF given
    <3> QED BY <1>2, <2>9, <3>1, <3>2, <3>3 DEF HeldBy
  <2>13. HeldBy(f)'
    <3>1. reg'[f] = None
      BY <1>2, <2>1, <2>7 DEF Sound, HeldBy
    <3>2. conn'[c] # "none"
      BY <1>2, <2>7
    <3>3. mem'[b].server_fd = f
      BY <2>5, <2>9
    <3> QED BY <1>2, <2>3, <2>6, <2>9, <3>1, <3>2, <3>3 DEF HeldBy
  <2>14. Client(b)' = c
    BY <1>2, <2>1, <2>5, <2>6, <2>9 DEF Client
  <2>15. Holds(b)'
    <3>1. mem'[b].client_fd = d /\ file'[d].type = "client" /\ reg'[d] = b
      BY <1>2, <2>1, <2>5, <2>6, <2>7, <2>9
    <3>2. mem'[b].server_fd = f /\ file'[f].type = "server" /\ reg'[f] = None /\ file'[f].of = c
      BY <1>2, <2>1, <2>3, <2>5, <2>6, <2>7, <2>9 DEF Sound, HeldBy
    <3> QED BY <1>2, <2>1, <2>9, <2>10, <2>14, <3>1, <3>2 DEF Holds, Wild
  <2>16. Content(b)'
    <3>1. mem'[b].server_fd = f /\ ~file'[f].got /\ mem'[b].written_bytes_client = 0
          /\ mem'[b].read_bytes_server = 0 /\ Len(mem'[b].read_buffer) = 2
      BY <2>2, <2>3, <2>5, <2>6, <2>9
    <3>2. recvd'[c] = 2
      BY <1>5, <2>7
    <3> QED BY <2>9, <2>14, <3>1, <3>2 DEF Content
  <2>17. Unread' /\ InStep'
    <3>1. Unread'
      BY <1>2, <2>7 DEF Sound, Unread
    <3> QED BY <1>2, <2>9, <2>10, <3>1 DEF InStep, StateOf
  <2>18. Replied'
    BY <2>7, RepliedStays DEF Kept
  <2>19. Causes'
    BY <2>10 DEF Causes
  <2> QED BY <2>11, <2>12, <2>13, <2>15, <2>16, <2>17, <2>18, <2>19 DEF Kept, Sound
<1>8. \/ (kind[c] \in {"malformed", "nohost", "refused"} \/ FreeFds = {}) /\ GiveUp({request.client_fd})
      \/ /\ FreeFds # {}
         /\ file' = [file EXCEPT ![f] = o] /\ wreg' = wreg \cup {f}
         /\ Becomes(r)
         /\ UNCHANGED <<peers, reg, ready, lready>>
  BY <1>5 DEF Open
<1> QED BY <1>6, <1>7, <1>8

(* The connection to the server of a request that is being handled.         *)
LEMMA HandledServer ==
    ASSUME Tidy, Kept, pc \in {"send_request", "read_response", "send_response"},
           NEW b, b = active, NEW f, f = mem[b].server_fd
    PROVE  /\ State(b) \in 1 .. 3 /\ f \in Fds /\ file[f].type = "server"
           /\ file[f].of = Client(b) /\ f # mem[b].client_fd
           /\ reg[f] = IF State(b) = 1 THEN None ELSE b
           /\ recvd[Client(b)] = 2
<1>1. Sound /\ b \in Blocks /\ Live(b) /\ State(b) \in 1 .. 3 /\ file[mem[b].client_fd].type = "client"
  <2>1. pc \in DOMAIN StateOf /\ StateOf[pc] \in 1 .. 3
    BY DEF StateOf
  <2> QED BY <2>1, Handled
<1> QED BY <1>1 DEF Sound, Holds, Content

(* The write to a server's connection: only a reset makes it fail.          *)
LEMMA ServerWrite ==
    ASSUME Tidy, NEW f \in Fds, file[f].type = "server", WriteFails(f)
    PROVE  file[f].st = "reset"
BY FromServer DEF WriteFails, FileOf

LEMMA SendRequestKept ==
    ASSUME Tidy, Kept, Calm, SendRequest,
           NEW b, b = active, NEW c, c = Client(b), NEW d, d = mem[b].client_fd,
           NEW f, f = mem[b].server_fd
    PROVE  Kept'
<1> DEFINE n == request.written_bytes_server + request.total_write_amount
           cells == Cut(request.write_buffer, request.written_bytes_server,
                        request.total_write_amount)
           wbuf == Clear(request.write_buffer, n)
           r == [request EXCEPT !.written_bytes_server = n, !.current_state = 2,
                                !.write_buffer = wbuf]
<1>1. /\ pc = "send_request" /\ pc \in DOMAIN StateOf /\ StateOf[pc] = 1 /\ batch' = batch
  BY DEF SendRequest, StateOf
<1>2. /\ Alive /\ Sound /\ b \in Blocks /\ b # None /\ request = mem[b]
      /\ request.client_fd = d /\ request.server_fd = f
      /\ Live(b) /\ heap[b] = "live" /\ State(b) = 1
      /\ d \in Fds /\ file[d].type = "client" /\ reg[d] = b /\ c = file[d].of
      /\ c \in Clients /\ conn[c] = "open"
  BY <1>1, Handled
<1>3. f \in Fds /\ file[f].type = "server" /\ file[f].of = c /\ f # d /\ reg[f] = None /\ recvd[c] = 2
  <2>1. pc \in {"send_request", "read_response", "send_response"}
    BY <1>1
  <2>2. /\ f \in Fds /\ file[f].type = "server"
        /\ file[f].of = Client(b) /\ f # mem[b].client_fd
        /\ reg[f] = IF State(b) = 1 THEN None ELSE b
        /\ recvd[Client(b)] = 2
    BY <2>1, HandledServer
  <2> QED BY <1>2, <2>2
<1>4. CASE WriteFails(f) /\ GiveUp({request.client_fd, f}) /\ Continue(2, active)
  <2>1. ~Ample
    BY <1>2, <1>3, <1>4, ServerWrite, NoServerReset DEF Sound
  <2>2. /\ mem[b].client_fd \in {request.client_fd, f}
        /\ \A g \in Fds \cap {request.client_fd, f} :
             g = mem[b].client_fd \/ (State(b) \in 1 .. 3 /\ g = mem[b].server_fd)
        /\ mem[b].server_fd \in {request.client_fd, f}
    BY <1>2
  <2> QED BY <1>1, <1>4, <2>1, <2>2, GiveUpKept
<1>5. CanAdd(f, Registered)
  BY <1>2, <1>3 DEF CanAdd, FileOf, Registered
<1>6. CASE /\ reply' = Sent(f, cells) /\ file' = Asked(f, cells)
           /\ reg' = [reg EXCEPT ![f] = active]
           /\ Becomes(r)
           /\ UNCHANGED <<given, sent, recvd, eof, rst, conn, backlog, wreg, lready>>
           /\ Continue(2, active)
  <2>1. request \in RequestType /\ n \in Nat /\ wbuf \in Seq(Cells)
    <3>1. /\ request \in RequestType /\ request.write_buffer \in Seq(Cells) /\ n \in Nat
      BY <1>1, ActiveTyped
    <3> QED BY <3>1, ClearTyped
  <2>2. reply' = reply
    <3>1. \A e \in Clients : f \notin FdsOf(e)
      BY <1>3 DEF FdsOf
    <3>2. reply \in [Clients -> Seq(Cells)]
      BY DEF Tidy, PeersTyped
    <3> HIDE DEF cells
    <3> QED BY <1>6, <3>1, <3>2 DEF Sent
  <2> HIDE DEF n, wbuf, cells
  <2>3. r \in RequestType
    <3>1. 2 \in 0 .. Wild
      BY DEF Wild
    <3> QED BY <2>1, <3>1, SentTyped
  <2>4. /\ r.current_state = 2 /\ r.client_fd = d /\ r.server_fd = f
        /\ r.read_buffer = request.read_buffer
        /\ r.read_bytes_server = request.read_bytes_server
        /\ r.written_bytes_client = request.written_bytes_client
    BY <1>2, <2>1 DEF RequestType
  <2> HIDE DEF r
  <2>5. /\ \A g \in Fds : file'[g].type = file[g].type /\ file'[g].of = file[g].of
                          /\ file'[g].got = file[g].got
        /\ \A g \in Fds : file'[g].st = file[g].st \/ file'[g].st = "asked"
        /\ \A g \in Fds \ {f} : file'[g] = file[g]
    BY <1>3, <1>6, AskedTyped
  <2>6. reg'[f] = b /\ \A g \in Fds \ {f} : reg'[g] = reg[g]
    BY <1>3, <1>6 DEF Tidy, KernelTyped
  <2>7. Calmer
    BY <1>6 DEF Calmer
  <2>8. mem'[b] = r /\ heap'[b] = "live" /\ State(b)' = 2 /\ Live(b)'
    BY <1>2, <1>6, <2>4 DEF Becomes, Tidy, ProcessTyped, State, Live
  <2>9. pc' = "read_response" /\ active' = b
    <3>1. heap'[b] # "unmapped" /\ mem'[b].current_state = 2
      BY <2>4, <2>8
    <3> QED BY <1>2, <1>6, <3>1, StepNames DEF Continue
  <2>10. /\ \A g \in Fds \ {d, f} : HeldBy(g)'
         /\ \A a \in Blocks \ {b} : Holds(a)' /\ Unheld(a)' /\ Content(a)'
         /\ EventsSound' /\ Unheld(b)'
    <3> DEFINE G == {d, f}
    <3>1. mem[b].client_fd \in G /\ (State(b) \in 1 .. 3 => mem[b].server_fd \in G)
      BY <1>2
    <3>2. \A g \in Fds \cap G : g = mem[b].client_fd \/ (State(b) \in 1 .. 3 /\ g = mem[b].server_fd)
      BY <1>2
    <3>3. \A g \in Fds \ G : file'[g] = file[g] /\ reg'[g] = reg[g] /\ (g \in wreg' => g \in wreg)
      BY <1>6, <2>5, <2>6
    <3>4. active' \in {b, None} /\ \A e \in Clients : recvd'[e] = recvd[e] \/ e = Client(b)
      BY <1>6, <2>9
    <3> HIDE DEF G
    <3>5. /\ \A g \in Fds \ G : HeldBy(g)'
          /\ \A a \in Blocks \ {b} : Holds(a)' /\ Unheld(a)' /\ Content(a)'
          /\ EventsSound' /\ Unheld(b)'
      BY <1>1, <1>6, <2>3, <2>7, <3>1, <3>2, <3>3, <3>4, BusySound
    <3> QED BY <3>5 DEF G
  <2>11. HeldBy(d)'
    <3>1. d \notin wreg'
      BY <1>2, <1>6 DEF Sound, HeldBy
    <3>2. file'[d] = file[d] /\ reg'[d] = b /\ mem'[b].client_fd = d /\ HeldBy(d)
      BY <1>2, <1>3, <2>4, <2>5, <2>6, <2>8 DEF Sound
    <3>3. kind' = kind
      BY <1>6 DEF given
    <3> QED BY <1>2, <2>8, <3>1, <3>2, <3>3 DEF HeldBy
  <2>12. HeldBy(f)'
    <3>1. file'[f].type = "server" /\ file'[f].of = c /\ conn'[c] # "none"
      BY <1>2, <1>3, <1>6, <2>5
    <3>2. mem'[b].server_fd = f
      BY <2>4, <2>8
    <3>3. file'[f].st = "reset" => kind[c] = "serverresets"
      BY <1>2, <1>3, <2>5 DEF Sound, HeldBy
    <3>4. kind' = kind
      BY <1>6 DEF given
    <3> QED BY <1>2, <2>6, <2>8, <3>1, <3>2, <3>3, <3>4 DEF HeldBy
  <2>13. Client(b)' = c
    BY <1>2, <2>4, <2>5, <2>8 DEF Client
  <2>14. Holds(b)'
    <3>1. mem'[b].client_fd = d /\ file'[d].type = "client" /\ reg'[d] = b
      BY <1>2, <1>3, <2>4, <2>5, <2>6, <2>8
    <3>2. mem'[b].server_fd = f /\ file'[f].type = "server" /\ reg'[f] = b /\ file'[f].of = c
      BY <1>3, <2>4, <2>5, <2>6, <2>8
    <3> QED BY <1>2, <1>3, <2>8, <2>13, <3>1, <3>2 DEF Holds, Wild
  <2>15. Content(b)'
    <3>1. mem'[b].server_fd = f /\ file'[f].got = file[f].got
          /\ mem'[b].written_bytes_client = mem[b].written_bytes_client
          /\ mem'[b].read_bytes_server = mem[b].read_bytes_server
          /\ mem'[b].read_buffer = mem[b].read_buffer
      BY <1>2, <1>3, <2>4, <2>5, <2>8
    <3>2. recvd'[c] = 2
      BY <1>3, <1>6
    <3>3. /\ mem[b].written_bytes_client = 0
          /\ file[f].got => mem[b].read_bytes_server = 2 /\ mem[b].read_buffer = AnswerTo(c)
          /\ ~file[f].got => mem[b].read_bytes_server = 0 /\ Len(mem[b].read_buffer) = 2
      <4>1. Content(b) /\ State(b) \in 1 .. 2
        BY <1>2 DEF Sound
      <4> QED BY <1>2, <4>1 DEF Content
    <3> QED BY <2>8, <2>13, <3>1, <3>2, <3>3 DEF Content
  <2>16. Unread' /\ InStep'
    <3>1. Unread'
      BY <1>2, <1>6 DEF Sound, Unread
    <3> QED BY <1>2, <2>8, <2>9, <3>1 DEF InStep, StateOf
  <2>17. Replied'
    BY <1>6, <2>2, RepliedStays DEF Kept
  <2>18. Causes'
    BY <2>9 DEF Causes
  <2> QED BY <2>10, <2>11, <2>12, <2>14, <2>15, <2>16, <2>17, <2>18 DEF Kept, Sound
<1>7. \/ WriteFails(f) /\ GiveUp({request.client_fd, f}) /\ Continue(2, active)
      \/ /\ reply' = Sent(f, cells) /\ file' = Asked(f, cells)
         /\ reg' = [reg EXCEPT ![f] = active]
         /\ Becomes(r)
         /\ UNCHANGED <<given, sent, recvd, eof, rst, conn, backlog, wreg, lready>>
         /\ Continue(2, active)
  BY <1>2, <1>5 DEF SendRequest
<1> QED BY <1>4, <1>6, <1>7

(* The answer overwrites a buffer that has been cleared.                    *)
LEMMA AnswerRead ==
    ASSUME NEW buf, Len(buf) = 2, NEW c
    PROVE  Put(buf, 0, AnswerTo(c)) = AnswerTo(c) /\ Len(AnswerTo(c)) = 2 /\ AnswerTo(c) # <<>>
<1> DEFINE x == <<c, "answer">>
           y == <<c, "rest">>
<1>1. AnswerTo(c) = <<x, y>>
  BY DEF AnswerTo
<1> HIDE DEF x, y
<1>2. Put(buf, 0, <<x, y>>) = [i \in 1 .. 2 |-> IF i = 1 THEN x ELSE y]
  <2>1. Len(<<x, y>>) = 2 /\ <<x, y>>[1] = x /\ <<x, y>>[2] = y
    OBVIOUS
  <2>2. 1 .. 2 = 0 + 1 .. 0 + 2
    OBVIOUS
  <2>3. Put(buf, 0, <<x, y>>) = [i \in 1 .. 2 |->
                                   IF i \in 0 + 1 .. 0 + 2 THEN <<x, y>>[i - 0]
                                   ELSE IF i <= 2 THEN buf[i] ELSE None]
    BY <2>1 DEF Put
  <2>4. \A i \in 1 .. 2 : <<x, y>>[i - 0] = IF i = 1 THEN x ELSE y
    BY <2>1
  <2> QED BY <2>3, <2>4
<1>3. [i \in 1 .. 2 |-> IF i = 1 THEN x ELSE y] = <<x, y>>
  OBVIOUS
<1> QED BY <1>1, <1>2, <1>3

(* The connections of the request are what they were, but for what has been *)
(* read of them or asked, and for the other epoll instance.                 *)
LEMMA SameFds ==
    ASSUME Tidy, Kept, Calmer, pc \in {"read_response", "send_response"},
           NEW b, b = active, NEW d, d = mem[b].client_fd, NEW f, f = mem[b].server_fd,
           NEW r \in RequestType, Becomes(r), active' = b, batch' = batch,
           r.client_fd = d, r.server_fd = f, r.current_state \in 2 .. 3,
           r.current_state = 3 => kind[Client(b)] = "big" \/ pc' = "send_response",
           \A g \in Fds : /\ file'[g].type = file[g].type /\ file'[g].of = file[g].of
                          /\ file'[g].st = file[g].st,
           \A g \in Fds \ {f} : file'[g] = file[g],
           UNCHANGED <<reg, recvd>>,
           \A g \in wreg' : g \in wreg \/ (g = d /\ r.current_state = 3),
           r.current_state = 2 => State(b) = 2
    PROVE  /\ \A g \in Fds : HeldBy(g)'
           /\ \A a \in Blocks : Holds(a)' /\ Unheld(a)'
           /\ \A a \in Blocks \ {b} : Content(a)'
           /\ EventsSound' /\ Client(b)' = Client(b)
           /\ mem'[b] = r /\ heap'[b] = "live" /\ State(b)' = r.current_state /\ Live(b)'
<1>1. pc \in DOMAIN StateOf /\ StateOf[pc] \in 2 .. 3
  BY DEF StateOf
<1> DEFINE c == Client(b)
<1>2. /\ Sound /\ b \in Blocks /\ b # None /\ request = mem[b] /\ Live(b) /\ State(b) \in 2 .. 3
      /\ d \in Fds /\ file[d].type = "client" /\ reg[d] = b /\ c = file[d].of /\ conn[c] = "open"
      /\ c \in Clients
  BY <1>1, Handled
<1>3. f \in Fds /\ file[f].type = "server" /\ file[f].of = c /\ f # d /\ reg[f] = b
  BY <1>2, HandledServer
<1> HIDE DEF c
<1>4. /\ \A g \in Fds \ {d, f} : HeldBy(g)'
      /\ \A a \in Blocks \ {b} : Holds(a)' /\ Unheld(a)' /\ Content(a)'
      /\ EventsSound' /\ Unheld(b)'
      /\ mem'[b] = r /\ heap'[b] = "live" /\ State(b)' = r.current_state /\ Live(b)'
  <2> DEFINE G == {d, f}
  <2>1. mem[b].client_fd \in G /\ (State(b) \in 1 .. 3 => mem[b].server_fd \in G)
    OBVIOUS
  <2>2. \A g \in Fds \cap G : g = mem[b].client_fd \/ (State(b) \in 1 .. 3 /\ g = mem[b].server_fd)
    BY <1>2
  <2>3. \A g \in Fds \ G : file'[g] = file[g] /\ reg'[g] = reg[g] /\ (g \in wreg' => g \in wreg)
    OBVIOUS
  <2>4. active' \in {b, None} /\ \A e \in Clients : recvd'[e] = recvd[e] \/ e = Client(b)
    OBVIOUS
  <2> HIDE DEF G
  <2>5. /\ \A g \in Fds \ G : HeldBy(g)'
        /\ \A a \in Blocks \ {b} : Holds(a)' /\ Unheld(a)' /\ Content(a)'
        /\ EventsSound' /\ Unheld(b)'
        /\ mem'[b] = r /\ heap'[b] = "live" /\ State(b)' = r.current_state
        /\ Live(b)' <=> r.current_state # 4
    BY <1>1, <2>1, <2>2, <2>3, <2>4, BusySound
  <2> QED BY <2>5 DEF G
<1>5. kind' = kind /\ conn'[c] # "none"
  BY <1>2 DEF Calmer, given
<1>6. HeldBy(d)'
  <2>1. d \in wreg' => State(b)' = 3
    BY <1>2, <1>4 DEF Sound, HeldBy
  <2>2. file'[d] = file[d] /\ reg'[d] = b /\ mem'[b].client_fd = d /\ HeldBy(d)
    BY <1>2, <1>3, <1>4 DEF Sound
  <2> QED BY <1>2, <1>4, <1>5, <2>1, <2>2 DEF HeldBy
<1>7. HeldBy(f)'
  <2>1. file'[f].type = "server" /\ file'[f].of = c /\ file'[f].st = file[f].st
    BY <1>3
  <2>2. mem'[b].server_fd = f /\ reg'[f] = b /\ State(b)' \in 2 .. 3
    BY <1>3, <1>4
  <2>3. file[f].st = "reset" => kind[c] = "serverresets"
    BY <1>2, <1>3 DEF Sound, HeldBy
  <2> QED BY <1>2, <1>4, <1>5, <2>1, <2>2, <2>3 DEF HeldBy
<1>8. Client(b)' = Client(b)
  BY <1>2, <1>3, <1>4 DEF Client, c
<1>9. Holds(b)'
  <2>1. mem'[b].client_fd = d /\ file'[d].type = "client" /\ reg'[d] = b
    BY <1>2, <1>3, <1>4
  <2>2. mem'[b].server_fd = f /\ file'[f].type = "server" /\ reg'[f] = b /\ file'[f].of = c
    BY <1>3, <1>4
  <2>3. State(b)' = 3 => kind'[c] = "big" \/ (active' = b /\ pc' = "send_response")
    BY <1>4, <1>5 DEF c
  <2>4. State(b)' \in 2 .. 3
    BY <1>4
  <2> QED BY <1>2, <1>3, <1>8, <2>1, <2>2, <2>3, <2>4 DEF Holds, Wild, c
<1> QED BY <1>4, <1>6, <1>7, <1>8, <1>9

LEMMA ReadResponseKept ==
    ASSUME Tidy, Kept, Calm, ReadResponse,
           NEW b, b = active, NEW c, c = Client(b), NEW d, d = mem[b].client_fd,
           NEW f, f = mem[b].server_fd
    PROVE  Kept'
<1> DEFINE in == Input(f)
           new == Put(request.read_buffer, request.read_bytes_server, in.cells)
           count == Count(request.read_bytes_server, in.cells)
           r == [request EXCEPT !.read_buffer = new, !.read_bytes_server = count]
           total == request.read_bytes_server
           t == [request EXCEPT !.total_write_amount = total, !.current_state = 3]
<1>1. /\ pc = "read_response" /\ pc \in DOMAIN StateOf /\ StateOf[pc] = 2 /\ batch' = batch
  BY DEF ReadResponse, StateOf
<1>2. /\ Alive /\ Sound /\ b \in Blocks /\ b # None /\ request = mem[b]
      /\ request.client_fd = d /\ request.server_fd = f
      /\ Live(b) /\ heap[b] = "live" /\ State(b) = 2
      /\ d \in Fds /\ file[d].type = "client" /\ reg[d] = b /\ c = file[d].of
      /\ c \in Clients /\ conn[c] = "open"
  BY <1>1, Handled
<1>3. f \in Fds /\ file[f].type = "server" /\ file[f].of = c /\ f # d /\ reg[f] = b /\ recvd[c] = 2
  <2>1. pc \in {"send_request", "read_response", "send_response"}
    BY <1>1
  <2>2. /\ f \in Fds /\ file[f].type = "server"
        /\ file[f].of = Client(b) /\ f # mem[b].client_fd
        /\ reg[f] = IF State(b) = 1 THEN None ELSE b
        /\ recvd[Client(b)] = 2
    BY <2>1, HandledServer
  <2>3. State(b) # 1
    BY <1>2
  <2> QED BY <1>2, <2>2, <2>3
<1>4. /\ in.eof <=> file[f].st = "closed"
      /\ in.error <=> file[f].st = "reset"
      /\ in.cells \in Seq(Cells)
      /\ in.cells = IF file[f].st \in {"answered", "closed"} /\ ~file[f].got
                    THEN AnswerTo(c) ELSE <<>>
  BY <1>3, FromServer
<1>5. /\ request \in RequestType /\ request.read_buffer \in Seq(Cells)
      /\ request.read_bytes_server \in Nat /\ request.written_bytes_client = 0
      /\ file[f].got => request.read_bytes_server = 2 /\ request.read_buffer = AnswerTo(c)
      /\ ~file[f].got => request.read_bytes_server = 0 /\ Len(request.read_buffer) = 2
  <2>1. Content(b) /\ State(b) \in 1 .. 2
    BY <1>2 DEF Sound
  <2> QED BY <1>1, <1>2, <2>1, ActiveTyped DEF Content
<1>6. UNCHANGED given /\ UNCHANGED <<conn, reply, reg>> /\ recvd' = recvd /\ Calmer =>
        Replied' /\ Unread'
  BY <1>2, RepliedStays DEF Kept, Sound, Unread
<1>7. CASE in.cells # <<>>
  <2>1. /\ Taken(f) /\ Becomes(r)
        /\ UNCHANGED <<given, sent, eof, rst, conn, backlog, reply, reg, wreg, ready, lready,
                       pc, active>>
    BY <1>2, <1>7 DEF ReadResponse
  <2>2. file[f].st \in {"answered", "closed"} /\ ~file[f].got /\ in.cells = AnswerTo(c)
    BY <1>4, <1>7
  <2>3. new = AnswerTo(c) /\ count = 2
    <3>1. request.read_bytes_server = 0 /\ Len(request.read_buffer) = 2
      BY <1>5, <2>2
    <3>2. Put(request.read_buffer, 0, AnswerTo(c)) = AnswerTo(c) /\ Len(AnswerTo(c)) = 2
      BY <3>1, AnswerRead
    <3> HIDE DEF in
    <3> QED BY <2>2, <3>1, <3>2 DEF Count
  <2>4. recvd' = recvd /\ file' = [file EXCEPT ![f].got = TRUE]
    BY <1>3, <2>1, <2>2 DEF Taken, FileOf
  <2>5. /\ file'[f].got /\ \A g \in Fds \ {f} : file'[g] = file[g]
        /\ \A g \in Fds : file'[g].type = file[g].type /\ file'[g].of = file[g].of
                          /\ file'[g].st = file[g].st
    <3> DEFINE yes == TRUE
    <3>1. yes /\ file' = [file EXCEPT ![f].got = yes]
      BY <2>4
    <3> HIDE DEF yes
    <3>2. file[f] \in FileType /\ file \in [Fds -> FileType]
      BY <1>3 DEF Tidy, KernelTyped
    <3>3. file'[f] = [file[f] EXCEPT !.got = yes] /\ \A g \in Fds \ {f} : file'[g] = file[g]
      BY <1>3, <3>1, <3>2
    <3>4. file'[f].got = yes /\ file'[f].type = file[f].type /\ file'[f].of = file[f].of
          /\ file'[f].st = file[f].st
      BY <3>2, <3>3 DEF FileType
    <3> QED BY <3>1, <3>3, <3>4
  <2>6. new \in Seq(Cells) /\ count \in Nat
    <3> HIDE DEF new, count, in
    <3>1. AnswerTo(c) \in Seq(Cells)
      BY <1>4, <2>2
    <3> QED BY <2>3, <3>1
  <2> HIDE DEF new, count, in
  <2>7. /\ r \in RequestType /\ r.current_state = 2 /\ r.client_fd = d /\ r.server_fd = f
        /\ r.read_buffer = new /\ r.read_bytes_server = count /\ r.written_bytes_client = 0
    BY <1>2, <1>5, <2>6 DEF RequestType, State
  <2> HIDE DEF r
  <2>8. Calmer
    BY <2>1 DEF Calmer
  <2>9. /\ \A g \in Fds : HeldBy(g)'
        /\ \A a \in Blocks : Holds(a)' /\ Unheld(a)'
        /\ \A a \in Blocks \ {b} : Content(a)'
        /\ EventsSound' /\ Client(b)' = Client(b)
        /\ mem'[b] = r /\ heap'[b] = "live" /\ State(b)' = r.current_state /\ Live(b)'
    <3>1. /\ pc \in {"read_response", "send_response"} /\ active' = b /\ UNCHANGED <<reg, recvd>>
          /\ \A g \in wreg' : g \in wreg \/ (g = d /\ r.current_state = 3)
      BY <1>1, <2>1, <2>4
    <3>2. r.current_state \in 2 .. 3 /\ r.current_state # 3
      BY <2>7
    <3>3. Becomes(r) /\ batch' = batch /\ State(b) = 2
      BY <1>1, <1>2, <2>1
    <3> QED BY <2>5, <2>7, <2>8, <3>1, <3>2, <3>3, SameFds
  <2>10. Content(b)'
    <3>1. mem'[b].server_fd = f /\ file'[f].got /\ mem'[b].written_bytes_client = 0
          /\ mem'[b].read_bytes_server = 2 /\ mem'[b].read_buffer = AnswerTo(c)
      BY <2>3, <2>5, <2>7, <2>9
    <3>2. recvd'[c] = 2
      BY <1>3, <2>4
    <3>3. Client(b)' = c /\ State(b)' = 2
      BY <2>7, <2>9
    <3> QED BY <3>1, <3>2, <3>3 DEF Content
  <2>11. Replied' /\ Unread'
    BY <1>6, <2>1, <2>4, <2>8
  <2>12. InStep' /\ Causes'
    BY <1>1, <1>2, <2>1, <2>7, <2>9 DEF InStep, StateOf, Causes
  <2> QED BY <2>9, <2>10, <2>11, <2>12 DEF Kept, Sound
<1>8. CASE in.error /\ GiveUp({request.client_fd}) /\ Continue(3, active)
  <2>1. file[f].st = "reset" /\ ~Ample
    BY <1>2, <1>3, <1>4, <1>8, NoServerReset DEF Sound
  <2>2. /\ mem[b].client_fd \in {request.client_fd}
        /\ \A g \in Fds \cap {request.client_fd} : g = mem[b].client_fd
    BY <1>2
  <2> QED BY <1>1, <1>2, <1>8, <2>1, <2>2, GiveUpKept
<1>9. CanAdd(request.client_fd, wreg)
  <2>1. d \notin wreg
    BY <1>2 DEF Sound, HeldBy
  <2> QED BY <1>2, <2>1 DEF CanAdd, FileOf
<1>10. CASE /\ in.cells = <<>> /\ in.eof
            /\ wreg' = wreg \cup {request.client_fd}
            /\ Becomes(t)
            /\ UNCHANGED <<peers, file, reg, ready, lready>>
            /\ Continue(3, active)
  <2>1. file[f].got
    BY <1>4, <1>10, AnswerRead, <1>5
  <2>2. total = 2 /\ request.read_buffer = AnswerTo(c)
    BY <1>5, <2>1
  <2>3. t \in RequestType
    <3>1. 3 \in 0 .. Wild /\ total \in Nat
      BY <1>5 DEF Wild
    <3> HIDE DEF total
    <3> QED BY <1>5, <3>1, AnsweredTyped
  <2> HIDE DEF total
  <2>4. /\ t.current_state = 3 /\ t.client_fd = d /\ t.server_fd = f
        /\ t.read_buffer = AnswerTo(c) /\ t.total_write_amount = 2 /\ t.written_bytes_client = 0
    BY <1>2, <1>5, <2>2 DEF RequestType
  <2> HIDE DEF t
  <2>5. Calmer
    BY <1>10 DEF Calmer, peers
  <2>6. mem'[b] = t /\ heap'[b] = "live"
    BY <1>2, <1>10 DEF Becomes, Tidy, ProcessTyped
  <2>7. pc' = "send_response" /\ active' = b
    <3>1. heap'[b] # "unmapped" /\ mem'[b].current_state = 3
      BY <2>4, <2>6
    <3> QED BY <1>2, <1>10, <3>1, StepNames DEF Continue
  <2>8. /\ \A g \in Fds : HeldBy(g)'
        /\ \A a \in Blocks : Holds(a)' /\ Unheld(a)'
        /\ \A a \in Blocks \ {b} : Content(a)'
        /\ EventsSound' /\ Client(b)' = Client(b)
        /\ mem'[b] = t /\ heap'[b] = "live" /\ State(b)' = t.current_state /\ Live(b)'
    <3>1. /\ pc \in {"read_response", "send_response"} /\ UNCHANGED <<reg, recvd>>
          /\ \A g \in wreg' : g \in wreg \/ (g = d /\ t.current_state = 3)
      BY <1>1, <1>2, <1>10, <2>4 DEF peers
    <3>2. t.current_state \in 2 .. 3 /\ t.current_state # 2
      BY <2>4
    <3>3. /\ \A g \in Fds : file'[g].type = file[g].type /\ file'[g].of = file[g].of
                            /\ file'[g].st = file[g].st
          /\ \A g \in Fds \ {f} : file'[g] = file[g]
      BY <1>10
    <3> QED BY <1>1, <1>10, <2>3, <2>4, <2>5, <2>7, <3>1, <3>2, <3>3, SameFds
  <2>9. Content(b)'
    <3>1. mem'[b].total_write_amount = 2 /\ mem'[b].read_buffer = AnswerTo(c)
          /\ mem'[b].written_bytes_client = 0
      BY <2>4, <2>8
    <3>2. recvd'[c] = 2
      BY <1>3, <1>10 DEF peers
    <3>3. Client(b)' = c /\ State(b)' = 3
      BY <2>4, <2>8
    <3> QED BY <3>1, <3>2, <3>3 DEF Content
  <2>10. Replied' /\ Unread'
    BY <1>6, <1>10, <2>5 DEF peers
  <2>11. InStep' /\ Causes'
    BY <1>2, <2>4, <2>7, <2>8 DEF InStep, StateOf, Causes
  <2> QED BY <2>8, <2>9, <2>10, <2>11 DEF Kept, Sound
<1>11. CASE UNCHANGED <<peers, kernel, mem, heap>> /\ Continue(3, active)
  BY <1>1, <1>2, <1>11, PauseKept
<1> QED BY <1>2, <1>7, <1>8, <1>9, <1>10, <1>11 DEF ReadResponse

(* What is written of the answer to a client.                               *)
LEMMA AnswerCut ==
    ASSUME NEW c \in Clients, NEW w \in Nat, NEW n \in 1 .. 2
    PROVE  /\ AnswerTo(c) \in Seq(Cells) /\ Cut(AnswerTo(c), w, n) \in Seq(Cells)
           /\ Range(Cut(AnswerTo(c), w, n)) \subseteq Range(AnswerTo(c)) \cup {None}
           /\ w = 0 /\ n = 2 => Cut(AnswerTo(c), w, n) = AnswerTo(c)
<1> DEFINE x == <<c, "answer">>
           y == <<c, "rest">>
<1>1. AnswerTo(c) = <<x, y>> /\ x \in Cells /\ y \in Cells
  BY DEF AnswerTo, Cells
<1> HIDE DEF x, y
<1>2. AnswerTo(c) \in Seq(Cells) /\ Len(AnswerTo(c)) = 2 /\ AnswerTo(c)[1] = x /\ AnswerTo(c)[2] = y
      /\ DOMAIN AnswerTo(c) = 1 .. 2
  BY <1>1
<1>3. Cut(AnswerTo(c), w, n) \in Seq(Cells)
  <2> DEFINE a == AnswerTo(c)
  <2>1. a \in Seq(Cells) /\ n \in Nat
    BY <1>2
  <2> HIDE DEF a
  <2>2. Cut(a, w, n) \in Seq(Cells)
    BY <2>1, CutTyped
  <2> QED BY <2>2 DEF a
<1>4. Cut(AnswerTo(c), w, n) = [i \in 1 .. n |-> IF w + i <= 2 THEN AnswerTo(c)[w + i] ELSE None]
  BY <1>2 DEF Cut
<1>5. ASSUME NEW i \in 1 .. n
      PROVE  (IF w + i <= 2 THEN AnswerTo(c)[w + i] ELSE None) \in Range(AnswerTo(c)) \cup {None}
  <2>1. CASE w + i <= 2
    <3>1. w + i \in DOMAIN AnswerTo(c)
      BY <1>2, <2>1
    <3> QED BY <2>1, <3>1 DEF Range
  <2>2. CASE ~(w + i <= 2)
    BY <2>2
  <2> QED BY <2>1, <2>2
<1>6. Range(Cut(AnswerTo(c), w, n)) \subseteq Range(AnswerTo(c)) \cup {None}
  <2> SUFFICES ASSUME NEW v \in Range(Cut(AnswerTo(c), w, n))
               PROVE  v \in Range(AnswerTo(c)) \cup {None}
    OBVIOUS
  <2>1. PICK i \in 1 .. n : v = IF w + i <= 2 THEN AnswerTo(c)[w + i] ELSE None
    BY <1>4 DEF Range
  <2> QED BY <1>5, <2>1
<1>7. ASSUME w = 0, n = 2 PROVE Cut(AnswerTo(c), w, n) = AnswerTo(c)
  <2>1. Cut(AnswerTo(c), w, n) = [i \in 1 .. 2 |-> IF i = 1 THEN x ELSE y]
    <3>1. \A i \in 1 .. 2 : (IF 0 + i <= 2 THEN AnswerTo(c)[0 + i] ELSE None) = IF i = 1 THEN x ELSE y
      BY <1>2
    <3> QED BY <1>4, <1>7, <3>1
  <2>2. [i \in 1 .. 2 |-> IF i = 1 THEN x ELSE y] = <<x, y>>
    OBVIOUS
  <2> QED BY <1>1, <2>1, <2>2
<1> QED BY <1>2, <1>3, <1>6, <1>7

LEMMA AnswerSent ==
    ASSUME Tidy, Replied, NEW d \in Fds, file[d].type = "client", NEW c, c = file[d].of,
           NEW w \in Nat, NEW n \in 1 .. 2, reply' = Sent(d, Cut(AnswerTo(c), w, n)),
           UNCHANGED given, \A e \in Clients : conn[e] = "closed" => conn'[e] = "closed",
           kind[c] # "big" => w = 0 /\ n = 2 /\ conn'[c] = "closed"
    PROVE  Replied'
<1> DEFINE cells == Cut(AnswerTo(c), w, n)
<1>1. c \in Clients /\ conn[c] = "open" /\ d \in FdsOf(c) /\ \A e \in Clients \ {c} : d \notin FdsOf(e)
  BY DEF Tidy, KernelTyped, OneConnection, FdsOf
<1>2. /\ cells \in Seq(Cells) /\ AnswerTo(c) \in Seq(Cells)
      /\ Range(cells) \subseteq Range(AnswerTo(c)) \cup {None}
      /\ w = 0 /\ n = 2 => cells = AnswerTo(c)
  BY <1>1, AnswerCut
<1>r. reply' = Sent(d, cells)
  OBVIOUS
<1> HIDE DEF cells
<1>3. reply'[c] = reply[c] \o cells /\ \A e \in Clients \ {c} : reply'[e] = reply[e]
  <2>1. reply' = [e \in Clients |-> IF d \in FdsOf(e) THEN reply[e] \o cells ELSE reply[e]]
    BY <1>r DEF Sent
  <2> HIDE DEF cells
  <2>2. \A e \in Clients : reply'[e] = IF d \in FdsOf(e) THEN reply[e] \o cells ELSE reply[e]
    BY <2>1
  <2> QED BY <1>1, <2>2
<1>4. reply[c] \in Seq(Cells)
  BY <1>1 DEF Tidy, PeersTyped
<1>5. kind' = kind
  BY DEF given
<1>6. CASE kind[c] = "big"
  <2>1. Range(reply[c]) \subseteq Range(AnswerTo(c)) \cup {None}
    BY <1>1, <1>6 DEF Replied
  <2>2. Range(reply[c] \o cells) \subseteq Range(reply[c]) \cup Range(cells)
    <3> SUFFICES ASSUME NEW i \in DOMAIN (reply[c] \o cells)
                 PROVE  (reply[c] \o cells)[i] \in Range(reply[c]) \cup Range(cells)
      BY DEF Range
    <3>1. /\ Len(reply[c]) \in Nat /\ Len(cells) \in Nat /\ i \in 1 .. Len(reply[c]) + Len(cells)
          /\ (reply[c] \o cells)[i] = IF i <= Len(reply[c]) THEN reply[c][i]
                                      ELSE cells[i - Len(reply[c])]
      BY <1>2, <1>4, ConcatProperties, LenProperties
    <3>2. CASE i <= Len(reply[c])
      <4>1. i \in DOMAIN reply[c]
        BY <1>4, <3>1, <3>2
      <4> QED BY <3>1, <3>2, <4>1 DEF Range
    <3>3. CASE ~(i <= Len(reply[c]))
      <4>1. i - Len(reply[c]) \in DOMAIN cells
        BY <1>2, <3>1, <3>3
      <4> QED BY <3>1, <3>3, <4>1 DEF Range
    <3> QED BY <3>2, <3>3
  <2> QED BY <1>2, <1>3, <1>5, <1>6, <2>1, <2>2 DEF Replied
<1>7. CASE kind[c] # "big"
  <2>1. reply[c] = <<>>
    BY <1>1, <1>7 DEF Replied
  <2>2. <<>> \o cells = cells /\ cells = AnswerTo(c)
    BY <1>2, <1>7
  <2>3. reply'[c] = AnswerTo(c) /\ conn'[c] = "closed"
    BY <1>3, <1>7, <2>1, <2>2
  <2> QED BY <1>3, <1>5, <1>7, <2>3 DEF Replied
<1> QED BY <1>6, <1>7

LEMMA SendResponseKept ==
    ASSUME Tidy, Kept, Calm, SendResponse,
           NEW b, b = active, NEW c, c = Client(b), NEW d, d = mem[b].client_fd,
           NEW f, f = mem[b].server_fd
    PROVE  Kept'
<1>1. /\ pc = "send_response" /\ pc \in DOMAIN StateOf /\ StateOf[pc] = 3 /\ batch' = batch
  BY DEF SendResponse, StateOf
<1>2. /\ Alive /\ Sound /\ b \in Blocks /\ b # None /\ request = mem[b]
      /\ request.client_fd = d /\ request.server_fd = f
      /\ Live(b) /\ heap[b] = "live" /\ State(b) = 3
      /\ d \in Fds /\ file[d].type = "client" /\ reg[d] = b /\ c = file[d].of
      /\ c \in Clients /\ conn[c] = "open" /\ \A e \in batch : e.ptr # b
  BY <1>1, Handled
<1>3. f \in Fds /\ file[f].type = "server" /\ f # d /\ recvd[c] = 2
  <2>1. pc \in {"send_request", "read_response", "send_response"}
    BY <1>1
  <2>2. /\ f \in Fds /\ file[f].type = "server" /\ f # mem[b].client_fd /\ recvd[Client(b)] = 2
    BY <2>1, HandledServer
  <2> QED BY <1>2, <2>2
<1>4. /\ request \in RequestType /\ request.written_bytes_client \in Nat
      /\ request.total_write_amount = 2 /\ request.read_buffer = AnswerTo(c)
      /\ kind[c] # "big" => request.written_bytes_client = 0
  <2>1. Content(b)
    BY <1>2 DEF Sound
  <2> QED BY <1>1, <1>2, <2>1, ActiveTyped DEF Content
<1>5. ~WriteFails(d)
  <2>1. ~Input(d).error
    BY <1>2, ClientInput, NoReset
  <2> QED BY <1>2, <2>1 DEF WriteFails, FileOf
<1>6. (\E e \in Clients : d \in FdsOf(e) /\ kind[e] = "big") <=> kind[c] = "big"
  BY <1>2 DEF FdsOf
<1>7. CASE kind[c] = "big" /\ UNCHANGED <<peers, kernel, mem, heap>> /\ Continue(4, active)
  <2>1. UNCHANGED <<peers, kernel, mem, heap>> /\ Continue(4, active) /\ 4 \in 1 .. 4 /\ 4 > State(b)
    BY <1>2, <1>7
  <2>2. State(b) = 3 /\ kind[Client(b)] = "big"
    BY <1>2, <1>7
  <2> QED BY <1>1, <1>2, <2>1, <2>2, PauseKept
<1>8. ASSUME NEW n \in 0 .. 2, NEW m, m = request.written_bytes_client + n,
             n = 2 \/ (n > 0 /\ kind[c] = "big"),
             reply' = Sent(d, Cut(request.read_buffer, request.written_bytes_client, n)),
             IF m >= 2
             THEN Finish(m) /\ Continue(4, active)
             ELSE /\ Becomes([request EXCEPT !.written_bytes_client = m])
                  /\ UNCHANGED <<conn, file, reg, wreg, ready, pc, active>>,
             UNCHANGED <<given, sent, recvd, eof, rst, backlog, lready>>
      PROVE  Kept'
  <2>1. n \in 1 .. 2 /\ m \in Nat
    BY <1>4, <1>8
  <2>2. CASE m >= 2
    <3> DEFINE r == [request EXCEPT !.written_bytes_client = m, !.current_state = 4]
    <3>1. CloseFds({d, f}) /\ Becomes(r) /\ Continue(4, active)
      BY <1>2, <1>8, <2>2 DEF Finish
    <3>2. r.current_state = 4
      BY <1>4 DEF RequestType
    <3> HIDE DEF r
    <3>3. /\ mem'[b] = r /\ heap' = heap /\ \A a \in Blocks \ {b} : mem'[a] = mem[a]
      BY <1>2, <3>1 DEF Becomes, Tidy, ProcessTyped
    <3>4. pc' = "event" /\ active' = None
      <4>1. heap'[b] # "unmapped" /\ mem'[b].current_state = 4
        BY <1>2, <3>2, <3>3
      <4> QED BY <1>2, <3>1, <4>1 DEF Continue
    <3>5. /\ \A g \in Fds : HeldBy(g)'
          /\ \A a \in Blocks : Holds(a)' /\ Unheld(a)' /\ Content(a)'
          /\ EventsSound' /\ Unread'
      <4>1. ~Live(b)' /\ Unheld(b)'
        BY <1>2, <3>2, <3>3 DEF Live, Unheld
      <4>2. /\ mem[b].client_fd \in {d, f} /\ mem[b].server_fd \in {d, f}
            /\ \A g \in Fds \cap {d, f} : g = mem[b].client_fd \/ (State(b) \in 1 .. 3 /\ g = mem[b].server_fd)
        BY <1>2
      <4>3. State(b) # Wild
        BY <1>2 DEF Wild
      <4>4. UNCHANGED <<given, recvd>> /\ UNCHANGED lready
        BY <1>8
      <4>5. \A a \in Blocks \ {b} : mem'[a] = mem[a] /\ heap'[a] = heap[a]
        BY <3>3
      <4>6. batch' \subseteq batch /\ \A e \in batch' : e.ptr # b
        BY <1>1, <1>2
      <4> QED BY <1>2, <3>1, <3>4, <4>1, <4>2, <4>3, <4>4, <4>5, <4>6, ClosedSound
    <3>6. InStep' /\ Causes'
      BY <3>4 DEF InStep, StateOf, Causes
    <3>7. conn'[c] = "closed" /\ \A e \in Clients : conn[e] = "closed" => conn'[e] = "closed"
      <4>1. d \in FdsOf(c) \cap {d, f}
        BY <1>2 DEF FdsOf
      <4> QED BY <1>2, <3>1, <4>1, CloseTyped, <1>8 DEF CloseFds
    <3>8. Replied'
      BY <1>2, <1>4, <1>8, <2>1, <3>7, AnswerSent DEF Kept
    <3> QED BY <3>5, <3>6, <3>8 DEF Kept, Sound
  <2>3. CASE ~(m >= 2)
    <3> DEFINE r == [request EXCEPT !.written_bytes_client = m]
    <3>1. Becomes(r) /\ UNCHANGED <<conn, file, reg, wreg, ready, pc, active>>
      BY <1>8, <2>3
    <3>2. kind[c] = "big"
      BY <1>4, <1>8, <2>1, <2>3
    <3>3. r \in RequestType
      BY <1>4, <2>1, WrittenTyped
    <3>4. /\ r.current_state = 3 /\ r.client_fd = d /\ r.server_fd = f
          /\ r.total_write_amount = 2 /\ r.read_buffer = AnswerTo(c)
      BY <1>2, <1>4 DEF RequestType, State
    <3> HIDE DEF r
    <3>5. Calmer
      BY <1>8, <3>1 DEF Calmer
    <3>6. /\ \A g \in Fds : HeldBy(g)'
          /\ \A a \in Blocks : Holds(a)' /\ Unheld(a)'
          /\ \A a \in Blocks \ {b} : Content(a)'
          /\ EventsSound' /\ Client(b)' = Client(b)
          /\ mem'[b] = r /\ heap'[b] = "live" /\ State(b)' = r.current_state /\ Live(b)'
      <4>1. /\ pc \in {"read_response", "send_response"} /\ UNCHANGED <<reg, recvd>>
            /\ \A g \in wreg' : g \in wreg \/ (g = d /\ r.current_state = 3)
        BY <1>1, <1>8, <3>1
      <4>2. /\ \A g \in Fds : file'[g].type = file[g].type /\ file'[g].of = file[g].of
                              /\ file'[g].st = file[g].st
            /\ \A g \in Fds \ {f} : file'[g] = file[g]
        BY <3>1
      <4>3. /\ r.current_state \in 2 .. 3 /\ r.current_state # 2 /\ active' = b /\ batch' = batch
            /\ kind[Client(b)] = "big" /\ Becomes(r)
        BY <1>1, <3>1, <3>2, <3>4
      <4> QED BY <3>3, <3>4, <3>5, <4>1, <4>2, <4>3, SameFds
    <3>7. Content(b)'
      <4>1. mem'[b].total_write_amount = 2 /\ mem'[b].read_buffer = AnswerTo(c)
        BY <3>4, <3>6
      <4>2. recvd'[c] = 2 /\ kind'[c] = "big"
        BY <1>3, <1>8, <3>2 DEF given
      <4>3. Client(b)' = c /\ State(b)' = 3
        BY <3>4, <3>6
      <4> QED BY <4>1, <4>2, <4>3 DEF Content
    <3>8. Unread'
      BY <1>2, <1>8, <3>1 DEF Sound, Unread
    <3>9. InStep' /\ Causes'
      BY <1>1, <1>2, <3>1, <3>4, <3>6 DEF InStep, StateOf, Causes
    <3>10. Replied'
      BY <1>2, <1>4, <1>8, <2>1, <3>1, <3>2, AnswerSent DEF Kept
    <3> QED BY <3>6, <3>7, <3>8, <3>9, <3>10 DEF Kept, Sound
  <2> QED BY <2>2, <2>3
<1> QED BY <1>2, <1>4, <1>5, <1>6, <1>7, <1>8 DEF SendResponse

-----------------------------------------------------------------------------
(* No client's connection is taken back, and the clients and the system     *)
(* stay what they are.                                                      *)
LEMMA CloseCalmer ==
    ASSUME NEW F, CloseFds(F)
    PROVE  \A c \in Clients : conn[c] # "none" => conn'[c] # "none"
BY DEF CloseFds

LEMMA AcceptCalmer ==
    ASSUME Tidy, Accept PROVE \A c \in Clients : conn[c] # "none" => conn'[c] # "none"
<1>1. conn \in [Clients -> {"none", "pending", "open", "closed"}]
  BY DEF Tidy, PeersTyped
<1>2. conn' = conn \/ conn' = [conn EXCEPT ![Head(backlog)] = "open"]
  BY DEF Accept, AcceptInto, peers
<1> QED BY <1>1, <1>2

LEMMA StepCalmer == ASSUME Tidy, [Next]_vars PROVE Calmer
<1> USE DEF peers, given
<1>1. conn \in [Clients -> {"none", "pending", "open", "closed"}]
  BY DEF Tidy, PeersTyped
<1> DEFINE Closes == \E F : CloseFds(F)
<1>2. Closes \/ conn' = conn => \A c \in Clients : conn[c] # "none" => conn'[c] # "none"
  BY CloseCalmer
<1>3. CASE UNCHANGED vars
  BY <1>3 DEF vars, Calmer
<1>4. CASE ProcessStep
  <2>1. UNCHANGED given
    BY <1>4 DEF ProcessStep, Wait, Timeout, HangUp, Dispatch, Accept, AcceptInto, ReadRequest, Open,
       SendRequest, ReadResponse, SendResponse, GiveUp
  <2>2. CASE Accept
    BY <2>1, <2>2, AcceptCalmer DEF Calmer
  <2>3. CASE Wait \/ Timeout \/ Dispatch
    BY <1>2, <2>1, <2>3 DEF Wait, Timeout, Dispatch, Calmer
  <2>4. CASE HangUp
    <3>1. Closes \/ conn' = conn
      BY <2>4 DEF HangUp
    <3> QED BY <1>2, <2>1, <3>1 DEF Calmer
  <2>5. CASE ReadRequest
    <3>1. Closes \/ conn' = conn
      BY <2>5 DEF ReadRequest, GiveUp
    <3> QED BY <1>2, <2>1, <3>1 DEF Calmer
  <2>6. CASE Open
    <3>1. Closes \/ conn' = conn
      BY <2>6 DEF Open, GiveUp
    <3> QED BY <1>2, <2>1, <3>1 DEF Calmer
  <2>7. CASE SendRequest
    <3>1. Closes \/ conn' = conn
      BY <2>7 DEF SendRequest, GiveUp
    <3> QED BY <1>2, <2>1, <3>1 DEF Calmer
  <2>8. CASE ReadResponse
    <3>1. Closes \/ conn' = conn
      BY <2>8 DEF ReadResponse, GiveUp
    <3> QED BY <1>2, <2>1, <3>1 DEF Calmer
  <2>9. CASE SendResponse
    <3>1. Closes \/ conn' = conn
      BY <2>9 DEF SendResponse, GiveUp, Finish
    <3> QED BY <1>2, <2>1, <3>1 DEF Calmer
  <2> QED BY <1>4, <2>2, <2>3, <2>4, <2>5, <2>6, <2>7, <2>8, <2>9 DEF ProcessStep
<1>5. CASE Signal
  BY <1>5 DEF Signal, Calmer
<1>6. ASSUME NEW c \in Clients, ClientConnect(c) PROVE Calmer
  BY <1>1, <1>6 DEF ClientConnect, Calmer
<1>7. ASSUME NEW c \in Clients, ClientSend(c) \/ ClientLeave(c) PROVE Calmer
  BY <1>7 DEF ClientSend, ClientLeave, Calmer
<1>8. ASSUME NEW f \in Fds, ServerStep(f) PROVE Calmer
  BY <1>8 DEF ServerStep, Calmer
<1> QED BY <1>3, <1>4, <1>5, <1>6, <1>7, <1>8 DEF Next

(* The initial states are sound, and every step from a calm one keeps them. *)
LEMMA InitKept == ASSUME Init PROVE Kept
<1> USE DEF Init
<1>1. \A f \in Fds : /\ file[f].type \in {"free", "stdin"} /\ file[f].st = "none"
                     /\ reg[f] = None /\ f \notin wreg
  BY DEF Closed
<1>2. \A f \in Fds : HeldBy(f)
  BY <1>1 DEF HeldBy
<1>3. \A b \in Blocks : ~Live(b) /\ Unheld(b)
  BY DEF Live, Unheld
<1>4. \A b \in Blocks : Holds(b) /\ Content(b)
  BY <1>3 DEF Holds, Content
<1>5. Unread /\ EventsSound /\ InStep
  BY DEF Unread, EventsSound, InStep, StateOf
<1>6. Replied
  <2>1. \A c \in Clients : reply[c] = <<>>
    OBVIOUS
  <2>2. Range(<<>>) = {}
    BY DEF Range
  <2> QED BY <2>1, <2>2 DEF Replied
<1>7. Causes
  BY DEF Causes
<1> QED BY <1>2, <1>3, <1>4, <1>5, <1>6, <1>7 DEF Kept, Sound

LEMMA StepKept == ASSUME Tidy, Kept, Calm, [Next]_vars PROVE Kept'
<1>1. CASE UNCHANGED vars \/ Timeout \/ Signal
  <2>1. /\ UNCHANGED <<peers, kernel, mem, heap, active, batch>>
        /\ pc' = pc \/ pc' = "stopped"
    BY <1>1 DEF Timeout, Signal, vars, process
  <2> QED BY <2>1, StopKept
<1>2. CASE ProcessStep
  BY <1>1, <1>2, WaitKept, HangUpKept, DispatchKept, AcceptKept, ReadRequestKept, OpenKept,
     SendRequestKept, ReadResponseKept, SendResponseKept DEF ProcessStep
<1>3. CASE \E c \in Clients : Alive /\ (ClientConnect(c) \/ ClientSend(c) \/ ClientLeave(c))
  BY <1>3, ConnectKept, SendKept, LeaveKept
<1>4. CASE \E f \in Fds : Alive /\ ServerStep(f)
  BY <1>4, ServerKept
<1> QED BY <1>1, <1>2, <1>3, <1>4 DEF Next

(* The inductive invariant: nothing is claimed of a state that is not calm. *)
CalmInv == Calm => Kept

LEMMA AlwaysKept == Spec => []CalmInv
<1>1. Init => CalmInv
  BY InitKept DEF CalmInv
<1>2. Tidy /\ CalmInv /\ [Next]_vars => CalmInv'
  <2> SUFFICES ASSUME Tidy, CalmInv, [Next]_vars, Calm' PROVE Kept'
    BY DEF CalmInv
  <2>1. Calm
    BY StepCalmer, StaysAmple
  <2>2. Kept
    BY <2>1 DEF CalmInv
  <2> QED BY <2>1, <2>2, StepKept
<1> QED BY <1>1, <1>2, AlwaysTidy, PTL DEF Spec

(* The prefixes of an answer that Replied leaves.                            *)
LEMMA PrefixOfPair ==
    ASSUME NEW x, NEW y
    PROVE  IsPrefix(<<>>, <<x, y>>) /\ IsPrefix(<<x, y>>, <<x, y>>)
<1> DEFINE a == <<x, y>>
<1>1. Len(a) = 2 /\ a \in Seq({x, y}) /\ Len(<<>>) = 0
  OBVIOUS
<1>2. a = [i \in 1 .. 2 |-> a[i]]
  OBVIOUS
<1> HIDE DEF a
<1>3. IsPrefix(<<>>, a)
  <2>1. SubSeq(a, 1, 0) = <<>>
    BY <1>1, SubSeqProperties
  <2>2. SubSeq(<<>>, 1, 0) = <<>>
    OBVIOUS
  <2> QED BY <1>1, <2>1, <2>2 DEF IsPrefix
<1>4. SubSeq(a, 1, 2) = a
  BY <1>1, <1>2
<1>5. IsPrefix(a, a)
  BY <1>1, <1>4 DEF IsPrefix
<1> QED BY <1>3, <1>5 DEF a

(* Whatever clients and servers do short of a client's reset, wherever the   *)
(* writes of an answer end and in whatever order events come, a client is    *)
(* sent its own answer from its beginning, once, and one whose answer takes  *)
(* several writes nothing that is somebody else's -- if malloc returns no    *)
(* request_info with its old contents.                                       *)
THEOREM AnswersIsolated == Spec => []Isolation
<1>1. CalmInv => Isolation
  <2> SUFFICES ASSUME CalmInv, "merged" \notin system.frees,
                      \A c \in Clients : kind[c] # "resets", NEW c \in Clients
               PROVE  IF kind[c] = "big" THEN Range(reply[c]) \subseteq Range(AnswerTo(c)) \cup {None}
                      ELSE IsPrefix(reply[c], AnswerTo(c))
    BY DEF Isolation
  <2>1. Replied
    BY DEF CalmInv, Calm, Kept
  <2>2. CASE kind[c] = "big"
    BY <2>1, <2>2 DEF Replied
  <2>3. CASE kind[c] # "big"
    <3>1. reply[c] = <<>> \/ reply[c] = AnswerTo(c)
      BY <2>1, <2>3 DEF Replied
    <3>2. IsPrefix(<<>>, AnswerTo(c)) /\ IsPrefix(AnswerTo(c), AnswerTo(c))
      BY PrefixOfPair DEF AnswerTo
    <3> QED BY <2>3, <3>1, <3>2
  <2> QED BY <2>2, <2>3
<1> QED BY <1>1, AlwaysKept, PTL

(* With descriptors enough and no request given up, the process neither      *)
(* crashes nor exits, and it hangs only when a client has shut down its side *)
(* before its request was complete and there is no more of it to receive.    *)
THEOREM StopsForCause == Spec => []StopCauses
<1>1. CalmInv => StopCauses
  BY DEF CalmInv, Calm, Ample, Kept, Causes, StopCauses
<1> QED BY <1>1, AlwaysKept, PTL
=============================================================================
