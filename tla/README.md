# CS 324 programs: a verification project

TLA+ models of the systems programs of this repository (C programs written for
a course on computer systems), checked with TLC, and theorems about them
checked with TLAPS. This file is the inventory of the repository, the
description of each module and of what is checked and proved, and the plan that
the project has followed.

## 1. The system

The repository is a collection of programs, most of them concurrent servers
and clients. They share three mechanisms: the process's descriptor table, the
bounded buffer `sbuf`, and the Rio package of buffered I/O.

| Part | State it keeps | Operations | Interacts with | What is hard | What makes it correct |
|---|---|---|---|---|---|
| **sbuf** (`hw-concurrency/sbuf.c`, pasted into the thread-pool proxy) | ring of n ints, `front`, `rear`, three semaphores | `sbuf_init`, `sbuf_insert`, `sbuf_remove` | any number of threads | interleaving, full and empty buffer, counters that are never reduced | it is an atomic bounded FIFO queue; no item is lost, duplicated or overwritten; nobody waits for ever |
| **thread-pool proxy** (`lab-proxy-threadpool/proxy.c`) | listening socket, sbuf, each worker's locals and stack buffer, the descriptor table | `main` accepts and inserts; each worker removes, reads a request, connects, forwards, returns the answer | clients, servers, the kernel's choice of descriptor numbers | descriptor numbers reused after close, buffers that are never cleared, clients that stop, servers that refuse or hang | each client is sent its own answer; descriptors neither leak nor are closed twice; other clients are served meanwhile |
| **event-driven proxy** (`lab-proxy-iomultiplex/proxy.c`) | a heap of `struct request_info`, two epoll instances, the descriptor table, `sig_flag` | the event loop, `handle_new_clients`, and the four states of `handle_client` | clients, servers, edge-triggered events, malloc and free, SIGINT | stale events of one batch, use after free, uninitialised requests, lost edges | as above; no edge is lost; a failed request costs no other one; SIGINT ends it |
| **tsh** (`lab-shell-pipeline/tsh.c`) | the pipe ends it holds, `pid[]`, each child's descriptors and process group | reading a line, parsing it, fork, the child's setpgid, redirection and exec, waitpid | its children, `myintgroup`, `myppid` | pipe ends that leak, group membership decided by a race, fork failing half-way, background jobs | pipelines end; the prompt comes after all of the job has been reaped; a signal to a job's group spares the shell |
| **signals and killer** (`hw-signals`) | `foo`, `block`, dispositions, mask, pending signals, one nested frame per handler | ten handlers, `sleep_block_loop`, ten scenarios | two processes with clocks of one second | nesting, blocking, ties between two sleeps, a mask that is never set | the output of each scenario is the one `driver.py` expects, and each ends |
| **treasure hunter** (`lab-socket-hunt`) | socket, remote address, nonce, treasure | one exchange per chunk, four op codes | a UDP server | lost, duplicated and late datagrams; nonce + 1 mod 2^32; a freed address list | the treasure is the server's chunks in order, or nothing is printed |
| **echo servers** (`hw-concurrency`) | connections, `byte_cnt`, threads or children | iterative, forking, threaded, pre-threaded | sbuf, Rio, SIGCHLD | one signal for several children; the shared counter; a descriptor handed to a thread | every line is echoed once, `byte_cnt` is the sum, children are reaped |
| **epoll echo server** (`lab-proxy-iomultiplex/echoserver-epoll`) | one record per connection | accept loop and echo loop | edge-triggered events | lost edges, partial sends | every byte is echoed |
| **tiny web server** (`lab-proxy-threadpool/tiny`) | one connection per child, forked CGI programs | `doit` and its helpers, `adder`, `slow`, `hello` | Rio, CGI programs | end of file in the headers, unreaped children, programs that fail half-way | each request is answered, with its own answer |
| **Rio** (`csapp.c`, three copies; partly) | internal buffer and two cursors | `rio_writen`, `rio_readlineb` (`rio_readn` and `rio_readnb` are used by no program) | read and write that return any number of bytes | short counts, end of file, lines longer than the buffer | lines come out as they went in |
| **TCP client and server** (`hw-sockets`) | one connection at a time | receive, send back, accept the next | each other | each waits for the other; descriptors are never closed | every byte is echoed |
| UDP client and server (`hw-sockets`), exercises (`hw1`, `hw3`) | little | straight-line exercises | | little | |
| drivers, logs, slides | | | | | not part of the programs: the properties quote what the drivers expect |

Parts in bold have modules.

`PROJECT.json` lists the same parts as components, with the hazards found in
each at the line where they bite.

## 2. Plan

Modules in the order in which they were, or are to be, written. Abstract
specifications and theorems are named where they are worth stating.

1. `BoundedFifo` - the abstract queue - and `Sbuf`, which implements it;
   `SbufProofs`. *Done.*
2. `PoolProxy`, composed with `BoundedFifo` in place of the semaphores;
   `PoolProofs`, with all its safety invariants proved. *Done.*
3. `EpollProxy`; `EpollProofs`, with all its safety invariants proved. *Done.*
4. `Tsh`; `TshProofs`, with all its safety invariants proved for every script
   and number of children. *Done.*
5. `Signals`: the ten handlers and the ten scenarios over a discrete clock in
   which sleeps that end in the same second end in any order. *Done,
   model-checked*: nothing in it is a parameter but the masks.
6. `TreasureHunt`: the server of the README and the client over a network that
   loses, duplicates and delays; `TreasureHuntProofs`, with `InOrder` and
   `PrintsWhole` proved. *Done.*
7. `Rio`, and over it `Conns` (connections and clients), the echo servers, of
   which `EchoPool` takes the queue of `BoundedFifo` for `sbuf.c`, and `Tiny`;
   `EchoProofs` and `TinyProofs`, with `EchoExact`, `DescriptorsOwned`,
   `CountExact`, `AnswersExact` and `HeadersRead` proved. *Done.*
8. `Induction`: the principle of induction that the proofs use where a value is
   built up step by step, and what follows of it about sums. *Done.*

Runs are kept few: one safety run (and one liveness run, where the sizes
differ) per component, and a violation run for the two disagreements between the
code and what the repository says of it that take several processes or threads to
show. What else was found on the way is stated in the properties' conditions and in
section 5.

## 3. Modules

### BoundedFifo, Sbuf, SbufProofs, MCSbuf

`BoundedFifo` is what `sbuf.c` promises: a call begins, takes effect atomically
when there is room or an item, and returns.

`Sbuf` has one action per semaphore operation and per access to the ring. The
statement `sp->buf[(++sp->rear)%(sp->n)] = item` is two actions, a load of the
counter and the stores, so that only the mutex keeps it whole:

| action | sbuf.c |
|---|---|
| `CallInsert`, `InsertWait`, `Lock`, `InsertLoad`, `InsertStore`, `Unlock`, `InsertPost` | 24-34 |
| `CallRemove`, `RemoveWait`, `Lock`, `RemoveLoad`, `RemoveTake`, `Unlock`, `RemovePost` | 36-48 |
| `Init` | `sbuf_init`, 6-14 |

The counters are C ints: `Incr` wraps at `IntMax`, and `Slot` is C's `%`, whose
result has the sign of its operand. `ImplementsFifo` is the refinement: the
queue is `buf[front+1] .. buf[rear]`, and a call has taken effect once it has
stored its counter.

### PoolProxy, PoolProofs, MCPoolProxy

`main` (`MainAccept`, `MainInsert`) and the workers share `BoundedFifo` and the
descriptor table `file`. `thread[w]` is a worker's place in `handle_client` and
its locals; each action is a system call with the code up to the next one:

| action | proxy.c | |
|---|---|---|
| `Take`, `Handle` | 328-338 | `sbuf_remove`, `handle_client(new_sfd)` |
| `Recv`, `RecvGot`, `RecvNothing` | 339-350 | the loop until the blank line |
| `Parse` (`Rejected`, `Accepts`, `Crashes`), `Returned` | 132-233, 352-373 | `parse_req`: the early return, the way on, or a request without `//`, whose pointer is null, so that the process ends |
| `Resolve`, `Socket`, `Connect`, `NoAddress` | 375-403 | `getaddrinfo` (failure exits the process) and the loop over addresses |
| `WriteRequest`, `ReadResponse`, `Reply`, `Close`, `CloseSock` | 405-423 | forwarding, and the two closes |

Abstractions. A request is two parts, the second of which ends the headers; a
part is named by the client that sent it. `buf` keeps its contents from call to
call, because the code never clears it: `Complete` looks at all of it. A server
answers once and closes; if it closes with unread input the worker's `recv`
returns -1 once, which the code adds to its count (`short`).
Clients are of eight kinds (`Kinds`), which is the environment: it is external,
taken from `slow-client.py`, `nop-server.py` and what `driver.py` does.

### EpollProxy, EpollProofs, MCEpollProxy

One thread. `Wait` fetches the edges as a batch, `Dispatch` and `HangUp` take one
event of it, and the request's pointer is a block of the heap. `Continue`
is `handle_client`, which calls the functions of the states in order and reads
`current_state` between them - also when the function before has freed the
request.

| action | proxy.c |
|---|---|
| `Wait`, `Timeout`, `Signal`, `HangUp`, `Dispatch` | 59-160 |
| `Accept` | `handle_new_clients`, 235-274 |
| `Continue` | `handle_client`, 276-298 |
| `ReadRequest`, `Open` | `READ_REQUEST`, 300-409 |
| `SendRequest`, `ReadResponse`, `SendResponse` | 411-528 |

Memory is undefined behaviour made explicit. `Release` lets `free` unmap the
block, merge it into the top of the heap (contents kept) or link it into a list
(the first fields overwritten), and `Mallocs` hands out blocks as they are. The
rigid variable `system` says what `free` can do in a behaviour and how many
descriptors the process may have, so that a property can state on which systems
it holds.

### Tsh, TshProofs, MCTsh

The shell and its children run concurrently. `sh` holds the shell's place in
`eval`, its locals and the pipe ends it has open; `proc` is the sequence of its
children, with their ends, groups and states.

| action | tsh.c | |
|---|---|---|
| `ReadLine`, `ParseLine`, `ParseArgs` | 75-126, 223-354 | one line, parsed, `quit` |
| `Fork`, `Close`, `NextCommand`, `Wait` | 128-205 | the loop over the commands and the loop of `waitpid` |
| `SetGroup`, `Exec` | 139-175 | the child until its program runs, with the redirected files' own descriptors still open |
| `Read`, `Write`, `Interrupt` | `myintgroup.c`; external | what programs do to pipes and groups |

A pipe has room for one write, so that a writer blocks; a token is one argument
(quotes and spaces are abstracted). A failing `pipe` is not modelled: `OnlyItsEnds`
shows that the shell holds none between lines, so that its table cannot fill up.

### Signals, MCSignals

The process of `signals.c` is a stack of frames: `main`'s, which runs
`sleep_block_loop`, and one per handler that has begun and not returned.
`Code[f]` lists a handler's statements, one with at most one system call at a
time; `Script[s]` lists those of a scenario of `killer.c`.

| action | code |
|---|---|
| `Deliver`, `HandlerReturns` | the kernel's: lowest number first, `SA_RESTART` does not restart `sleep` |
| `PrintSomething`, `GoToSleep` | `sig_handler1` to `sig_handler3`, signals.c 15-38 |
| `sig_handler2_Raise`, `sig_handler4` ... `sig_handler9` | signals.c 28, 40-95 |
| `sleep_block_loop` | signals.c 138-157: reads `block`, installs the mask, sleeps |
| `KidExits` | the process `sig_handler5` forks |
| `KillerSteps`, `Tick` | killer.c's scenarios; the clock advances when nobody can run |

`sa_mask` is uninitialised in the code: the rigid variable `sa_mask` is any of
`Masks`.

### TreasureHunt, TreasureHuntProofs, MCTreasureHunt

`cl` is the client's place in its loop and its variables, `sv` the server's
state, `net` the datagrams under way and `inbox` those in the client's socket.
`world` is rigid: the level, what the network may do, and what is undefined in
the code (the three bytes of `opt_code` that are never set, and what is left of
the address list after `freeaddrinfo`).

| action | code |
|---|---|
| `SendFirst`, `SendNonce` (`Send`) | `treasure_hunter.c` 99-103, 207-220: the request, and `Plus1` of the nonce. The address is in memory freed at 90: if it has been overwritten (`Garbled`) the datagram goes nowhere, or `sendto` fails |
| `Stop`, `Read` (`Stay`, `NewRemote`, `NewLocal`, `Collect`), `RecvFrom` | the loop of `main`: end or error, op codes 0 to 3 (4 and anything else as 0) |
| `ServerGets`, `Deliver`, `Lose`, `Duplicate` | external: the server of the README and the network |

### Rio, Conns, EchoBase, Echo*, EchoProofs, MCEcho

`Rio` is a reader as a record: `Copied` is one pass of `rio_readlineb`'s loop
over what `rio_read` holds back, between two calls of `read`. `Conns` are TCP
connections with clients of seven kinds; a connection remembers who in the
server holds a descriptor of it (`open`), so that it ends when the last one is
closed. `EchoBase` is what the servers share: `echo()` as `Rio_readlineb`,
`RioEnd` and `rio_writen`, `exit`, and a call that fails (`Fails`). The servers
are modules of their own:

| module | program | what is its own |
|---|---|---|
| `EchoIterative` | `echoserveri.c`; design `recv`: `hw-sockets/server.c` | one connection at a time; `recv` and `send` without Rio, nothing is closed |
| `EchoForking` | `echoserverp.c` | `Fork`, `ForkClose`, `Caught`, `sigchld_handler`, `ChildExits` |
| `EchoThreaded` | `echoservert.c` | `ThreadAccept`, `ThreadCreate`, `ThreadStart`: the descriptor in a block of its own |
| `EchoPool` | `echoservert_pre.c`, `echo_cnt.c` | `PoolInsert`, `Take`, and `echo_cnt` with `Pthread_once`, `P`, `Load`, `Store`, `V` |
| `EchoEpoll` | `echoservere.c` | `EpollWait`, `NextEvent`, `EpollAccept`, `EpollRecv`, `EpollSend`, `EpollHangUp`, `EpollDry`, `EpollCloses`: `recv` and the one `send` are steps of their own, so that a reset may come between them and `send` then ends the process |

`Echo` puts them beside the same clients, and states once what each owes them:
`EchoExact` adds up, for each connection, what the client has received, what is
on its way, what the server holds and what is still to be sent. `Spec` says what
may happen, and the proofs are about it; the run checks `FairSpec`, which adds
the fairness that liveness needs. So it is in `Tiny`.

### Tiny, TinyProofs, MCTiny

`main` forks a child for each connection, a child reads a request with `Rio`
and serves it, and a dynamic request forks a program onto the connection.

| action | tiny.c |
|---|---|
| `Open_listenfd`, `Accept`, `Fork`, `Close` | `main`, 17-48 |
| `Rio_readlineb`, `EndOfFile` | the request line of `doit`, and `read_requesthdrs` |
| `Serve`, `Map`, `Rio_writen` | `doit`, `parse_uri`, `serve_static`, `clienterror` |
| `ForkCgi`, `Wait`, `Exec`, `CgiWrites`, `CgiExits` | `serve_dynamic` and the programs of `cgi-bin` |
| `ChildExits` | return to `main` and `exit`, or a wrapper's error |
| `LoseRest` | external: a connection closed with unread input is reset |

### Induction

Models nothing: facts that several proofs need. `NatSetInduction` is induction
over a set of numbers, `FiniteSetInduction` over a finite set, and `LeastIn`
names the least number of a set. The lemmas from `SumEmpty` to `SumChange` say
what `SumFunctionOnSet` of the community modules, which is recursive, does with
one number more, less or changed.

## 4. Runs

| run | instance | shows |
|---|---|---|
| `sbuf` | 2 producers, 2 consumers, n = 2, 4 insertions, 2 items | the four invariants, the refinement, and that every insertion returns and every item is taken |
| `pool_safety` | 2 workers, n = 1, descriptors 1-4, every pair of kinds and ok beside two that quit | answers, whole requests, descriptor ownership, lost workers, exit |
| `pool_live` | an ok client beside one that is slow, quits, is malformed or whose server hangs | every client that connects is answered and its connection closed |
| `pool_stale_socket` | ok and refused | **violation** of `Isolation`: a closed descriptor number is another client's by the time it is used |
| `epoll_safety` | 2 clients of every pair of kinds, three systems | types, causes of a stop, isolation, descriptor ownership, no lost edge |
| `epoll_live` | 2 clients, ok, slow or with a server that hangs | clients are answered, SIGINT stops the process |
| `tsh` | all lines of up to 4 tokens, all pipelines of 2 and 3 programs, background before foreground | parsing, pipe ends, reaping, groups, and that pipelines end |
| `tsh_group` | `echo \| intgroup` | **violation** of `ShellSpared`: the second command may be left in the shell's group |
| `signals` | all ten scenarios, four values of the mask that is never set | the driver's outputs where the code fixes them, what else may come out in scenarios 5 and 8, and that every scenario ends |
| `hunt` | levels 0 to 4 on a perfect network; level 3 with loss, delay, duplication, or one undefined value | the treasure is in order, is not printed in part, and is found on a perfect network |
| `echo` | six designs with limits that suffice and that do not; one ok client beside one of every kind | bytes, descriptors and `byte_cnt` are exact; clients are served; children reaped |
| `tiny` | one client of every kind with every request; two that meet; 3 or 5 processes | answers are exact, headers are read to the end, clients are served |

**Bounds, and why they are enough.**
- *Sbuf.* Four insertions into two slots go around the ring twice; two threads
  of each kind are the least with a race of equals on each side, and two items
  the least that can be told apart. In `sbuf` `MaxInserts` and `IntMax` are
  equal, so the counters do not wrap; when they do the code is wrong (section 5).
- *PoolProxy.* Two workers race with each other and with `main`. With two
  connections to clients and two to servers the four descriptors are all in use,
  so `accept` and `socket` both fail in some behaviours; n = 1 makes the buffer
  full. Three clients are needed only to lose two workers and still have one
  client. One address per host is enough for the loop to be entered and left
  both ways.
- *EpollProxy.* Two requests are the least for one to be harmed by another's
  release; each needs two descriptors, and `limit` 3 denies them that while 5
  does not. Two blocks: the first to be freed is the next to be handed out.
- *Tsh.* Three commands have a first, a middle and a last, which the code treats
  differently. Four tokens are enough for an operator as the operand of another
  followed by a further argument. `MaxProcs` is the largest number of children
  of a script and never limits it (`ProcsAssumption`, which TLC evaluates, and `TypeOK`).
- *Signals.* Nothing is bounded: the scenarios are the program's own. Four masks:
  none, one signal, those that end the process, all of them.
- *TreasureHunt.* Three chunks have a first, a middle and a last request; a
  nonce of Width - 1 makes the increment wrap; two ports on either side are the
  least for a change to be seen; one copy is enough to shift every answer after it.
- *Echo and Tiny.* `RioBuf` 2 and `MaxLine` 3 are below the messages' lengths, so
  that a line takes several refills and several calls. A window of 1 makes
  every write short. Two clients and two workers contend for the buffer of one
  place, for one thread, one process or one descriptor. `IntMax` is 3, less than
  the bytes sent, so that `byte_cnt` overflows.

None of these bounds is in a theorem: what section 6 names is proved for every
number of clients, threads, descriptors, lines, bytes and messages.

The instances stop when clients or lines run out, so deadlock is not checked;
the liveness properties say what must happen before that.

Each property has at least one plausible bug of the mapped code, an operator
defined beside the correct one (`Lock_NoWait`, `Close_KeepsReadEnd`, ...), under
which TLC finds it violated.

**Conditions in the properties.** Several invariants are stated with the
condition under which the code keeps them; without it TLC finds it violated:

- `AnswersIsolated`, `WholeRequestsRead`, `DescriptorsOwned` and `LostWorkers` of
  the pool hold unless a connection is refused (`pool_stale_socket`);
- `Isolation` of the event-driven proxy holds when a freed request's contents do
  not come back and no client resets its connection; a client whose answer takes
  several writes may be sent parts of it again, or bytes that are nobody's, but
  nothing of another's. `StopCauses` holds when there is a descriptor for every
  request and its connection to the server, and no client has connected whose
  request is given up. `DescriptorsOwned` and `NoLostEdge` hold as long as no peer
  leaves early, since the handling of a hang-up closes descriptors of which it
  has a stale number;
- `AsExpected` fixes the output only in scenarios 0 to 4. In 6, 7 and
  9 two sleeps end in the same second, or the loop sleeps on with the mask of
  before, and the numbers may come in another order; 5 prints 1, or 1 and 2; 8 prints 1, 2, 6 or 1, 2, 7, 6. It is about handlers that nest;
  for other values of `sa_mask` only `Ends` is checked;
- `InOrder` and `PrintsWhole` except a duplicated answer, a family the client
  cannot change to (op code 4), uninitialised bytes of the op code, and a
  failed `bind`, after which the client carries on. After a failed lookup it
  carries on too, but asks a port where nobody answers, and prints nothing;
- `EchoExact` and `Served` except a reset, which may end every server that is one
  process (`echoservere.c` too, whose `send` raises SIGPIPE after one), and the
  epoll server's unchecked short `send`; `Depends` says what each
  design needs: enough descriptors, threads or processes, and for
  `echoserveri.c` that nobody stalls. `DescriptorsOwned` excepts
  `hw-sockets/server.c`, which closes nothing, and the threaded server when a thread
  cannot be created; of the epoll server, where `main` owns all descriptors, it
  says that no connection with something to read is without its event.
  `CountExact` is modulo the width of an int;
- `AnswersExact`, `HeadersRead` and `Served` of tiny except too few processes, a
  child that ended with part of the request unread, and a header line that just
  fills the buffer.

**Fairness.** Threads and processes are scheduled: weak fairness of each
thread's, worker's or child's next step. For `Sbuf` this makes `sem_wait` weakly
fair only, like the code's; `InsertReturns` therefore rests on the number of
calls being bounded, for a semaphore need not serve its waiters in order. A
client that has connected sends its request, and a server that answers at all
does; no client has to connect or to reset, no producer to call, nobody to send
SIGINT. Programs started by the shell, and by tiny, run. In `Signals` the kernel
lets everybody run who can, and the clock advances; in `TreasureHunt` datagrams
that are not lost arrive and the server answers.

## 5. Findings

Shown by a run:

- `lab-proxy-threadpool/proxy.c:405` - a socket is used after it was closed
  (`pool_stale_socket`).
- `tsh.c:142` - the process group of a later command depends on a race with the
  first one (`tsh_group`).

Met while modelling; the models contain the behaviour, and the properties name
the condition that excludes it where it matters:

- *Bounded buffer.* `rear` and `front` are ints that nothing reduces: after INT_MAX
  calls they overflow, `rear%n` is negative and the item is stored before the
  beginning of `buf` (`sbuf.c:31`; in the proxy, after as many connections).
- *Thread-pool proxy.* The end of the headers is searched for in what an earlier
  request left in the buffer, so that the tail of an old request can complete a
  slow client's new one (`proxy.c:346`). A `recv` that fails takes one off the
  count that is later written (420). A host that cannot be resolved ends the
  whole proxy (389). A request without `//` crashes it (164).
- *Event-driven proxy.* Of a new request only `client_fd` is initialised (262), so
  that it may begin in the state of a freed one; a request is read after it was
  freed when `recv` fails (282); a `server_fd` that was never set is closed (146),
  which is standard input or, once that number has been given out again, another
  client's connection: with four clients, one that resets can so have another's
  answer written to a third, and end the process although descriptors abound,
  which is why `Isolation` excludes it and `StopCauses` all requests given up;
  after a partial write the next one asks for the total amount again (497).
- *tsh.* The descriptors that `fopen` gives for redirected files are duplicated onto
  0 and 1 and never closed, nor are they close-on-exec, so the program runs with
  them (159-171), although the README (417-419, 488-491) says to close "file
  descriptors that were created as part of input/output redirection". In the
  model they are a child's `streams`; `OnlyItsEnds` is about pipes only. A blank
  line crashes it (348); background children stay zombies until `fork` fails (191).
- *Signals.* Scenario 5 sends SIGINT and signal 12 without a sleep between them
  (`killer.c:89-90`). The second may end the sleep of the first one's handler, which
  then prints 2, although the comment (86), the README (227-230) and `driver.py`
  expect 1 only. Scenario 8 may print 7 before 6.
- *Echo servers.* In all of them `strcmp(argv[portindex], "-4")`, without `== 0`,
  takes `-4` for IPv6. `hw-sockets/server.c` leaves the connection of a client
  that has ended open (121), although its README (313-314) asks for `close()`. At
  the descriptor limit `accept` ends `echoservere.c` and `hw-sockets/server.c`, and
  the threaded servers pass -1 to a thread, whose failing `read` ends the
  process. `echoserverp.c` does not look at `fork`'s failure: the client is
  disconnected. `echoservere.c` does not look at what `send` returns (227): a short
  one loses bytes, and one after the client's reset ends the server. `byte_cnt` is
  an int and overflows. `hw-sockets/client.c`, which never shuts down its side,
  waits for ever for the end of what the servers return, and so do they for it.
- *tiny.* Children are never waited for, so that `fork` fails in the end and the
  server exits (34). `read_requesthdrs` spins at the end of the file (110), and
  a header line that just fills the buffer ends the headers early. `slow.c` never
  ends for size=1; `adder.c` crashes without `&`; a program that cannot be
  executed leaves the server's buffered output in the connection.
- *Treasure hunter.* When `bind` fails the client only says so and sends from another
  port (174); the server answers with an error, which ends the loop as the end of
  the treasure does (123, 229), and what has been collected so far is printed. A
  lost datagram makes it wait for ever (223); any datagram is taken for the answer.

## 6. Proofs

### The bounded buffer

`SbufProofs` proves, for any finite sets of producers and consumers, any items,
any capacity n > 0 and any number of insertions up to INT_MAX:

- `TypeCorrect`, `Exclusion`, `PermitsBalance`, `SlotsRespected`: `Spec => []` of
  `TypeOK`, `MutualExclusion`, `Accounting`, `NoOverwrite`;
- `Refinement`: `Spec => ImplementsFifo`.

*Assumptions.* `SbufAssumption` (n and `IntMax` positive, finite sets of
threads, disjoint) and, as a hypothesis of each theorem, `MaxInserts <= IntMax`:
without it the counters wrap and a store is outside the ring (section 5).

*Argument.* None of the invariants is inductive alone. `TypeOK` bounds the
semaphores by n, which holds because permits are only moved around: that is
`Accounting`, whose preservation needs that a store adds exactly one to the
counter, which needs that the value loaded is still current (`RegOK`), which
needs the mutex (`MutualExclusion`). `CountersOK` says that the counters are
ordered and that each call stores at most once, so that they stay below
`IntMax`. The inductive invariant is their conjunction

    IInv == TypeOK /\ MutualExclusion /\ Accounting /\ RegOK /\ CountersOK

and `Invariance` is `Spec => []IInv`, with one lemma per action and one step per
conjunct. The counts of threads at a statement change by one when one thread
moves (`AtMove`), which is the only place where cardinalities are reasoned about.
`SlotsRespected` then follows by arithmetic: `rear - front < n` when a producer
holds a permit, and two numbers less than n apart have different remainders. The
refinement maps each action to the queue's step or to a stutter.

### The thread-pool proxy

`PoolProofs` proves, for any number of clients, workers, descriptors and
addresses per host and any size of the buffer:

- `TypeCorrect`: `Spec => []TypeOK`;
- `HeldOnce`, `ReadWhole`, `AnsweredOwn`, `LostToQuitters`: `Spec => []` of
  `DescriptorsOwned`, `WholeRequestsRead`, `AnswersIsolated`, `LostWorkers`.

*Assumptions.* `PoolAssumption`: the sizes are positive, the names distinct and
the clients finitely many. The condition that no connection is refused is in the
properties (section 4).

*Argument.* The centre of the invariant is `Owned(f)`: descriptor f is a client's
if and only if it is in one place of four, `main`'s hand, the queue, the hand of
a worker that has just removed it or that of the worker that serves it; and it
is a server's if and only if it is the open `socket_sfd` of one worker. Neither
half survives a step by itself: a worker that closes a number held twice would
close another's. With it a worker's step concerns its own client and server
only, so `LocalOK` (what the locals may be at each place), `ClientOK` (what has
been sent to a client so far) and `ServesOK` (what the buffer holds of it) are
kept for all others. A request without `//` ends the
process and changes nothing else (`SegfaultSafe`). `Connected` says which connections have a descriptor. The
invariant is

    IInv == Typed /\ (NoneRefused => Safe)

### The event-driven proxy

`EpollProofs` proves, for any number of clients, blocks and descriptors and on any
system (whatever `free` does to a block):

- `NoEdgeLost`: `Spec => []NoLostEdge`;
- `DescriptorsHeld`: `Spec => []DescriptorsOwned`;
- `TypeCorrect`: `Spec => []TypeOK`;
- `AnswersIsolated`: `Spec => []Isolation`;
- `StopsForCause`: `Spec => []StopCauses`.

*Assumptions.* `EpollAssumption`: clients are finitely many, and the listening
socket and null are neither clients nor blocks. The conditions (section 4) are in
the properties.

*Argument for the first two.* `IInv == NoneLeaves => Typed /\ Safe`. `RequestOwns` ties a block in
use to its descriptors and to the place of its state machine, `NotInUse` says
that a freed one holds a state in which nothing is done, and `FileOwned` that an open descriptor is
registered for the request it belongs to. `EventsLive` says that an event of the
batch is of a request that still exists, which is why an event taken from it is
never stale; this is where the condition is needed. `EdgesKept` is stronger than
`NoLostEdge`: not only when the process sleeps, but at every moment, input that
a request waits for has an edge, or the process is on its way to reading it.

*Argument for the others.* When peers may leave, most of `Safe` is false: events
point to requests that have been freed, and the connection of a server that
reset it stays open and registered. Three invariants take its place.

- `Tidy` is the types, with what they need: a client has at most one
  connection, its descriptors are those that `conn` says, and what is waiting to
  be accepted is pending. It holds in every state and is inductive alone.
- `Sound` holds as long as the process runs and the state is `Calm`, that is under
  the condition of one property or of the other. `HeldBy` and `Holds` are the
  two ends of the link between a descriptor and its request; they allow for
  `Leaked`, the connection that was left open, and for a block that came from a
  free list, whose state is none of the five. `Unheld` says what a block that is
  not a request may contain, `EventsSound` that an event of a request with
  something to do is the only one of the batch, so that handling it cannot free
  the request of a later one. `Content` says what the buffer and the counters
  hold in each state: the parts of the request received so far, then nothing or
  the whole answer of the client's own server.
- `Replied` and `Causes` are the properties themselves, strengthened: what a
  client was sent is nothing or, its connection then being closed, the answer.

With `Kept == (Alive => Sound) /\ Replied /\ Causes`, each action has a lemma
`<Action>Kept`, and `CalmInv == Calm => Kept` is inductive relative to `Tidy`: a
calm state was calm before, since no client's connection is taken back
(`StepCalmer`). `OthersKept` is stated once for all actions: what is done for one
request leaves the others alone if the descriptors that change are its own or
new. That `accept` and `socket` find a descriptor is `SomeFree`: each open
descriptor but standard input is the client's or the server's of a different
client, two injections, so fewer are open than there are.

### tsh

`TshProofs` proves, for any lines, and any number of commands, children and files:

- `LinesParsedAsDocumented`: `Spec => []ParsedAsDocumented`;
- `OnlyTheirEnds`: `Spec => []OnlyItsEnds`;
- `WaitedForAll`: `Spec => []AllWaitedFor`;
- `TypeCorrect`: `Spec => []TypeOK`.

*Assumptions.* `TshAssumption`: a script is a sequence of lines of strings. For
`TypeCorrect` also `ProcsAssumption`: `MaxProcs`, a bound of the model that the
shell does not have, is at least the number of commands on the lines of a script.
That it then limits nothing is what the theorem shows.

*Argument.* What the fold of `ParseArgs` returns for every line is proved by
induction over the positions read (`NatSetInduction`): the commands begin after
the bars among them, and the redirections are the tokens after the last `<` and
`>` of a command. `EndsOK` says which ends the shell holds at each place of its
loop: on entering `fork` at most the read end of the pipe before. `ChildEndsOK`
says the same of a child, whose ends are those of the shell when it was forked.
`WaitOK` says that each foreground child that is not reaped is `Awaited`: it has
a place in `pid` that the loop of `waitpid` has yet to come to, also when a
later `fork` fails.

`TypeOK` needs a second invariant over the first. `Bounds` says that there is
`Room`: the children so far, and the commands of the current line that are still
to be forked (`ToFork`), are no more than the lines read so far have commands. A
child keeps the place in the script and the process group its `Child` record
was made with (`Alike`), and writes into the pipe of its own command only.

### The treasure hunt

`TreasureHuntProofs` proves, for any number of chunks, any worlds, nonces and
copies, and any ports the numbering of the module leaves room for (the server's
below 10, the local ones from 11 to 18):

- `TypeCorrect`: `Spec => []TypeOK`;
- `CollectedInOrder`: `Spec => []InOrder`;
- `PrintedWhole`: `Spec => []PrintsWhole`.

*Assumptions.* `HuntAssumption` only. The one condition is in `InOrder` itself: no
datagram is duplicated (`Uncopied`). Loss, delay and reordering, garbage in
`opt_code` and everything the client may do wrong are covered by the proof. The
conditions of `PrintsWhole` are in it, too (`Following`); lookups may fail, and
memory that has been freed may be overwritten.

*Argument.* That the chunk collected next is the right one is not inductive: it
needs that there is one exchange at a time. A *token* is a request or the
directions that answer it. `TokenOK` says that at most one token is under way, in
the network or in the client's socket, only while the client reads, and that the
server is then ahead of the client by exactly the chunk in the token; `ClientOK`
says the same of the client while it works on directions. With `TypeOK`,

    IInv == TypeOK /\ (Uncopied => TokenOK(...) /\ ClientOK(...))

is inductive. What happens to a sequence of datagrams when one is taken away or
added (`Fewer`, `More`) is stated once, without the client, and each action's
lemma uses it: a client's step sends a request only after the token has been
consumed, and a stray empty datagram or an error never is one.

`PrintsWhole` needs more: that the server never answers with an error, which the
client would take for the end. `AllIsWell` says why, for each place of the one
exchange: a request comes from the address the server knows and has the nonce it
expects; directions, once followed, lead there. The hard case is op code 3, where
the nonce is a sum over the ports of datagrams that come in any order, perhaps
before the directions, and may be lost. `Due` says that no more of them are
under way than the client waits for and, if as many are, that their ports and
what the client has added up so far make the server's nonce: losing one leaves
the client waiting, never with a wrong sum. A request sent to an address out of
freed memory goes to nobody, which is as good as lost (`Misdirected`). The lemmas on `Weigh` (what taking,
appending and joining do to the sum over a sequence) rest on those about sums in
`Induction`. The invariant also shows that a failed lookup cannot make the client
print too early, so `PrintsWhole` makes no exception of it.

### The echo servers

`EchoProofs` proves, for all six designs, any limits on threads, processes and
descriptors, any size of Rio's buffer, of a line and of the window, and any
number of clients and messages:

- `EchoedExactly`: `Spec => []EchoExact`;
- `DescriptorsClosed`: `Spec => []DescriptorsOwned`;
- `CountedOnce`: `Spec => []CountExact`, of the design with the counter.

*Assumptions.* `EchoAssumption`: clients are finitely many, limits positive, and
the names of clients, workers and marks distinct. `IntAssumption`: INT_MAX is a
natural number.

*Argument.* `EchoExact` is a sum over the places a byte can be in. Its parts move
at different steps, so `Exact` says of each connection that what was received, is
under way, is held to be sent, is held in Rio's buffer and is unsent are together
the message; `Regular` is what a connection may look like, and `InStep` where
the task that serves it may be. `Placed` says that a connection is in one place
only: the backlog, one thread's or child's hand, or the queue, whence each task
writes to its own connection, and `Owned` that whoever holds a descriptor of it
is at a place from which the code goes on to close it. Only `hw-sockets/server.c`,
which closes nothing, and `echoservert.c` without a thread to be had are exempt
there. For the epoll server, where `main` has all descriptors, `EdgesOK` says
that an open connection with bytes, an end or a reset to be read has an event,
in the kernel or in the batch, or is the one `main` is at, and that a batch is done
before the next wait; that `recv` goes on until EAGAIN is what keeps it.

    IInv == Typed /\ Safe

has one lemma per action of each design; the lemmas about one connection
(`SendMove`, `ReadMove`, `WriteMove`, `LineMove` and so on) are shared.

`CountExact` looks at the counter only when the mutex is free, so it is not
inductive: between P and V the new value is in a register, in `byte_cnt` or in
both. `Counting`, a second invariant over the first, says where:

- `HolderOK`: a connection belongs to one worker, that worker is between P and V
  exactly if it has the mutex, and what it has loaded is `byte_cnt` plus its
  line, which is to say that nobody has stored in between;
- `TaskOK`, `SetupOK`: every task has its worker, and before `init_echo_cnt` no
  task has gone further than `pthread_once`, so that setting the counter to 0
  loses nothing;
- `byte_cnt` is the sum over all connections of `Counted`, what has come back to
  the client, is on its way back or is to be echoed after V, as far as an int can
  say it: `AsInt` of a number differs from it by a multiple of 2 * INT_MAX + 2, so
  that overflow on the way to a sum makes no difference to what is left.

A store raises the sum by the line of its own connection (`SumChange`), and every
other step leaves `Counted` of each connection as it was. With the mutex free no
task is between P and V, and `Exact` turns what has been counted into the
length of the message less what is not counted yet. It holds until a client
resets or the server exits, the cases `CountExact` leaves out.

### The tiny web server

`TinyProofs` proves, for any number of clients, requests and headers, any limits
and any sizes of the buffers that hold more than two bytes:

- `AnswersAreExact`: `Spec => []AnswersExact`;
- `HeadersAreRead`: `Spec => []HeadersRead`;
- `Inductive`: `Spec => []IInv`.

*Assumptions.* `TinyAssumption`: a request's headers are lines that are not blank,
no request contains a newline, and what it says of the limits.

*Argument.* A child and its connection are independent of all others once
`Placed` holds (a connection is in the backlog, in `main`'s hand or with one
child), so the invariant is mostly about one client at a time: `Good(connection,
child, program, request)`, which is

- `Reading`: what is unread is a suffix of the request that begins where the
  line being read does (`At`), and what Rio gives back is a line of it;
- `Answering`: what was sent and what is still owed (`Owes`), laid end to end, are
  the answer, at every step of `Rio_writen`'s loop and of the CGI program;
- `InTurn`: at which place of `doit` a program may run;
- `Ended`: a child that has ended has sent all of it, or had a reason that the
  property names. A client's reset discards what is on its way; what the child has
  taken over already is still read and answered.

That the blank line found is the request's, and not one inside the headers, is
where the assumption on headers is used; that the process limit is not met
(`Plenty`) rests on counting children and programs, two for each client at most.

### Induction

The induction theorems of the library take an operator as a parameter, which the
provers cannot instantiate. `Induction` states them for sets: a set of numbers
that contains 0 and with each number its successor contains them all
(`NatSetInduction`), and a set of subsets of a finite set that contains the empty
set and with each subset those of one more element contains the finite set
(`FiniteSetInduction`). The proofs use that strict inclusion of finite sets is
well-founded. The predicate to be shown is then the membership of `{n \in Nat :
P(n)}`, an ordinary set.

A sum over a set is defined by recursion over its subsets, in the order in which
`CHOOSE` takes their elements. `AddsExists` and `AddsUnique` show, by induction on
the size, that the recursion has one solution; `SumOneMore`, that the order does
not matter, again by induction on the size: of two elements, either can be taken
first. What the proofs cite is what follows: the sum of zeros, of ones, of equal
numbers, of one more or one less, of a set cut in two and of numbers renamed.

## 7. What is only model-checked, and what is not modelled

- Liveness (`InsertReturns`, `ItemsDelivered`, `Answered`, `Disposed`, `Stops`,
  `Returns`, `Ends`, `Finds`, `Served`, `Reaped`) and everything about ENABLED:
  outside the prover's reach.
- `AsExpected` of `Signals`: the ten scenarios are all there are, and TLC
  explores each of them completely.
- Not modelled in the modelled components: the contents of requests beyond what
  is told apart above, the parsers' string handling, messages and `print_bytes`;
  in `tsh`, option parsing, quoting, lines longer than the buffers, and ctrl-C,
  for which the shell has no handler; a blank line, which crashes the shell, is
  in the model (`sh.pc = "crashed"`). In `signals`, a failing `fork` or `execve`
  and killer's own SIGINT handler. In the treasure hunter, a `sendto` that fails
  though its address is sound, and the seed's byte order. In the echo servers,
  options and addresses but for their failing, and interrupted reads other than by SIGCHLD, whose handler is
  installed with `SA_RESTART`. Of tiny's files only which error they cause.
- Rio's `rio_readn`, `rio_readnb` and about half of csapp.c's wrappers: no program
  calls them. The copy in `lab-proxy-threadpool` is not compiled into the proxy.
- The UDP client and server of `hw-sockets` (a loop that echoes datagrams, and a
  client that asks and waits; `TreasureHunt` has the same exchange in a program
  where loss matters), the straight-line exercises of `hw1` and `hw3`, the drivers
  and the course material.
