---------------------------- MODULE EchoProofs -----------------------------
(****************************************************************************)
(* The echo servers of hw-concurrency and hw-sockets/server.c, of every     *)
(* design and with any limits: bytes are echoed exactly, descriptors are    *)
(* owned by somebody who closes them, and the counter of echo_cnt.c is      *)
(* right.                                                                   *)
(*                                                                          *)
(* The invariant says of each connection where it is (the backlog, main's   *)
(* hands, the queue or a task, one of them at a time), which bytes its task *)
(* may hold at each step of echo, and that what has come back, what the     *)
(* server holds and what is still to be sent are together the message.  Two *)
(* more invariants rest on it.  For the events of epoll: what has happened  *)
(* to an open connection has an edge, is in the batch or is being read.     *)
(* For the counter: it is the sum, over all connections, of what is counted *)
(* and has been echoed or is about to be, up to the overflow of an int, and *)
(* no worker stores a sum that another one has made out of date.            *)
(****************************************************************************)
EXTENDS Echo, Induction, SequenceTheorems

(* The values of the variables.                                             *)
Bytes == Clients \cup {NL}
ConnType ==
    [up : BOOLEAN, open : SUBSET {"main", "child"}, unsent : Seq(Bytes), fin : BOOLEAN,
     err : BOOLEAN, gone : BOOLEAN, in : Seq(Bytes), out : Seq(Bytes), got : Seq(Bytes)]
RioType == [buf : Seq(Bytes), user : Seq(Bytes)]
TaskType ==
    [at : {"none", "created", "once", "read", "P", "load", "store", "V", "write", "close"},
     rio : RioType, todo : Seq(Bytes), reg : Int]
MainType ==
    [at : {"setup", "exited", "accept", "echo", "fork", "close", "create", "insert",
           "events", "accepting", "recv", "send"},
     fd : Clients \cup {None, Bad}]
PoolType ==
    [queue : Seq(Clients \cup {Bad}), holds : [Workers -> Clients \cup {None, Bad}],
     running : SUBSET Workers, byte_cnt : Int, mutex : Workers \cup {None, Uninit}]
EvType ==
    [edge : SUBSET (Clients \cup {None}), batch : SUBSET (Clients \cup {None}), hup : SUBSET Clients]

Typed ==
    /\ kind \in [Clients -> Kinds] /\ msg = Messages
    /\ conn \in [Clients -> ConnType] /\ backlog \in Seq(Clients)
    /\ sys \in Systems /\ main \in MainType /\ task \in [Clients -> TaskType]
    /\ pool \in PoolType /\ ev \in EvType

(* What a task holds at each step of echo.                                  *)
Shape(t) ==
    /\ Len(t.rio.user) <= MaxLine - 1
    /\ t.at # "read" => t.rio.user = <<>>
    /\ t.at = "read" => t.todo = <<>>
    /\ t.at \in {"none", "created", "once", "close"} => t.todo = <<>> /\ t.rio.buf = <<>>

(* Where a connection is before a task has it.                              *)
InBacklog(c) == c \in ToSet(backlog)
InHand(c) == main.fd = c /\ main.at \in {"fork", "create", "insert"}
InQueue(c) == c \in ToSet(pool.queue)
Placed(c) ==
    /\ InBacklog(c) => conn[c].up /\ ~InHand(c) /\ ~InQueue(c)
    /\ InHand(c) => conn[c].up /\ ~InQueue(c)
    /\ InQueue(c) => conn[c].up
    /\ sys.design # "epoll" /\ (~conn[c].up \/ InBacklog(c) \/ InHand(c) \/ InQueue(c)) =>
         task[c].at = "none"

(* Nobody waits twice.                                                      *)
Distinct(s) == \A i, j \in DOMAIN s : s[i] = s[j] /\ s[i] \in Clients => i = j

(* Who closes a descriptor.                                                 *)
Owned(c) ==
    /\ "child" \in conn[c].open => sys.design = "forking" /\ task[c].at # "none"
    /\ "main" \in conn[c].open =>
         \/ sys.design = "iterative" /\ main.at = "echo" /\ main.fd = c
         \/ sys.design = "forking" /\ main.at \in {"fork", "close"} /\ main.fd = c
         \/ sys.design = "threaded"
            /\ (InHand(c) \/ task[c].at # "none" \/ sys.tasks < Cardinality(Clients))
         \/ sys.design = "pool" /\ (InHand(c) \/ task[c].at # "none" \/ InQueue(c))
         \/ sys.design \in {"recv", "epoll"}

(* What has come from a client and goes back to it, in one piece.           *)
Cat(s, t) == s \o t
Chain(got, out, todo, user, buf, in, unsent) ==
    Cat(got, Cat(out, Cat(todo, Cat(user, Cat(buf, Cat(in, unsent))))))
Whole(r, t) == Chain(r.got, r.out, t.todo, t.rio.user, t.rio.buf, r.in, r.unsent)
Exact(c) ==
    \/ conn[c].gone \/ main.at = "exited"
    \/ sys.design = "epoll" /\ sys.window < Len(msg[c])
    \/ Whole(conn[c], task[c]) = msg[c]

(* What main has in hand, and whose the workers are.                        *)
InStep ==
    /\ main.at \in {"echo", "recv", "send", "fork", "close"} => main.fd \in Clients
    /\ main.at = "create" => main.fd \in Clients \cup {None}
    /\ main.at = "insert" => main.fd \in Clients \cup {Bad}
    /\ sys.design # "pool" => pool.running = {}

(* What a task holds, and which designs have any.                           *)
Regular(c) ==
    /\ Shape(task[c]) /\ (conn[c].err => conn[c].gone)
    /\ sys.design = "recv" => task[c].rio = rio_readinitb

(* The epoll server has no tasks but what it is about to send.              *)
Sending(c) ==
    /\ task[c].at = IF main.at = "send" /\ main.fd = c THEN "write" ELSE "none"
    /\ task[c].rio.buf = <<>>
Safe ==
    /\ \A c \in Clients : Regular(c) /\ Placed(c) /\ Owned(c) /\ Exact(c)
    /\ sys.design = "epoll" => \A c \in Clients : Sending(c)
    /\ Distinct(backlog) /\ Distinct(pool.queue)
    /\ InStep
IInv == Typed /\ Safe

-----------------------------------------------------------------------------
(* Sequences.                                                               *)
LEMMA Split ==
    ASSUME NEW s \in Seq(Bytes), NEW n \in 0 .. Len(s)
    PROVE  /\ SubSeq(s, 1, n) \in Seq(Bytes) /\ Drop(s, n) \in Seq(Bytes)
           /\ SubSeq(s, 1, n) \o Drop(s, n) = s
           /\ Len(SubSeq(s, 1, n)) = n
<1>1. Len(s) \in Nat
  OBVIOUS
<1>2. \A i \in 1 .. Len(s) : s[i] \in Bytes
  BY ElementOfSeq
<1>3. SubSeq(s, 1, n) \in Seq(Bytes) /\ Len(SubSeq(s, 1, n)) = n
  BY <1>1, <1>2, SubSeqProperties
<1>4. Drop(s, n) \in Seq(Bytes)
  BY <1>1, <1>2, SubSeqProperties DEF Drop
<1>5. SubSeq(s, 1, n) \o SubSeq(s, n + 1, Len(s)) = SubSeq(s, 1, Len(s))
  <2>1. 1 \in 1 .. Len(s) + 1 /\ n \in 1 - 1 .. Len(s) /\ Len(s) \in n .. Len(s)
    BY <1>1
  <2> QED BY <2>1, ConcatAdjacentSubSeq, Zenon
<1> QED BY <1>3, <1>4, <1>5, SubSeqFull DEF Drop

(* Concatenation: SMT rewrites nested occurrences of \o, so it has a name.   *)
LEMMA CatTyped ==
    ASSUME NEW x \in Seq(Bytes), NEW y \in Seq(Bytes)
    PROVE  Cat(x, y) \in Seq(Bytes) /\ Len(Cat(x, y)) = Len(x) + Len(y)
BY DEF Cat

(* Concatenations can be regrouped.                                         *)
LEMMA CatAssoc ==
    ASSUME NEW x \in Seq(Bytes), NEW y \in Seq(Bytes), NEW z \in Seq(Bytes)
    PROVE  Cat(Cat(x, y), z) = Cat(x, Cat(y, z))
BY DEF Cat

(* The empty sequence adds nothing.                                         *)
LEMMA CatEmpty ==
    ASSUME NEW x \in Seq(Bytes)
    PROVE  Cat(<<>>, x) = x /\ Cat(x, <<>>) = x
BY DEF Cat

(* The sequences that a connection and a task hold.                         *)
LEMMA FieldSeqs ==
    ASSUME NEW q \in ConnType, NEW t \in TaskType
    PROVE  /\ q.unsent \in Seq(Bytes) /\ q.in \in Seq(Bytes) /\ q.out \in Seq(Bytes)
           /\ q.got \in Seq(Bytes) /\ t.todo \in Seq(Bytes)
           /\ t.rio.user \in Seq(Bytes) /\ t.rio.buf \in Seq(Bytes)
BY DEF ConnType, TaskType, RioType

(* The bytes of a connection, in the grouping of EchoExact, are its         *)
(* chain.                                                                   *)
LEMMA Chained ==
    ASSUME NEW q \in ConnType, NEW k \in TaskType
    PROVE  /\ Whole(q, k) \in Seq(Bytes)
           /\ Len(Whole(q, k)) = Len(q.got) + Len(q.out) + Len(k.todo) + Len(k.rio.user)
                                 + Len(k.rio.buf) + Len(q.in) + Len(q.unsent)
           /\ q.got \o q.out \o (k.todo \o k.rio.user \o k.rio.buf) \o q.in \o q.unsent
                = Whole(q, k)
<1> DEFINE g == q.got  o == q.out  t == k.todo  u == k.rio.user  b == k.rio.buf
           i == q.in  n == q.unsent
           r1 == Cat(i, n)  r2 == Cat(b, r1)  r3 == Cat(u, r2)  r4 == Cat(t, r3)
           r5 == Cat(o, r4)
           v == Cat(t, u)  m == Cat(v, b)  w == Cat(g, o)
<1>0. /\ g \in Seq(Bytes) /\ o \in Seq(Bytes) /\ t \in Seq(Bytes) /\ u \in Seq(Bytes)
      /\ b \in Seq(Bytes) /\ i \in Seq(Bytes) /\ n \in Seq(Bytes)
  BY FieldSeqs
<1>00. Whole(q, k) = Chain(g, o, t, u, b, i, n)
  BY DEF Whole
<1> HIDE DEF g, o, t, u, b, i, n
<1>1. r1 \in Seq(Bytes) /\ v \in Seq(Bytes) /\ w \in Seq(Bytes) /\ Len(r1) = Len(i) + Len(n)
  BY <1>0, CatTyped
<1>2. r2 \in Seq(Bytes) /\ m \in Seq(Bytes) /\ Len(r2) = Len(b) + Len(r1)
  <2> HIDE DEF r1, v
  <2> QED BY <1>0, <1>1, CatTyped
<1>3. r3 \in Seq(Bytes) /\ Len(r3) = Len(u) + Len(r2)
  <2> HIDE DEF r2
  <2> QED BY <1>0, <1>2, CatTyped
<1>4. r4 \in Seq(Bytes) /\ Len(r4) = Len(t) + Len(r3)
  <2> HIDE DEF r3
  <2> QED BY <1>0, <1>3, CatTyped
<1>5. r5 \in Seq(Bytes) /\ Len(r5) = Len(o) + Len(r4)
  <2> HIDE DEF r4
  <2> QED BY <1>0, <1>4, CatTyped
<1>6. Cat(g, r5) \in Seq(Bytes) /\ Len(Cat(g, r5)) = Len(g) + Len(r5)
  <2> HIDE DEF r5
  <2> QED BY <1>0, <1>5, CatTyped
<1>7. Chain(g, o, t, u, b, i, n) = Cat(g, r5)
  BY DEF Chain
<1>8. Cat(Cat(Cat(w, m), i), n) = Cat(g, r5)
  <2>1. Cat(w, m) \in Seq(Bytes)
    <3> HIDE DEF w, m
    <3> QED BY <1>1, <1>2, CatTyped
  <2>2. Cat(Cat(Cat(w, m), i), n) = Cat(Cat(w, m), r1)
    <3> HIDE DEF w, m
    <3> QED BY <2>1, <1>0, CatAssoc
  <2>3. Cat(Cat(w, m), r1) = Cat(w, Cat(m, r1))
    <3> HIDE DEF w, m, r1
    <3> QED BY <1>1, <1>2, <1>0, CatAssoc
  <2>4. Cat(m, r1) = Cat(v, r2)
    <3> HIDE DEF v, r1
    <3> QED BY <1>1, <1>0, CatAssoc
  <2>5. Cat(v, r2) = r4
    <3> HIDE DEF r2
    <3> QED BY <1>2, <1>0, CatAssoc
  <2>6. Cat(w, r4) = Cat(g, r5)
    <3> HIDE DEF r4
    <3> QED BY <1>4, <1>0, CatAssoc
  <2> QED BY <2>2, <2>3, <2>4, <2>5, <2>6
<1>9. g \o o \o (t \o u \o b) \o i \o n = Cat(Cat(Cat(w, m), i), n)
  BY DEF Cat
<1> HIDE DEF r1, r2, r3, r4, r5, v, m, w
<1>10. Len(i) \in Nat /\ Len(n) \in Nat /\ Len(b) \in Nat /\ Len(u) \in Nat /\ Len(t) \in Nat
      /\ Len(o) \in Nat /\ Len(g) \in Nat
  BY <1>0, LenProperties
<1>11. Len(Chain(g, o, t, u, b, i, n))
         = Len(g) + Len(o) + Len(t) + Len(u) + Len(b) + Len(i) + Len(n)
  BY <1>1, <1>2, <1>3, <1>4, <1>5, <1>6, <1>7, <1>10
<1> QED BY <1>00, <1>6, <1>7, <1>8, <1>9, <1>11 DEF g, o, t, u, b, i, n

-----------------------------------------------------------------------------
(* The fields of a connection.                                              *)
LEMMA ConnFields ==
    ASSUME Typed, NEW c \in Clients
    PROVE  /\ conn[c] \in ConnType /\ conn[c].open \subseteq {"main", "child"}
           /\ conn[c].unsent \in Seq(Bytes) /\ conn[c].in \in Seq(Bytes)
           /\ conn[c].out \in Seq(Bytes) /\ conn[c].got \in Seq(Bytes)
<1>1. conn \in [Clients -> ConnType]
  BY DEF Typed
<1> QED BY <1>1 DEF ConnType

(* The fields of a task.                                                    *)
LEMMA TaskFields ==
    ASSUME Typed, NEW c \in Clients
    PROVE  /\ task[c] \in TaskType /\ task[c].rio \in RioType /\ task[c].reg \in Int
           /\ task[c].todo \in Seq(Bytes)
           /\ task[c].rio.user \in Seq(Bytes) /\ task[c].rio.buf \in Seq(Bytes)
<1>1. task \in [Clients -> TaskType]
  BY DEF Typed
<1> QED BY <1>1 DEF TaskType, RioType

(* A step that concerns one connection and its task, which it keeps.        *)
LEMMA Local ==
    ASSUME Typed, Safe, NEW c \in Clients, NEW r \in ConnType, NEW t \in TaskType,
           conn' = [conn EXCEPT ![c] = r], task' = [task EXCEPT ![c] = t],
           UNCHANGED <<kind, msg, backlog, sys, main>>,
           pool' \in PoolType, pool'.queue = pool.queue,
           sys.design # "pool" => pool'.running = {}, ev' \in EvType,
           r.up <=> conn[c].up, r.open = conn[c].open,
           r.err => r.gone, conn[c].gone => r.gone,
           Shape(t), t.at = "none" <=> task[c].at = "none",
           sys.design = "recv" => t.rio = rio_readinitb,
           sys.design = "epoll" => t.at = task[c].at /\ t.rio = task[c].rio,
           \/ r.gone \/ (sys.design = "epoll" /\ sys.window < Len(msg[c]))
           \/ Whole(r, t) = Whole(conn[c], task[c])
    PROVE  Typed' /\ Safe'
<1>1. conn \in [Clients -> ConnType] /\ task \in [Clients -> TaskType]
  BY DEF Typed
<1>2. conn'[c] = r /\ task'[c] = t
      /\ \A d \in Clients \ {c} : conn'[d] = conn[d] /\ task'[d] = task[d]
  BY <1>1
<1>3. Typed'
  BY <1>1 DEF Typed
<1>4. ASSUME NEW d \in Clients PROVE Regular(d)'
  <2>1. Regular(d)
    BY DEF Safe
  <2> QED BY <1>2, <2>1 DEF Regular
<1>5. ASSUME NEW d \in Clients PROVE Placed(d)'
  <2>1. Placed(d) /\ (conn'[d].up <=> conn[d].up) /\ (task'[d].at = "none" <=> task[d].at = "none")
    BY <1>2 DEF Safe
  <2> QED BY <2>1 DEF Placed, InBacklog, InHand, InQueue
<1>6. ASSUME NEW d \in Clients PROVE Owned(d)'
  <2>1. Owned(d) /\ conn'[d].open = conn[d].open
        /\ (task'[d].at = "none" <=> task[d].at = "none")
    BY <1>2 DEF Safe
  <2> QED BY <2>1 DEF Owned, InHand, InQueue
<1>7. ASSUME NEW d \in Clients PROVE Exact(d)'
  <2>1. Exact(d)
    BY DEF Safe
  <2>2. CASE d # c
    BY <1>2, <2>1, <2>2 DEF Exact
  <2>3. CASE d = c
    BY <1>2, <2>1, <2>3 DEF Exact
  <2> QED BY <2>2, <2>3
<1>8. Distinct(backlog)' /\ Distinct(pool.queue)' /\ InStep'
  BY DEF Safe, Distinct, InStep
<1>9. ASSUME sys'.design = "epoll", NEW d \in Clients PROVE Sending(d)'
  BY <1>2, <1>9 DEF Safe, Sending
<1> QED BY <1>3, <1>4, <1>5, <1>6, <1>7, <1>8, <1>9 DEF Safe

(* The same for a step that changes no task.                                *)
LEMMA LocalConn ==
    ASSUME Typed, Safe, NEW c \in Clients, NEW r \in ConnType,
           conn' = [conn EXCEPT ![c] = r],
           UNCHANGED <<kind, msg, backlog, sys, main, task, pool>>, ev' \in EvType,
           r.up <=> conn[c].up, r.open = conn[c].open,
           r.err => r.gone, conn[c].gone => r.gone,
           \/ r.gone \/ (sys.design = "epoll" /\ sys.window < Len(msg[c]))
           \/ Whole(r, task[c]) = Whole(conn[c], task[c])
    PROVE  Typed' /\ Safe'
<1>1. task \in [Clients -> TaskType] /\ task' = [task EXCEPT ![c] = task[c]] /\ pool' \in PoolType
  BY DEF Typed
<1>2. Regular(c) /\ (sys.design # "pool" => pool'.running = {})
  BY DEF Safe, InStep
<1>3. task[c] \in TaskType /\ pool'.queue = pool.queue
  BY <1>1
<1> QED BY <1>1, <1>2, <1>3, Local DEF Regular

(* The same for a step that changes no connection.                          *)
LEMMA LocalTask ==
    ASSUME Typed, Safe, NEW c \in Clients, NEW t \in TaskType, SetTask(c, t),
           UNCHANGED <<connVars, sys, main, ev>>,
           pool' \in PoolType, pool'.queue = pool.queue,
           sys.design # "pool" => pool'.running = {}, sys.design # "epoll",
           Shape(t), t.at # "none", task[c].at # "none",
           sys.design = "recv" => t.rio = rio_readinitb,
           Whole(conn[c], t) = Whole(conn[c], task[c])
    PROVE  Typed' /\ Safe'
<1>1. conn \in [Clients -> ConnType] /\ conn' = [conn EXCEPT ![c] = conn[c]] /\ ev' \in EvType
      /\ task' = [task EXCEPT ![c] = t] /\ UNCHANGED <<kind, msg, backlog, sys, main>>
  BY DEF Typed, connVars, SetTask
<1>2. Regular(c) /\ conn[c] \in ConnType
  BY <1>1 DEF Safe
<1> QED BY <1>1, <1>2, Local DEF Regular

-----------------------------------------------------------------------------
(* A connection that differs from q in what has been sent and received.     *)
Carries(r, q, u, i, o, g) ==
    /\ r \in ConnType /\ r.open = q.open
    /\ r.up <=> q.up
    /\ r.err <=> q.err
    /\ r.gone <=> q.gone
    /\ r.unsent = u /\ r.in = i /\ r.out = o /\ r.got = g
(* New values for what a connection carries.                                *)
LEMMA Carried ==
    ASSUME NEW q \in ConnType, NEW u \in Seq(Bytes), NEW i \in Seq(Bytes),
           NEW o \in Seq(Bytes), NEW g \in Seq(Bytes)
    PROVE  /\ Carries([q EXCEPT !.unsent = u, !.in = i], q, u, i, q.out, q.got)
           /\ Carries([q EXCEPT !.out = o, !.got = g], q, q.unsent, q.in, o, g)
           /\ Carries([q EXCEPT !.in = i], q, q.unsent, i, q.out, q.got)
           /\ Carries([q EXCEPT !.out = o], q, q.unsent, q.in, o, q.got)
           /\ Carries([q EXCEPT !.in = i, !.out = o], q, q.unsent, i, o, q.got)
BY DEF Carries, ConnType

(* A connection that is shut down, and one whose error has been told.       *)
LEMMA Ending ==
    ASSUME NEW q \in ConnType, NEW b \in BOOLEAN
    PROVE  /\ Carries([q EXCEPT !.fin = b], q, q.unsent, q.in, q.out, q.got)
           /\ [q EXCEPT !.err = b] \in ConnType /\ [q EXCEPT !.err = b].open = q.open
           /\ [q EXCEPT !.err = b].up <=> q.up
           /\ [q EXCEPT !.err = b].gone <=> q.gone
           /\ [q EXCEPT !.err = b].err <=> b
BY DEF Carries, ConnType

IsUp(r, q, b) ==
    /\ r \in ConnType /\ r.open = q.open
    /\ r.up <=> b
    /\ r.gone <=> q.gone
    /\ r.err <=> q.err
    /\ r.unsent = q.unsent /\ r.in = q.in /\ r.out = q.out /\ r.got = q.got
(* A connection that comes up.                                              *)
LEMMA GoingUp ==
    ASSUME NEW q \in ConnType, NEW b \in BOOLEAN
    PROVE  IsUp([q EXCEPT !.up = b], q, b)
BY DEF ConnType, IsUp

IsReset(r, q, b) ==
    /\ r \in ConnType /\ r.open = q.open
    /\ r.up <=> q.up
    /\ r.err <=> b
    /\ r.gone <=> b
(* A connection that is reset.                                              *)
LEMMA Resetting ==
    ASSUME NEW q \in ConnType, NEW b \in BOOLEAN, NEW e \in Seq(Bytes),
           NEW i \in Seq(Bytes), NEW u \in Seq(Bytes)
    PROVE  IsReset([q EXCEPT !.gone = b, !.err = b, !.fin = b, !.out = e, !.in = i, !.unsent = u],
                   q, b)
BY DEF ConnType, IsReset

(* The chain of a connection that carries u, i, o and g.                    *)
LEMMA WholeOf ==
    ASSUME NEW r, NEW q, NEW t, NEW u, NEW i, NEW o, NEW g, Carries(r, q, u, i, o, g)
    PROVE  Whole(r, t) = Chain(g, o, t.todo, t.rio.user, t.rio.buf, i, u)
BY DEF Carries, Whole

(* A task that holds d, u and b.                                            *)
Holds(t, d, u, b) == t.todo = d /\ t.rio.user = u /\ t.rio.buf = b

(* What is left of a chain, from each of its parts on.                      *)
LEMMA Rests ==
    ASSUME NEW q \in ConnType, NEW t \in TaskType
    PROVE  /\ q.unsent \in Seq(Bytes) /\ q.in \in Seq(Bytes) /\ q.out \in Seq(Bytes)
           /\ q.got \in Seq(Bytes) /\ t.todo \in Seq(Bytes)
           /\ t.rio.user \in Seq(Bytes) /\ t.rio.buf \in Seq(Bytes)
           /\ Cat(q.in, q.unsent) \in Seq(Bytes)
           /\ Cat(t.rio.buf, Cat(q.in, q.unsent)) \in Seq(Bytes)
           /\ Cat(t.rio.user, Cat(t.rio.buf, Cat(q.in, q.unsent))) \in Seq(Bytes)
           /\ Cat(t.todo, Cat(t.rio.user, Cat(t.rio.buf, Cat(q.in, q.unsent)))) \in Seq(Bytes)
<1> DEFINE i == q.in  n == q.unsent  d == t.todo  u == t.rio.user  b == t.rio.buf
           r1 == Cat(i, n)  r2 == Cat(b, r1)  r3 == Cat(u, r2)
<1>1. /\ i \in Seq(Bytes) /\ n \in Seq(Bytes)
      /\ d \in Seq(Bytes) /\ u \in Seq(Bytes) /\ b \in Seq(Bytes)
  BY FieldSeqs
<1> HIDE DEF i, n, d, u, b
<1>2. r1 \in Seq(Bytes)
  BY <1>1, CatTyped
<1> HIDE DEF r1
<1>3. r2 \in Seq(Bytes)
  BY <1>1, <1>2, CatTyped
<1> HIDE DEF r2
<1>4. r3 \in Seq(Bytes)
  BY <1>1, <1>3, CatTyped
<1> HIDE DEF r3
<1>5. Cat(d, r3) \in Seq(Bytes)
  BY <1>1, <1>4, CatTyped
<1> QED BY <1>2, <1>3, <1>4, <1>5, FieldSeqs DEF i, n, d, u, b, r1, r2, r3

(* Ways to move a part of a chain on, which leave the chain as it is.       *)
(* The client has sent x.                                                   *)
LEMMA SendMove ==
    ASSUME NEW q \in ConnType, NEW t \in TaskType, NEW r, NEW x \in Seq(Bytes), NEW y \in Seq(Bytes),
           Cat(x, y) = q.unsent, Carries(r, q, y, Cat(q.in, x), q.out, q.got)
    PROVE  Whole(r, t) = Whole(q, t)
<1> DEFINE g == q.got  o == q.out  i == q.in  n == q.unsent
           d == t.todo  u == t.rio.user  b == t.rio.buf
           r1 == Cat(i, n)  r2 == Cat(b, r1)  r3 == Cat(u, r2)  r4 == Cat(d, r3)
<1>1. /\ g \in Seq(Bytes) /\ o \in Seq(Bytes) /\ i \in Seq(Bytes) /\ n \in Seq(Bytes)
      /\ d \in Seq(Bytes) /\ u \in Seq(Bytes) /\ b \in Seq(Bytes)
      /\ r1 \in Seq(Bytes) /\ r2 \in Seq(Bytes) /\ r3 \in Seq(Bytes) /\ r4 \in Seq(Bytes)
  BY Rests
<1>2. Whole(q, t) = Cat(g, Cat(o, r4))
  BY DEF Whole, Chain
<1>3. Whole(r, t) = Cat(g, Cat(o, Cat(d, Cat(u, Cat(b, Cat(Cat(i, x), y))))))
  BY DEF Whole, Chain, Carries
<1>4. Cat(Cat(i, x), y) = r1
  <2> HIDE DEF i
  <2> QED BY <1>1, CatAssoc
<1> QED BY <1>2, <1>3, <1>4

(* The client has read what there was.                                      *)
LEMMA ReadMove ==
    ASSUME NEW q \in ConnType, NEW t \in TaskType, NEW r, Carries(r, q, q.unsent, q.in, <<>>, Cat(q.got, q.out))
    PROVE  Whole(r, t) = Whole(q, t)
<1> DEFINE g == q.got  o == q.out  i == q.in  n == q.unsent
           d == t.todo  u == t.rio.user  b == t.rio.buf
           r1 == Cat(i, n)  r2 == Cat(b, r1)  r3 == Cat(u, r2)  r4 == Cat(d, r3)
<1>1. /\ g \in Seq(Bytes) /\ o \in Seq(Bytes) /\ i \in Seq(Bytes) /\ n \in Seq(Bytes)
      /\ d \in Seq(Bytes) /\ u \in Seq(Bytes) /\ b \in Seq(Bytes)
      /\ r1 \in Seq(Bytes) /\ r2 \in Seq(Bytes) /\ r3 \in Seq(Bytes) /\ r4 \in Seq(Bytes)
  BY Rests
<1>2. Whole(q, t) = Cat(g, Cat(o, r4))
  BY DEF Whole, Chain
<1>3. Whole(r, t) = Cat(Cat(g, o), Cat(<<>>, r4))
  BY DEF Whole, Chain, Carries
<1>4. Cat(Cat(g, o), Cat(<<>>, r4)) = Cat(g, Cat(o, r4))
  <2> HIDE DEF g, o, r4
  <2> QED BY <1>1, CatAssoc, CatEmpty
<1> QED BY <1>2, <1>3, <1>4

(* The server has written x.                                                *)
LEMMA WriteMove ==
    ASSUME NEW q \in ConnType, NEW t \in TaskType, NEW r, NEW s, NEW x \in Seq(Bytes), NEW y \in Seq(Bytes),
           Cat(x, y) = t.todo, Carries(r, q, q.unsent, q.in, Cat(q.out, x), q.got),
           Holds(s, y, t.rio.user, t.rio.buf)
    PROVE  Whole(r, s) = Whole(q, t)
<1> DEFINE g == q.got  o == q.out  i == q.in  n == q.unsent
           d == t.todo  u == t.rio.user  b == t.rio.buf
           r1 == Cat(i, n)  r2 == Cat(b, r1)  r3 == Cat(u, r2)  r4 == Cat(d, r3)
<1>1. /\ g \in Seq(Bytes) /\ o \in Seq(Bytes) /\ i \in Seq(Bytes) /\ n \in Seq(Bytes)
      /\ d \in Seq(Bytes) /\ u \in Seq(Bytes) /\ b \in Seq(Bytes)
      /\ r1 \in Seq(Bytes) /\ r2 \in Seq(Bytes) /\ r3 \in Seq(Bytes) /\ r4 \in Seq(Bytes)
  BY Rests
<1>2. Whole(q, t) = Cat(g, Cat(o, r4))
  BY DEF Whole, Chain
<1>3. Whole(r, s) = Cat(g, Cat(Cat(o, x), Cat(y, r3)))
  BY DEF Whole, Chain, Carries, Holds
<1>4. Cat(Cat(o, x), Cat(y, r3)) = Cat(o, Cat(Cat(x, y), r3))
  <2> HIDE DEF o, r3
  <2>1. Cat(y, r3) \in Seq(Bytes)
    BY <1>1, CatTyped
  <2>2. Cat(Cat(o, x), Cat(y, r3)) = Cat(o, Cat(x, Cat(y, r3)))
    BY <1>1, <2>1, CatAssoc
  <2> QED BY <1>1, <2>2, CatAssoc
<1> QED BY <1>2, <1>3, <1>4

(* x has been copied to the line.                                           *)
LEMMA CopyMove ==
    ASSUME NEW q \in ConnType, NEW t \in TaskType, NEW s, NEW x \in Seq(Bytes), NEW y \in Seq(Bytes),
           Cat(x, y) = t.rio.buf, Holds(s, t.todo, Cat(t.rio.user, x), y)
    PROVE  Whole(q, s) = Whole(q, t)
<1> DEFINE g == q.got  o == q.out  i == q.in  n == q.unsent
           d == t.todo  u == t.rio.user  b == t.rio.buf
           r1 == Cat(i, n)  r2 == Cat(b, r1)  r3 == Cat(u, r2)  r4 == Cat(d, r3)
<1>1. /\ g \in Seq(Bytes) /\ o \in Seq(Bytes) /\ i \in Seq(Bytes) /\ n \in Seq(Bytes)
      /\ d \in Seq(Bytes) /\ u \in Seq(Bytes) /\ b \in Seq(Bytes)
      /\ r1 \in Seq(Bytes) /\ r2 \in Seq(Bytes) /\ r3 \in Seq(Bytes) /\ r4 \in Seq(Bytes)
  BY Rests
<1>2. Whole(q, t) = Cat(g, Cat(o, r4))
  BY DEF Whole, Chain
<1>3. Whole(q, s) = Cat(g, Cat(o, Cat(d, Cat(Cat(u, x), Cat(y, r1)))))
  BY DEF Whole, Chain, Holds
<1>4. Cat(Cat(u, x), Cat(y, r1)) = Cat(u, Cat(Cat(x, y), r1))
  <2> HIDE DEF u, r1
  <2>1. Cat(y, r1) \in Seq(Bytes)
    BY <1>1, CatTyped
  <2>2. Cat(Cat(u, x), Cat(y, r1)) = Cat(u, Cat(x, Cat(y, r1)))
    BY <1>1, <2>1, CatAssoc
  <2> QED BY <1>1, <2>2, CatAssoc
<1> QED BY <1>2, <1>3, <1>4

(* x has been read into the empty rio_buf.                                  *)
LEMMA RefillMove ==
    ASSUME NEW q \in ConnType, NEW t \in TaskType, NEW r, NEW s, NEW x \in Seq(Bytes), NEW y \in Seq(Bytes),
           Cat(x, y) = q.in, t.rio.buf = <<>>, Carries(r, q, q.unsent, y, q.out, q.got),
           Holds(s, t.todo, t.rio.user, x)
    PROVE  Whole(r, s) = Whole(q, t)
<1> DEFINE g == q.got  o == q.out  i == q.in  n == q.unsent
           d == t.todo  u == t.rio.user  b == t.rio.buf
           r1 == Cat(i, n)  r2 == Cat(b, r1)  r3 == Cat(u, r2)  r4 == Cat(d, r3)
<1>1. /\ g \in Seq(Bytes) /\ o \in Seq(Bytes) /\ i \in Seq(Bytes) /\ n \in Seq(Bytes)
      /\ d \in Seq(Bytes) /\ u \in Seq(Bytes) /\ b \in Seq(Bytes)
      /\ r1 \in Seq(Bytes) /\ r2 \in Seq(Bytes) /\ r3 \in Seq(Bytes) /\ r4 \in Seq(Bytes)
  BY Rests
<1>2. Whole(q, t) = Cat(g, Cat(o, r4))
  BY DEF Whole, Chain
<1>3. Whole(r, s) = Cat(g, Cat(o, Cat(d, Cat(u, Cat(x, Cat(y, n))))))
  BY DEF Whole, Chain, Carries, Holds
<1>4. Cat(x, Cat(y, n)) = Cat(Cat(x, y), n)
  <2> HIDE DEF n
  <2> QED BY <1>1, CatAssoc
<1>5. r2 = r1
  <2>1. b = <<>>
    OBVIOUS
  <2> HIDE DEF b, r1
  <2> QED BY <1>1, <2>1, CatEmpty
<1> QED BY <1>2, <1>3, <1>4, <1>5

(* The line is returned.                                                    *)
LEMMA LineMove ==
    ASSUME NEW q \in ConnType, NEW t \in TaskType, NEW s, t.todo = <<>>, Holds(s, t.rio.user, <<>>, t.rio.buf)
    PROVE  Whole(q, s) = Whole(q, t)
<1> DEFINE g == q.got  o == q.out  i == q.in  n == q.unsent
           d == t.todo  u == t.rio.user  b == t.rio.buf
           r1 == Cat(i, n)  r2 == Cat(b, r1)  r3 == Cat(u, r2)  r4 == Cat(d, r3)
<1>1. /\ g \in Seq(Bytes) /\ o \in Seq(Bytes) /\ i \in Seq(Bytes) /\ n \in Seq(Bytes)
      /\ d \in Seq(Bytes) /\ u \in Seq(Bytes) /\ b \in Seq(Bytes)
      /\ r1 \in Seq(Bytes) /\ r2 \in Seq(Bytes) /\ r3 \in Seq(Bytes) /\ r4 \in Seq(Bytes)
  BY Rests
<1>2. Whole(q, t) = Cat(g, Cat(o, r4))
  BY DEF Whole, Chain
<1>3. Whole(q, s) = Cat(g, Cat(o, Cat(u, Cat(<<>>, r2))))
  BY DEF Whole, Chain, Holds
<1>4. Cat(<<>>, r2) = r2 /\ Cat(<<>>, r3) = r3
  <2> HIDE DEF r2, r3
  <2> QED BY <1>1, CatEmpty
<1>5. d = <<>>
  OBVIOUS
<1> QED BY <1>2, <1>3, <1>4, <1>5

(* x has been received, to be sent.                                         *)
LEMMA RecvMove ==
    ASSUME NEW q \in ConnType, NEW t \in TaskType, NEW r, NEW s, Holds(t, <<>>, <<>>, <<>>),
           NEW x \in Seq(Bytes), NEW y \in Seq(Bytes), Cat(x, y) = q.in,
           Carries(r, q, q.unsent, y, q.out, q.got), Holds(s, x, <<>>, <<>>)
    PROVE  Whole(r, s) = Whole(q, t)
<1> DEFINE g == q.got  o == q.out  i == q.in  n == q.unsent
           d == t.todo  u == t.rio.user  b == t.rio.buf
           r1 == Cat(i, n)  r2 == Cat(b, r1)  r3 == Cat(u, r2)  r4 == Cat(d, r3)
<1>1. /\ g \in Seq(Bytes) /\ o \in Seq(Bytes) /\ i \in Seq(Bytes) /\ n \in Seq(Bytes)
      /\ d \in Seq(Bytes) /\ u \in Seq(Bytes) /\ b \in Seq(Bytes)
      /\ r1 \in Seq(Bytes) /\ r2 \in Seq(Bytes) /\ r3 \in Seq(Bytes) /\ r4 \in Seq(Bytes)
  BY Rests
<1>2. Whole(q, t) = Cat(g, Cat(o, r4))
  BY DEF Whole, Chain
<1> DEFINE z == Cat(y, n)
<1>3. Whole(r, s) = Cat(g, Cat(o, Cat(x, Cat(<<>>, Cat(<<>>, z)))))
  BY DEF Whole, Chain, Carries, Holds
<1>4. Cat(<<>>, z) = z /\ Cat(<<>>, r1) = r1
  <2>1. z \in Seq(Bytes)
    <3> HIDE DEF n
    <3> QED BY <1>1, CatTyped
  <2> HIDE DEF r1, z
  <2> QED BY <1>1, <2>1, CatEmpty
<1>5. d = <<>> /\ u = <<>> /\ b = <<>>
  BY DEF Holds
<1>6. Cat(x, z) = r1
  <2> HIDE DEF n
  <2> QED BY <1>1, CatAssoc
<1> QED BY <1>2, <1>3, <1>4, <1>5, <1>6

(* What recv takes and what it leaves.                                      *)
LEMMA Received ==
    ASSUME NEW q \in ConnType
    PROVE  LET n == Min({MaxLine, Len(q.in)}) IN
             /\ SubSeq(q.in, 1, n) \in Seq(Bytes) /\ Drop(q.in, n) \in Seq(Bytes)
             /\ Cat(SubSeq(q.in, 1, n), Drop(q.in, n)) = q.in
<1> DEFINE n == Min({MaxLine, Len(q.in)})
<1>1. q.in \in Seq(Bytes) /\ Len(q.in) \in Nat /\ MaxLine \in Nat
  BY RioAssumption, LenProperties DEF ConnType
<1>2. n \in 0 .. Len(q.in)
  BY <1>1, LeastOfTwo
<1> HIDE DEF n
<1>3. SubSeq(q.in, 1, n) \in Seq(Bytes) /\ Drop(q.in, n) \in Seq(Bytes)
      /\ Cat(SubSeq(q.in, 1, n), Drop(q.in, n)) = q.in
  BY <1>1, <1>2, Split DEF Cat
<1> QED BY <1>3 DEF n

(* What an int holds is an integer.                                         *)
LEMMA IntIs ==
    ASSUME NEW x \in Int
    PROVE  AsInt(x) \in Int
<1>1. 2 * IntMax + 2 \in Nat \ {0}
  BY IntAssumption
<1>2. x % (2 * IntMax + 2) \in Int
  BY <1>1
<1> QED BY <1>1, <1>2, IntAssumption DEF AsInt

(* A multiple that is less than the number either way is 0.                 *)
LEMMA Multiple ==
    ASSUME NEW m \in Nat \ {0}, NEW z \in Int, m * z < m, m * z > 0 - m
    PROVE  z = 0
<1>1. ASSUME z >= 1 PROVE FALSE
  <2>1. m * (z - 1) >= 0
    BY <1>1
  <2>2. m * (z - 1) = m * z - m
    OBVIOUS
  <2> QED BY <2>1, <2>2
<1>2. ASSUME z <= 0 - 1 PROVE FALSE
  <2>1. m * (0 - 1 - z) >= 0
    BY <1>2
  <2>2. m * (0 - 1 - z) = 0 - m - m * z
    OBVIOUS
  <2> QED BY <2>1, <2>2
<1> QED BY <1>1, <1>2

(* A number by its quotient and remainder.                                  *)
LEMMA Remainder ==
    ASSUME NEW m \in Nat \ {0}, NEW a \in Int
    PROVE  /\ a % m \in 0 .. m - 1 /\ a \div m \in Int
           /\ a = m * (a \div m) + (a % m)
OBVIOUS

(* Adding a multiple does not change the remainder.                         *)
LEMMA Shifted ==
    ASSUME NEW m \in Nat \ {0}, NEW a \in Int, NEW b \in Int, NEW k \in Int, a = b + m * k
    PROVE  a % m = b % m
<1> DEFINE r == a % m  s == b % m  p == a \div m  q == b \div m
<1>1. r \in 0 .. m - 1 /\ s \in 0 .. m - 1 /\ p \in Int /\ q \in Int
      /\ a = m * p + r /\ b = m * q + s
  BY Remainder
<1> HIDE DEF r, s, p, q
<1>2. m * (q + k - p) = r - s
  BY <1>1
<1>3. q + k - p = 0
  BY <1>1, <1>2, Multiple
<1>4. r = s
  BY <1>1, <1>2, <1>3
<1> QED BY <1>4 DEF r, s

(* It is the number up to a multiple of how many an int can tell apart.     *)
LEMMA IntNear ==
    ASSUME NEW x \in Int
    PROVE  \E k \in Int : AsInt(x) = x + (2 * IntMax + 2) * k
<1> DEFINE m == 2 * IntMax + 2  r == x % m  p == x \div m
<1>1. m \in Nat \ {0}
  BY IntAssumption
<1> HIDE DEF m
<1>2. r \in Int /\ p \in Int /\ x = m * p + r
  BY <1>1, Remainder
<1>3. AsInt(x) = r \/ AsInt(x) = r - m
  BY DEF AsInt, m
<1> HIDE DEF r, p
<1>4. r = x + m * (0 - p) /\ r - m = x + m * (0 - p - 1)
  <2>1. m * (0 - p) = 0 - m * p /\ m * (0 - p - 1) = 0 - m * p - m
    BY <1>1, <1>2
  <2> QED BY <1>1, <1>2, <2>1
<1>5. 0 - p \in Int /\ 0 - p - 1 \in Int
  BY <1>1, <1>2
<1>6. \E k \in Int : AsInt(x) = x + m * k
  <2>1. CASE AsInt(x) = r
    BY <1>4, <1>5, <2>1
  <2>2. CASE AsInt(x) = r - m
    BY <1>4, <1>5, <2>2
  <2> QED BY <1>3, <2>1, <2>2
<1> QED BY <1>6 DEF m

(* So overflow on the way to a sum makes no difference to what is left.     *)
LEMMA IntAdds ==
    ASSUME NEW x \in Int, NEW n \in Int
    PROVE  AsInt(AsInt(x) + n) = AsInt(x + n)
<1> DEFINE m == 2 * IntMax + 2
           a == AsInt(x)
<1>1. m \in Nat \ {0}
  BY IntAssumption
<1> HIDE DEF m
<1>2. a \in Int /\ \E k \in Int : a = x + m * k
  BY IntIs, IntNear DEF m
<1> HIDE DEF a
<1>3. PICK k \in Int : a = x + m * k
  BY <1>2
<1>4. a + n = x + n + m * k
  BY <1>1, <1>3
<1>5. (a + n) % m = (x + n) % m
  <2>1. a + n \in Int /\ x + n \in Int
    BY <1>2
  <2> QED BY <1>1, <1>4, <2>1, Shifted
<1>6. AsInt(a + n) = AsInt(x + n)
  BY <1>5 DEF AsInt, m
<1> QED BY <1>6 DEF a

(* ClientSend keeps the invariant.                                          *)
LEMMA ClientSendSafe ==
    ASSUME Typed, Safe, NEW c \in Clients, ClientSend(c), ev' \in EvType,
           UNCHANGED <<sys, main, task, kids, pool>>
    PROVE  Typed' /\ Safe'
<1>1. PICK n \in Taking(conn[c].unsent) :
        Changes(c, [conn[c] EXCEPT !.unsent = Drop(@, n),
                                   !.in = @ \o SubSeq(conn[c].unsent, 1, n)])
  BY DEF ClientSend
<1> DEFINE p == SubSeq(conn[c].unsent, 1, n)
           q == Drop(conn[c].unsent, n)
           i == Cat(conn[c].in, p)
           r == [conn[c] EXCEPT !.unsent = q, !.in = i]
<1>2. conn' = [conn EXCEPT ![c] = r] /\ UNCHANGED <<kind, msg, backlog>>
  BY <1>1 DEF Changes, Cat
<1>3. n \in 0 .. Len(conn[c].unsent)
  BY <1>1, ConnFields, LenProperties DEF Taking
<1>4. p \in Seq(Bytes) /\ q \in Seq(Bytes) /\ Cat(p, q) = conn[c].unsent
  BY <1>3, Split, ConnFields DEF Cat
<1> HIDE DEF p, q
<1>5. i \in Seq(Bytes)
  BY <1>4, ConnFields, CatTyped
<1> HIDE DEF i
<1>6. Carries(r, conn[c], q, i, conn[c].out, conn[c].got)
  BY <1>4, <1>5, ConnFields, Carried
<1> HIDE DEF r
<1>7. Whole(r, task[c]) = Whole(conn[c], task[c])
  BY <1>4, <1>6, SendMove, ConnFields, TaskFields DEF i
<1>8. Regular(c)
  BY DEF Safe
<1> QED BY <1>2, <1>6, <1>7, <1>8, LocalConn DEF Carries, Regular

(* ClientRead keeps the invariant.                                          *)
LEMMA ClientReadSafe ==
    ASSUME Typed, Safe, NEW c \in Clients, ClientRead(c), UNCHANGED ev,
           UNCHANGED <<sys, main, task, kids, pool>>
    PROVE  Typed' /\ Safe'
<1> DEFINE e == <<>>
           g == Cat(conn[c].got, conn[c].out)
           r == [conn[c] EXCEPT !.out = e, !.got = g]
<1>1. conn' = [conn EXCEPT ![c] = r] /\ UNCHANGED <<kind, msg, backlog>>
  BY DEF ClientRead, Changes, Cat
<1>2. conn[c].got \in Seq(Bytes) /\ conn[c].out \in Seq(Bytes) /\ e \in Seq(Bytes)
  BY ConnFields
<1>3. g \in Seq(Bytes)
  BY <1>2, CatTyped
<1> HIDE DEF g, e
<1>4. Carries(r, conn[c], conn[c].unsent, conn[c].in, e, g)
  BY <1>2, <1>3, ConnFields, Carried
<1> HIDE DEF r
<1>5. Regular(c) /\ ev' \in EvType
  BY DEF Safe, Typed
<1>6. Whole(r, task[c]) = Whole(conn[c], task[c])
  BY <1>4, ReadMove, ConnFields, TaskFields DEF g, e
<1> QED BY <1>1, <1>4, <1>5, <1>6, LocalConn DEF Carries, Regular

(* ClientShut and ClientReset keep the invariant.                           *)
LEMMA ClientEndsSafe ==
    ASSUME Typed, Safe, NEW c \in Clients, ClientShut(c) \/ ClientReset(c), ev' \in EvType,
           UNCHANGED <<sys, main, task, kids, pool>>
    PROVE  Typed' /\ Safe'
<1>1. Regular(c) /\ conn[c] \in ConnType
  BY ConnFields DEF Safe
<1> DEFINE b == TRUE  e == <<>>
<1>0. b \in BOOLEAN /\ b /\ e \in Seq(Bytes)
  OBVIOUS
<1>2. CASE ClientShut(c)
  <2> DEFINE r == [conn[c] EXCEPT !.fin = b]
  <2>1. conn' = [conn EXCEPT ![c] = r] /\ UNCHANGED <<kind, msg, backlog>>
    BY <1>2 DEF ClientShut, Changes
  <2> HIDE DEF b
  <2>2. Carries(r, conn[c], conn[c].unsent, conn[c].in, conn[c].out, conn[c].got)
    BY <1>0, <1>1, Ending
  <2> HIDE DEF r
  <2> QED BY <1>1, <2>1, <2>2, WholeOf, LocalConn DEF Carries, Regular, Whole
<1>3. CASE ClientReset(c)
  <2>0. PICK n \in 0 .. Len(conn[c].in) :
          Changes(c, [conn[c] EXCEPT !.gone = TRUE, !.err = TRUE, !.fin = TRUE, !.out = <<>>,
                                     !.in = SubSeq(@, 1, n),
                                     !.unsent = Drop(conn[c].in, n) \o @])
    BY <1>3 DEF ClientReset
  <2> DEFINE i == SubSeq(conn[c].in, 1, n)
             d == Drop(conn[c].in, n)
             u == Cat(d, conn[c].unsent)
             r == [conn[c] EXCEPT !.gone = b, !.err = b, !.fin = b, !.out = e, !.in = i, !.unsent = u]
  <2>1. conn' = [conn EXCEPT ![c] = r] /\ UNCHANGED <<kind, msg, backlog>>
    BY <2>0 DEF Changes, Cat
  <2>3. i \in Seq(Bytes) /\ d \in Seq(Bytes) /\ conn[c].unsent \in Seq(Bytes)
    BY ConnFields, Split
  <2> HIDE DEF b, e, i, d
  <2>4. u \in Seq(Bytes)
    BY <2>3, CatTyped
  <2> HIDE DEF u
  <2>2. IsReset(r, conn[c], b)
    BY <1>0, <1>1, <2>3, <2>4, Resetting
  <2> HIDE DEF r
  <2> QED BY <1>0, <2>1, <2>2, LocalConn DEF IsReset
<1> QED BY <1>2, <1>3

-----------------------------------------------------------------------------
(* rio_readlineb copies what comes first in the buffer and fits in the line. *)
LEMMA CopiedIs ==
    ASSUME NEW r \in RioType, Len(r.user) <= MaxLine - 1
    PROVE  \E x, y \in Seq(Bytes) :
              /\ Cat(x, y) = r.buf
              /\ Copied(r) \in RioType /\ Copied(r).buf = y /\ Copied(r).user = Cat(r.user, x)
              /\ Len(Copied(r).user) <= MaxLine - 1
<1> DEFINE ends == {i \in DOMAIN r.buf : r.buf[i] = NL}
           S == ends \cup {Len(r.buf), MaxLine - 1 - Len(r.user)}
           n == Min(S)
           x == SubSeq(r.buf, 1, n)
           y == Drop(r.buf, n)
           z == Cat(r.user, x)
<1>1. r.buf \in Seq(Bytes) /\ r.user \in Seq(Bytes)
  BY DEF RioType
<1>2. Len(r.buf) \in Nat /\ Len(r.user) \in Nat /\ DOMAIN r.buf = 1 .. Len(r.buf)
  BY <1>1, LenProperties
<1>3. S \subseteq Nat
  <2>1. MaxLine - 1 - Len(r.user) \in Nat
    BY <1>2, RioAssumption
  <2>2. ends \subseteq Nat
    BY <1>2
  <2> HIDE DEF ends
  <2> QED BY <1>2, <2>1, <2>2
<1>4. n \in S /\ \A i \in S : n <= i
  <2> HIDE DEF S
  <2>1. S # {}
    BY DEF S
  <2> QED BY <1>3, <2>1, LeastIn
<1>5. n \in 0 .. Len(r.buf) /\ n <= MaxLine - 1 - Len(r.user)
  <2>1. Len(r.buf) \in S /\ MaxLine - 1 - Len(r.user) \in S
    OBVIOUS
  <2>2. n \in Nat /\ n <= Len(r.buf) /\ n <= MaxLine - 1 - Len(r.user)
    <3> HIDE DEF S, n
    <3> QED BY <1>3, <1>4, <2>1
  <2> HIDE DEF S, n
  <2> QED BY <1>2, <2>2
<1>6. Copied(r) = [buf |-> y, user |-> z]
  BY DEF Copied, Drop, Cat
<1> HIDE DEF S, n
<1>7. x \in Seq(Bytes) /\ y \in Seq(Bytes) /\ Cat(x, y) = r.buf /\ Len(x) = n
  BY <1>1, <1>5, Split DEF Cat
<1> HIDE DEF x, y
<1>8. z \in Seq(Bytes) /\ Len(z) = Len(r.user) + n
  BY <1>1, <1>7, CatTyped
<1> HIDE DEF z
<1>9. Copied(r) \in RioType /\ Copied(r).buf = y /\ Copied(r).user = z /\ Len(z) <= MaxLine - 1
  BY <1>2, <1>5, <1>6, <1>7, <1>8, RioAssumption DEF RioType
<1> QED BY <1>7, <1>9 DEF z

(* A line that has been returned leaves rio_buf as it is.                   *)
LEMMA ReturnedRio ==
    ASSUME NEW r \in RioType
    PROVE  Returned(r) \in RioType /\ Returned(r).user = <<>> /\ Returned(r).buf = r.buf
<1> DEFINE e == <<>>
<1>1. e \in Seq(Bytes)
  OBVIOUS
<1>2. Returned(r) = [r EXCEPT !.user = e]
  BY DEF Returned
<1> HIDE DEF e
<1>3. [r EXCEPT !.user = e] \in RioType /\ [r EXCEPT !.user = e].user = e
      /\ [r EXCEPT !.user = e].buf = r.buf
  BY <1>1 DEF RioType
<1> QED BY <1>2, <1>3 DEF e

(* The fields of a task that LineOr makes.                                  *)
LEMMA LineOrTask ==
    ASSUME NEW r \in RioType, NEW next \in {"write", "P"}, Len(r.user) <= MaxLine - 1
    PROVE  /\ LineOr(r, next) \in TaskType /\ Shape(LineOr(r, next))
           /\ LineOr(r, next).at # "none"
           /\ \/ Holds(LineOr(r, next), <<>>, r.user, r.buf)
              \/ Holds(LineOr(r, next), r.user, <<>>, r.buf)
<1>1. r.buf \in Seq(Bytes) /\ r.user \in Seq(Bytes)
  BY DEF RioType
<1>2. CASE LineRead(r)
  <2> DEFINE k == Returned(r)
  <2>1. LineOr(r, next) = [at |-> next, rio |-> k, todo |-> r.user, reg |-> 0]
    BY <1>2 DEF LineOr
  <2>2. k \in RioType /\ k.user = <<>> /\ k.buf = r.buf
    BY ReturnedRio
  <2> HIDE DEF k
  <2>3. Len(k.user) <= MaxLine - 1
    BY <2>2, RioAssumption
  <2>4. LineOr(r, next) \in TaskType
    BY <1>1, <2>1, <2>2 DEF TaskType
  <2> QED BY <2>1, <2>2, <2>3, <2>4 DEF Shape, Holds
<1>3. CASE ~LineRead(r)
  <2>1. LineOr(r, next) = [at |-> "read", rio |-> r, todo |-> <<>>, reg |-> 0]
    BY <1>3 DEF LineOr
  <2> QED BY <1>1, <2>1 DEF TaskType, Shape, Holds
<1> QED BY <1>2, <1>3

(* Copying to the line and returning it keep the chain.                     *)
LEMMA CopyLine ==
    ASSUME NEW q \in ConnType, NEW m \in TaskType, m.todo = <<>>,
           Len(m.rio.user) <= MaxLine - 1, NEW next \in {"write", "P"},
           NEW s, s = LineOr(Copied(m.rio), next)
    PROVE  s \in TaskType /\ Shape(s) /\ s.at # "none" /\ Whole(q, s) = Whole(q, m)
<1>1. m.rio \in RioType
  BY DEF TaskType
<1>2. PICK x \in Seq(Bytes), y \in Seq(Bytes) :
        /\ Cat(x, y) = m.rio.buf
        /\ Copied(m.rio) \in RioType /\ Copied(m.rio).buf = y
        /\ Copied(m.rio).user = Cat(m.rio.user, x)
        /\ Len(Copied(m.rio).user) <= MaxLine - 1
  BY <1>1, CopiedIs
<1> DEFINE r == Copied(m.rio)
           k == [at |-> "read", rio |-> r, todo |-> <<>>, reg |-> 0]
<1>3. s \in TaskType /\ Shape(s) /\ s.at # "none"
      /\ (Holds(s, <<>>, r.user, r.buf) \/ Holds(s, r.user, <<>>, r.buf))
  <2> HIDE DEF r
  <2> QED BY <1>2, LineOrTask DEF r
<1>4. k \in TaskType /\ k.todo = <<>> /\ k.rio = r
  <2> HIDE DEF r
  <2> QED BY <1>2 DEF TaskType, r
<1> HIDE DEF k
<1>5. Whole(q, k) = Whole(q, m)
  BY <1>2, <1>4, CopyMove DEF Holds
<1>6. Whole(q, s) = Whole(q, k)
  <2>1. CASE Holds(s, <<>>, r.user, r.buf)
    BY <1>4, <2>1 DEF Holds, Whole
  <2>2. CASE Holds(s, r.user, <<>>, r.buf)
    BY <1>4, <2>2, LineMove
  <2> QED BY <1>3, <2>1, <2>2
<1> QED BY <1>3, <1>5, <1>6

-----------------------------------------------------------------------------
(* Rio_readlineb.                                                           *)
LEMMA ReadLineSafe ==
    ASSUME Typed, Safe, NEW c \in Clients, NEW next \in {"write", "P"}, Rio_readlineb(c, next),
           sys.design \notin {"recv", "epoll"}, UNCHANGED <<pool, ev>>
    PROVE  Typed' /\ Safe'
<1> DEFINE t == task[c]
<1>1. /\ t \in TaskType /\ t.at = "read" /\ t.todo = <<>> /\ t.rio \in RioType
      /\ t.rio.user \in Seq(Bytes) /\ Len(t.rio.user) <= MaxLine - 1
      /\ conn[c] \in ConnType /\ conn[c].in \in Seq(Bytes) /\ Regular(c)
  BY TaskFields, ConnFields DEF Rio_readlineb, Safe, Regular, Shape
<1>2. UNCHANGED <<sys, main>> /\ pool' \in PoolType /\ ev' \in EvType
      /\ (sys.design # "pool" => pool'.running = {})
  BY DEF Rio_readlineb, Typed, Safe, InStep
<1>3. CASE /\ NeedsRead(t.rio) /\ Ready(c)
           /\ LET n == Min({RioBuf, Len(conn[c].in)}) IN
                /\ Changes(c, [conn[c] EXCEPT !.in = Drop(@, n)])
                /\ SetTask(c, LineOr(Copied(Refilled(t.rio, SubSeq(conn[c].in, 1, n))), next))
  <2> DEFINE n == Min({RioBuf, Len(conn[c].in)})
             x == SubSeq(conn[c].in, 1, n)
             y == Drop(conn[c].in, n)
             r == [conn[c] EXCEPT !.in = y]
             m == [at |-> "read", rio |-> Refilled(t.rio, x), todo |-> <<>>, reg |-> 0]
             s == LineOr(Copied(m.rio), next)
  <2>1. conn' = [conn EXCEPT ![c] = r] /\ task' = [task EXCEPT ![c] = s]
        /\ UNCHANGED <<kind, msg, backlog>> /\ t.rio.buf = <<>>
    BY <1>3 DEF Changes, SetTask, NeedsRead
  <2>2. n \in 0 .. Len(conn[c].in)
    <3>1. Len(conn[c].in) \in Nat /\ RioBuf \in Nat
      BY <1>1, LenProperties, RioAssumption
    <3> QED BY <3>1, LeastOfTwo
  <2> HIDE DEF n
  <2>3. x \in Seq(Bytes) /\ y \in Seq(Bytes) /\ Cat(x, y) = conn[c].in
    BY <1>1, <2>2, Split DEF Cat
  <2> HIDE DEF x, y
  <2>4. m \in TaskType /\ m.todo = <<>> /\ m.rio.user = t.rio.user /\ m.rio.buf = x
    <3>1. Refilled(t.rio, x) \in RioType /\ Refilled(t.rio, x).buf = x
          /\ Refilled(t.rio, x).user = t.rio.user
      BY <1>1, <2>3 DEF Refilled, RioType
    <3> QED BY <3>1 DEF TaskType
  <2>5. Carries(r, conn[c], conn[c].unsent, y, conn[c].out, conn[c].got)
    BY <1>1, <2>3, ConnFields, Carried
  <2> HIDE DEF r, m
  <2>6. Whole(r, m) = Whole(conn[c], t)
    <3>1. Holds(m, t.todo, t.rio.user, x)
      BY <1>1, <2>4 DEF Holds
    <3>2. t.rio.buf = <<>> /\ t \in TaskType /\ conn[c] \in ConnType
      BY <1>1, <2>1
    <3> HIDE DEF t
    <3> QED BY <2>3, <2>5, <3>1, <3>2, RefillMove
  <2>7. s \in TaskType /\ Shape(s) /\ s.at # "none" /\ Whole(r, s) = Whole(r, m)
    BY <1>1, <2>4, <2>5, CopyLine DEF Carries
  <2> HIDE DEF s
  <2> QED BY <1>1, <1>2, <2>1, <2>5, <2>6, <2>7, Local DEF Carries, Regular
<1>4. CASE /\ t.rio.buf # <<>>
           /\ SetTask(c, LineOr(Copied(t.rio), next))
           /\ UNCHANGED connVars
  <2> DEFINE s == LineOr(Copied(t.rio), next)
  <2>1. s \in TaskType /\ Shape(s) /\ s.at # "none" /\ Whole(conn[c], s) = Whole(conn[c], t)
    BY <1>1, CopyLine
  <2>2. SetTask(c, s)
    BY <1>4
  <2> HIDE DEF s
  <2> QED BY <1>1, <1>2, <1>4, <2>1, <2>2, LocalTask
<1> QED BY <1>3, <1>4 DEF Rio_readlineb

(* RioEnd keeps the invariant.                                              *)
LEMMA RioEndSafe ==
    ASSUME Typed, Safe, NEW c \in Clients, NEW next \in {"write", "P"}, RioEnd(c, next),
           sys.design \notin {"recv", "epoll"}, UNCHANGED <<pool, ev>>
    PROVE  Typed' /\ Safe'
<1> DEFINE t == task[c]
<1>1. /\ t \in TaskType /\ t.at = "read" /\ t.todo = <<>> /\ t.rio \in RioType
      /\ t.rio.user \in Seq(Bytes) /\ Len(t.rio.user) <= MaxLine - 1 /\ t.rio.buf = <<>>
      /\ conn[c] \in ConnType
  BY TaskFields, ConnFields DEF RioEnd, Safe, Regular, Shape, NeedsRead
<1>2. UNCHANGED <<connVars, sys, main>> /\ pool' \in PoolType
      /\ (sys.design # "pool" => pool'.running = {})
  BY DEF RioEnd, Typed, Safe, InStep
<1>3. CASE t.rio.user = <<>>
  <2> DEFINE s == [t EXCEPT !.at = "close"]
  <2>1. SetTask(c, s)
    BY <1>3 DEF RioEnd
  <2>2. s \in TaskType /\ s.at = "close" /\ s.todo = t.todo /\ s.rio = t.rio
    BY <1>1 DEF TaskType
  <2> HIDE DEF s
  <2> QED BY <1>1, <1>2, <1>3, <2>1, <2>2, LocalTask DEF Shape, Whole
<1>4. CASE t.rio.user # <<>>
  <2> DEFINE k == Returned(t.rio)
             s == [at |-> next, rio |-> k, todo |-> t.rio.user, reg |-> 0]
  <2>1. SetTask(c, s)
    BY <1>4 DEF RioEnd
  <2>2. k \in RioType /\ k.user = <<>> /\ k.buf = t.rio.buf
    BY <1>1, ReturnedRio
  <2> HIDE DEF k
  <2>3. s \in TaskType /\ s.at = next /\ Holds(s, t.rio.user, <<>>, t.rio.buf)
    BY <1>1, <2>2 DEF TaskType, Holds
  <2>4. Shape(s)
    BY <1>1, <2>3, RioAssumption DEF Shape, Holds
  <2> HIDE DEF s
  <2>5. Whole(conn[c], s) = Whole(conn[c], t)
    BY <1>1, <2>3, LineMove
  <2> QED BY <1>1, <1>2, <2>1, <2>3, <2>4, <2>5, LocalTask
<1> QED BY <1>3, <1>4

(* rio_writen keeps the invariant.                                          *)
LEMMA WritenSafe ==
    ASSUME Typed, Safe, NEW c \in Clients, rio_writen(c), UNCHANGED <<pool, ev>>,
           sys.design # "epoll"
    PROVE  Typed' /\ Safe'
<1> DEFINE t == task[c]
           n == Min({Len(t.todo), sys.window - Len(conn[c].out)})
           x == SubSeq(t.todo, 1, n)
           y == Drop(t.todo, n)
           o == Cat(conn[c].out, x)
           a == IF n = Len(t.todo) THEN "read" ELSE "write"
           r == [conn[c] EXCEPT !.out = o]
           s == [t EXCEPT !.todo = y, !.at = a]
<1>1. /\ t \in TaskType /\ t.at = "write" /\ t.rio.user = <<>> /\ t.todo \in Seq(Bytes)
      /\ conn[c] \in ConnType /\ conn[c].out \in Seq(Bytes) /\ Regular(c)
  BY TaskFields, ConnFields DEF rio_writen, Safe, Regular, Shape
<1>2. UNCHANGED <<sys, main, kind, msg, backlog>> /\ pool' \in PoolType /\ ev' \in EvType
      /\ (sys.design # "pool" => pool'.running = {})
  BY DEF rio_writen, Typed, Safe, InStep, Changes
<1>3. n > 0 /\ conn' = [conn EXCEPT ![c] = r] /\ task' = [task EXCEPT ![c] = s]
  BY DEF rio_writen, Changes, SetTask, Cat
<1>4. n \in 1 .. Len(t.todo)
  <2> DEFINE S == {Len(t.todo), sys.window - Len(conn[c].out)}
  <2>1. Len(t.todo) \in Nat /\ sys.window \in Nat /\ Len(conn[c].out) \in Nat
    BY <1>1, LenProperties, EchoAssumption DEF Typed
  <2>2. n \in S /\ n <= Len(t.todo)
    <3>1. ASSUME sys.window - Len(conn[c].out) \in Nat PROVE n \in S /\ n <= Len(t.todo)
      BY <2>1, <3>1, LeastOfTwo
    <3>2. ASSUME sys.window - Len(conn[c].out) \notin Nat PROVE FALSE
      <4>1. S \subseteq Int /\ sys.window - Len(conn[c].out) < Len(t.todo)
            /\ sys.window - Len(conn[c].out) < 0
        BY <2>1, <3>2
      <4>2. n = sys.window - Len(conn[c].out)
        BY <4>1, <2>1 DEF Min
      <4> QED BY <4>1, <4>2, <1>3
    <3> QED BY <3>1, <3>2
  <2> HIDE DEF n
  <2> QED BY <1>3, <2>1, <2>2
<1> HIDE DEF n
<1>5. x \in Seq(Bytes) /\ y \in Seq(Bytes) /\ Cat(x, y) = t.todo
      /\ (n = Len(t.todo) => y = <<>>)
  <2>1. n \in 0 .. Len(t.todo) /\ Len(t.todo) \in Nat
    BY <1>1, <1>4, LenProperties
  <2>2. x \in Seq(Bytes) /\ y \in Seq(Bytes) /\ Cat(x, y) = t.todo
    <3> HIDE DEF t
    <3> QED BY <1>1, <2>1, Split DEF Cat
  <2>3. ASSUME n = Len(t.todo) PROVE y = <<>>
    <3> HIDE DEF t
    <3> QED BY <1>1, <2>1, <2>3, SubSeqEmpty DEF Drop
  <2> QED BY <2>2, <2>3
<1> HIDE DEF x, y
<1>6. o \in Seq(Bytes)
  BY <1>1, <1>5, CatTyped
<1>7. s \in TaskType /\ s.at = a /\ s.rio = t.rio /\ s.todo = y
  BY <1>1, <1>5 DEF TaskType
<1>8. Carries(r, conn[c], conn[c].unsent, conn[c].in, o, conn[c].got)
  <2> HIDE DEF o
  <2> QED BY <1>1, <1>6, ConnFields, Carried
<1> HIDE DEF r, s
<1>9. Whole(r, s) = Whole(conn[c], t)
  BY <1>1, <1>5, <1>7, <1>8, WriteMove DEF Holds
<1>10. Shape(s) /\ s.at # "none"
  BY <1>1, <1>5, <1>7, RioAssumption DEF Shape
<1> QED BY <1>1, <1>2, <1>3, <1>7, <1>8, <1>9, <1>10, Local DEF Carries, Regular

(* echo keeps the invariant.                                                *)
LEMMA EchoSafe ==
    ASSUME Typed, Safe, NEW c \in Clients, echo(c),
           sys.design \notin {"recv", "epoll"}, UNCHANGED <<pool, ev>>
    PROVE  Typed' /\ Safe'
BY ReadLineSafe, RioEndSafe, WritenSafe DEF echo

-----------------------------------------------------------------------------
(* A connection that differs from q in who holds a descriptor of it.        *)
Opened(r, q, who) ==
    /\ r \in ConnType /\ r.open = who
    /\ r.up <=> q.up
    /\ r.err <=> q.err
    /\ r.gone <=> q.gone
    /\ r.unsent = q.unsent /\ r.in = q.in /\ r.out = q.out /\ r.got = q.got
(* A connection whose descriptors change hands.                             *)
LEMMA Opening ==
    ASSUME NEW q \in ConnType, NEW who \in SUBSET {"main", "child"}
    PROVE  Opened([q EXCEPT !.open = who], q, who)
BY DEF Opened, ConnType

(* Descriptors are not part of the chain.                                   *)
LEMMA OpenedWhole ==
    ASSUME NEW r, NEW q, NEW who, Opened(r, q, who), NEW s, NEW t, s.todo = t.todo,
           s.rio.user = t.rio.user, s.rio.buf = t.rio.buf
    PROVE  Whole(r, s) = Whole(q, t)
BY DEF Opened, Whole

(* The first of a queue.                                                    *)
LEMMA FirstOf ==
    ASSUME NEW s \in Seq(Clients \cup {Bad}), s # <<>>, Distinct(s)
    PROVE  /\ Head(s) \in Clients \cup {Bad} /\ Tail(s) \in Seq(Clients \cup {Bad})
           /\ s \in Seq(Clients) => Tail(s) \in Seq(Clients) /\ Head(s) \in Clients
           /\ Head(s) \in ToSet(s) /\ Distinct(Tail(s))
           /\ \A c \in Clients : c \in ToSet(Tail(s)) <=> c \in ToSet(s) /\ c # Head(s)
<1>1. Len(s) \in Nat \ {0} /\ DOMAIN s = 1 .. Len(s) /\ Head(s) = s[1]
  BY EmptySeq, LenProperties
<1>2. /\ Tail(s) \in Seq(Clients \cup {Bad}) /\ Len(Tail(s)) = Len(s) - 1
      /\ \A i \in 1 .. Len(s) - 1 : Tail(s)[i] = s[i + 1]
      /\ s \in Seq(Clients) => Tail(s) \in Seq(Clients)
  BY <1>1
<1>3. DOMAIN Tail(s) = 1 .. Len(s) - 1
  BY <1>2
<1>4. Head(s) \in Clients \cup {Bad} /\ (s \in Seq(Clients) => Head(s) \in Clients)
  BY <1>1, ElementOfSeq
<1>5. Distinct(Tail(s))
  <2>1. ASSUME NEW i \in 1 .. Len(s) - 1, NEW j \in 1 .. Len(s) - 1,
               Tail(s)[i] = Tail(s)[j], Tail(s)[i] \in Clients
        PROVE  i = j
    <3>1. i + 1 \in 1 .. Len(s) /\ j + 1 \in 1 .. Len(s)
      BY <1>1
    <3>2. i + 1 = j + 1
      BY <1>1, <1>2, <2>1, <3>1 DEF Distinct
    <3> QED BY <3>2
  <2> QED BY <1>3, <2>1 DEF Distinct
<1>6. ASSUME NEW c \in Clients PROVE c \in ToSet(Tail(s)) <=> c \in ToSet(s) /\ c # Head(s)
  <2>1. ASSUME NEW i \in 1 .. Len(s) - 1, Tail(s)[i] = c
        PROVE  c \in ToSet(s) /\ c # s[1]
    <3>1. s[i + 1] = c /\ i + 1 \in 1 .. Len(s) /\ i + 1 # 1 /\ 1 \in 1 .. Len(s)
      BY <1>1, <1>2, <2>1
    <3> QED BY <1>1, <3>1 DEF Distinct, ToSet
  <2>2. ASSUME NEW i \in 1 .. Len(s), s[i] = c, c # s[1]
        PROVE  c \in ToSet(Tail(s))
    <3>1. i - 1 \in 1 .. Len(s) - 1
      BY <1>1, <2>2
    <3>2. Tail(s)[i - 1] = c
      BY <1>2, <2>2, <3>1
    <3> QED BY <1>3, <3>1, <3>2 DEF ToSet
  <2> QED BY <1>1, <1>3, <2>1, <2>2 DEF ToSet
<1>7. Head(s) \in ToSet(s)
  BY <1>1 DEF ToSet
<1>8. s \in Seq(Clients) => Tail(s) \in Seq(Clients) /\ Head(s) \in Clients
  BY <1>2, <1>4, Zenon
<1>9. Head(s) \in Clients \cup {Bad} /\ Tail(s) \in Seq(Clients \cup {Bad})
  BY <1>2, <1>4, Zenon
<1>10. \A c \in Clients : c \in ToSet(Tail(s)) <=> c \in ToSet(s) /\ c # Head(s)
  BY <1>6, Zenon
<1>11. Head(s) \in ToSet(s) /\ Distinct(Tail(s))
  BY <1>5, <1>7
<1> QED BY <1>8, <1>9, <1>10, <1>11

(* A new last one.                                                          *)
LEMMA LastOf ==
    ASSUME NEW s \in Seq(Clients \cup {Bad}), NEW e \in Clients \cup {Bad}, Distinct(s),
           e \in Clients => e \notin ToSet(s)
    PROVE  /\ Append(s, e) \in Seq(Clients \cup {Bad}) /\ Distinct(Append(s, e))
           /\ s \in Seq(Clients) /\ e \in Clients => Append(s, e) \in Seq(Clients)
           /\ ToSet(Append(s, e)) = ToSet(s) \cup {e}
<1> DEFINE a == Append(s, e)
<1>1. Len(s) \in Nat /\ DOMAIN s = 1 .. Len(s)
  BY LenProperties
<1>2. /\ a \in Seq(Clients \cup {Bad}) /\ Len(a) = Len(s) + 1 /\ DOMAIN a = 1 .. Len(s) + 1
      /\ \A i \in 1 .. Len(s) : a[i] = s[i]
      /\ a[Len(s) + 1] = e
      /\ s \in Seq(Clients) /\ e \in Clients => a \in Seq(Clients)
  BY <1>1
<1> HIDE DEF a
<1>3. \A i \in 1 .. Len(s) + 1 : i \in 1 .. Len(s) \/ i = Len(s) + 1
  BY <1>1
<1>4. ToSet(a) = ToSet(s) \cup {e}
  <2>1. \A i \in 1 .. Len(s) + 1 : a[i] \in ToSet(s) \cup {e}
    BY <1>1, <1>2, <1>3 DEF ToSet
  <2>2. \A i \in 1 .. Len(s) : i \in 1 .. Len(s) + 1
    BY <1>1
  <2>3. Len(s) + 1 \in 1 .. Len(s) + 1
    BY <1>1
  <2> QED BY <1>1, <1>2, <2>1, <2>2, <2>3 DEF ToSet
<1>5. Distinct(a)
  <2>1. \A i \in 1 .. Len(s) : s[i] \in ToSet(s)
    BY <1>1 DEF ToSet
  <2> QED BY <1>1, <1>2, <1>3, <2>1 DEF Distinct
<1> QED BY <1>2, <1>4, <1>5 DEF a

(* A task that begins, and one that goes on.                                *)
LEMMA Begins ==
    ASSUME NEW a \in {"created", "once", "read"}
    PROVE  /\ [NoTask EXCEPT !.at = a] \in TaskType /\ [NoTask EXCEPT !.at = a].at = a
           /\ Shape([NoTask EXCEPT !.at = a])
           /\ Holds([NoTask EXCEPT !.at = a], <<>>, <<>>, <<>>)
           /\ [NoTask EXCEPT !.at = a].rio = rio_readinitb
<1> DEFINE e == <<>>
           k == rio_readinitb
           n == [at |-> "none", rio |-> k, todo |-> e, reg |-> 0]
           t == [n EXCEPT !.at = a]
<1>1. k \in RioType /\ k.user = <<>> /\ k.buf = <<>>
  BY DEF RioType, rio_readinitb
<1>2. NoTask = n /\ e \in Seq(Bytes)
  BY DEF NoTask
<1> HIDE DEF k, e
<1>3. t \in TaskType /\ t.at = a /\ t.rio = k /\ t.todo = e
  BY <1>1, <1>2 DEF TaskType
<1>4. Shape(t) /\ Holds(t, <<>>, <<>>, <<>>)
  <2> HIDE DEF t
  <2> QED BY <1>1, <1>3, RioAssumption DEF Shape, Holds, e
<1> QED BY <1>2, <1>3, <1>4 DEF k

(* NoTask is a task without work.                                           *)
LEMMA IdleTask ==
    /\ NoTask \in TaskType /\ NoTask.at = "none" /\ Shape(NoTask)
    /\ Holds(NoTask, <<>>, <<>>, <<>>) /\ NoTask.rio = rio_readinitb
    /\ NoTask.rio.buf = <<>>
<1> DEFINE e == <<>>
           k == rio_readinitb
           n == [at |-> "none", rio |-> k, todo |-> e, reg |-> 0]
<1>1. k \in RioType /\ k.user = <<>> /\ k.buf = <<>>
  BY DEF RioType, rio_readinitb
<1>2. NoTask = n /\ e \in Seq(Bytes)
  BY DEF NoTask
<1> HIDE DEF k, e
<1>3. n \in TaskType /\ n.at = "none" /\ n.rio = k /\ n.todo = e
  BY <1>1, <1>2 DEF TaskType
<1>4. Shape(n) /\ Holds(n, <<>>, <<>>, <<>>)
  <2> HIDE DEF n
  <2> QED BY <1>1, <1>3, RioAssumption DEF Shape, Holds, e
<1> QED BY <1>1, <1>2, <1>3, <1>4 DEF k, e

GoesTo(s, t, a) == s \in TaskType /\ s.at = a /\ s.rio = t.rio /\ s.todo = t.todo
(* A task that goes on to another step.                                     *)
LEMMA GoesOn ==
    ASSUME NEW t \in TaskType, NEW a \in {"read", "load", "store", "V", "write"}
    PROVE  /\ GoesTo([t EXCEPT !.at = a], t, a)
           /\ \A n \in Int : GoesTo([t EXCEPT !.at = a, !.reg = n], t, a)
BY DEF TaskType, GoesTo

(* A task without work.                                                     *)
LEMMA Empty ==
    ASSUME NEW t, Shape(t), t.at \in {"none", "created", "once", "close"}
    PROVE  Holds(t, <<>>, <<>>, <<>>)
BY DEF Shape, Holds

-----------------------------------------------------------------------------
(* A step that changes no connection and no task.                           *)
LEMMA Aside ==
    ASSUME Typed, Safe, UNCHANGED <<connVars, sys, task>>,
           main' \in MainType, pool' \in PoolType, ev' \in EvType,
           main.at # "exited" \/ main'.at = "exited",
           InStep', Distinct(pool.queue)',
           \A d \in Clients : Placed(d)' /\ Owned(d)',
           sys.design = "epoll" => \A d \in Clients : Sending(d)'
    PROVE  Typed' /\ Safe'
<1>1. Typed'
  BY DEF Typed, connVars
<1>2. ASSUME NEW d \in Clients PROVE Regular(d)' /\ Exact(d)'
  <2>1. Regular(d) /\ Exact(d)
    BY DEF Safe
  <2> QED BY <2>1 DEF Regular, Exact, connVars
<1>3. Distinct(backlog)'
  BY DEF Safe, Distinct, connVars
<1> QED BY <1>1, <1>2, <1>3 DEF Safe

(* A step in which one connection or its task changes hands.                *)
LEMMA Shift ==
    ASSUME Typed, Safe, NEW c \in Clients, NEW r \in ConnType, NEW t \in TaskType,
           conn' = [conn EXCEPT ![c] = r], task' = [task EXCEPT ![c] = t],
           UNCHANGED <<kind, msg, sys>>, backlog' \in Seq(Clients),
           main' \in MainType, pool' \in PoolType, ev' \in EvType,
           main.at # "exited" \/ main'.at = "exited",
           InStep', Distinct(pool.queue)', Distinct(backlog)',
           \A d \in Clients : Placed(d)' /\ Owned(d)',
           Shape(t), r.err => r.gone, conn[c].gone => r.gone,
           sys.design = "recv" => t.rio = rio_readinitb,
           sys.design = "epoll" => \A d \in Clients : Sending(d)',
           \/ r.gone \/ (sys.design = "epoll" /\ sys.window < Len(msg[c]))
           \/ Whole(r, t) = Whole(conn[c], task[c])
    PROVE  Typed' /\ Safe'
<1>1. conn \in [Clients -> ConnType] /\ task \in [Clients -> TaskType]
  BY DEF Typed
<1>2. conn'[c] = r /\ task'[c] = t
      /\ \A d \in Clients \ {c} : conn'[d] = conn[d] /\ task'[d] = task[d]
  BY <1>1
<1>3. Typed'
  BY <1>1 DEF Typed
<1>4. ASSUME NEW d \in Clients PROVE Regular(d)'
  <2>1. Regular(d)
    BY DEF Safe
  <2> QED BY <1>2, <2>1 DEF Regular
<1>5. ASSUME NEW d \in Clients PROVE Exact(d)'
  <2>1. Exact(d)
    BY DEF Safe
  <2>2. CASE d # c
    BY <1>2, <2>1, <2>2 DEF Exact
  <2>3. CASE d = c
    BY <1>2, <2>1, <2>3 DEF Exact
  <2> QED BY <2>2, <2>3
<1> QED BY <1>3, <1>4, <1>5 DEF Safe

(* exit.                                                                    *)
LEMMA ExitSafe ==
    ASSUME Typed, Safe, Exit, pool' \in PoolType, pool'.queue = pool.queue,
           sys.design # "pool" => pool'.running = {}, ev' \in EvType
    PROVE  Typed' /\ Safe'
<1>1. /\ conn \in [Clients -> ConnType] /\ kind \in [Clients -> Kinds] /\ msg = Messages
      /\ backlog \in Seq(Clients) /\ sys \in Systems
      /\ UNCHANGED <<kind, msg, backlog, sys>> /\ main' = [at |-> "exited", fd |-> None]
      /\ task' = [c \in Clients |-> NoTask]
      /\ conn' = [c \in Clients |-> [conn[c] EXCEPT !.open = {}]]
  BY DEF Exit, Typed, AllClosed
<1>2. ASSUME NEW c \in Clients PROVE Opened(conn'[c], conn[c], {}) /\ task'[c] = NoTask
  <2> DEFINE e == {}
             q == conn[c]
             r == [q EXCEPT !.open = e]
  <2>1. conn'[c] = r /\ q \in ConnType /\ e \in SUBSET {"main", "child"} /\ task'[c] = NoTask
    BY <1>1
  <2> HIDE DEF e, q
  <2>2. Opened(r, q, e)
    BY <2>1, Opening
  <2> QED BY <2>1, <2>2 DEF e, q
<1>3. conn' \in [Clients -> ConnType] /\ task' \in [Clients -> TaskType]
  BY <1>1, <1>2, IdleTask DEF Opened
<1>4. main' \in MainType /\ main'.at = "exited"
  BY <1>1 DEF MainType
<1>5. Typed'
  BY <1>1, <1>3, <1>4 DEF Typed
<1>6. ASSUME NEW c \in Clients PROVE Regular(c)' /\ Placed(c)' /\ Owned(c)' /\ Exact(c)'
  <2>1. Regular(c) /\ Placed(c)
    BY DEF Safe
  <2>2. Regular(c)'
    BY <1>1, <1>2, <2>1, IdleTask DEF Regular, Opened
  <2>3. Placed(c)'
    BY <1>1, <1>2, <1>4, <2>1, IdleTask DEF Placed, Opened, InBacklog, InHand, InQueue
  <2>4. Owned(c)'
    BY <1>2 DEF Opened, Owned
  <2>5. Exact(c)'
    BY <1>4 DEF Exact
  <2> QED BY <2>2, <2>3, <2>4, <2>5
<1>7. Distinct(backlog)' /\ Distinct(pool.queue)' /\ InStep'
  BY <1>1, <1>4 DEF Safe, Distinct, InStep
<1>8. ASSUME NEW c \in Clients PROVE Sending(c)'
  BY <1>2, <1>4, IdleTask DEF Sending
<1> QED BY <1>5, <1>6, <1>7, <1>8 DEF Safe

-----------------------------------------------------------------------------
(* A step of the signal handler.                                            *)
LEMMA Stutters ==
    ASSUME Typed, Safe, UNCHANGED <<connVars, sys, main, task, pool, ev>>
    PROVE  Typed' /\ Safe'
<1>1. Typed'
  BY DEF Typed, connVars
<1>2. ASSUME NEW c \in Clients PROVE (Regular(c) /\ Placed(c) /\ Owned(c) /\ Exact(c))'
  <2>1. Regular(c) /\ Placed(c) /\ Owned(c) /\ Exact(c)
    BY DEF Safe
  <2> QED BY <2>1 DEF Regular, Placed, InBacklog, InHand, InQueue, Owned, Exact, connVars
<1>3. (Distinct(backlog) /\ Distinct(pool.queue) /\ InStep)'
  BY DEF Safe, Distinct, InStep, connVars
<1>4. ASSUME sys'.design = "epoll", NEW c \in Clients PROVE Sending(c)'
  BY <1>4 DEF Safe, Sending
<1> QED BY <1>1, <1>2, <1>3, <1>4 DEF Safe

(* accept.                                                                  *)
LEMMA Accepting ==
    ASSUME Typed, Safe, backlog # <<>>, conn' = Accepted, backlog' = Tail(backlog),
           UNCHANGED <<kind, msg, sys>>,
           NEW h, h = Head(backlog), NEW r, r = [conn[h] EXCEPT !.open = {"main"}]
    PROVE  /\ h \in Clients /\ conn' = [conn EXCEPT ![h] = r] /\ Opened(r, conn[h], {"main"})
           /\ backlog' \in Seq(Clients) /\ Distinct(backlog')
           /\ Regular(h) /\ conn[h].up /\ ~InQueue(h)
           /\ sys.design # "epoll" => task[h].at = "none"
           /\ \A d \in Clients : d \in ToSet(backlog') <=> d \in ToSet(backlog) /\ d # h
<1>1. /\ backlog \in Seq(Clients) /\ backlog # <<>> /\ backlog' = Tail(backlog) /\ Distinct(backlog)
      /\ conn' = [conn EXCEPT ![h].open = {"main"}] /\ conn \in [Clients -> ConnType]
  BY DEF Accepted, Typed, Safe
<1>2. backlog \in Seq(Clients \cup {Bad})
  BY <1>1
<1>3. /\ h \in Clients /\ Tail(backlog) \in Seq(Clients) /\ h \in ToSet(backlog)
      /\ Distinct(Tail(backlog))
      /\ \A d \in Clients : d \in ToSet(Tail(backlog)) <=> d \in ToSet(backlog) /\ d # h
  BY <1>1, <1>2, FirstOf
<1>4. Regular(h) /\ (sys.design # "epoll" => task[h].at = "none") /\ conn[h].up /\ ~InQueue(h)
  BY <1>3 DEF Safe, Placed, InBacklog
<1>5. conn' = [conn EXCEPT ![h] = r]
  BY <1>1, <1>3
<1>6. Opened(r, conn[h], {"main"})
  <2> DEFINE w == {"main"}
             q == conn[h]
  <2>1. q \in ConnType /\ w \in SUBSET {"main", "child"} /\ r = [q EXCEPT !.open = w]
    BY <1>1, <1>3
  <2> HIDE DEF w, q
  <2>2. Opened([q EXCEPT !.open = w], q, w)
    BY <2>1, Opening
  <2>3. Opened(r, q, w)
    BY <2>1, <2>2, Zenon
  <2> QED BY <2>3 DEF w, q
<1> QED BY <1>1, <1>3, <1>4, <1>5, <1>6

(* A connection that is accepted and served at once.                        *)
LEMMA ServeSafe ==
    ASSUME Typed, Safe, Accepts, sys.design \in {"iterative", "recv"},
           main' = [at |-> "echo", fd |-> Head(backlog)],
           SetTask(Head(backlog), Begun(Head(backlog))), UNCHANGED <<kids, pool, ev>>
    PROVE  Typed' /\ Safe'
<1> DEFINE h == Head(backlog)
           r == [conn[h] EXCEPT !.open = {"main"}]
           t == [NoTask EXCEPT !.at = "read"]
<1>1. /\ h \in Clients /\ conn' = [conn EXCEPT ![h] = r] /\ Opened(r, conn[h], {"main"})
      /\ UNCHANGED <<kind, msg, sys>> /\ main.at = "accept"
      /\ backlog' \in Seq(Clients) /\ Distinct(backlog')
      /\ Regular(h) /\ task[h].at = "none" /\ conn[h].up /\ ~InQueue(h)
      /\ \A d \in Clients : d \in ToSet(backlog') <=> d \in ToSet(backlog) /\ d # h
  BY Accepting DEF Accepts
<1>2. t \in TaskType /\ t.at = "read" /\ Shape(t) /\ Holds(t, <<>>, <<>>, <<>>)
      /\ t.rio = rio_readinitb
  BY Begins
<1>3. task' = [task EXCEPT ![h] = t] /\ main' = [at |-> "echo", fd |-> h]
  BY DEF SetTask, Begun
<1> HIDE DEF h, r, t
<1>4. conn \in [Clients -> ConnType] /\ task \in [Clients -> TaskType]
      /\ pool' \in PoolType /\ ev' \in EvType /\ pool' = pool
  BY DEF Typed
<1>5. main' \in MainType /\ main'.at = "echo" /\ main'.fd = h
  BY <1>1, <1>3 DEF MainType
<1>6. conn'[h] = r /\ task'[h] = t
      /\ \A d \in Clients \ {h} : conn'[d] = conn[d] /\ task'[d] = task[d]
  BY <1>1, <1>3, <1>4
<1>7. ASSUME NEW d \in Clients PROVE Placed(d)' /\ Owned(d)'
  <2>1. Placed(d) /\ Owned(d)
    BY DEF Safe
  <2>2. Placed(d)'
    BY <1>1, <1>2, <1>4, <1>5, <1>6, <2>1 DEF Placed, InBacklog, InHand, InQueue, Opened
  <2>3. Owned(d)'
    BY <1>1, <1>2, <1>4, <1>5, <1>6, <2>1 DEF Owned, InHand, InQueue, Opened
  <2> QED BY <2>2, <2>3
<1>8. InStep' /\ Distinct(pool.queue)'
  BY <1>1, <1>4, <1>5 DEF Safe, InStep
<1>9. Whole(r, t) = Whole(conn[h], task[h])
  <2>1. Holds(task[h], <<>>, <<>>, <<>>)
    BY <1>1, Empty DEF Regular
  <2> QED BY <1>1, <1>2, <2>1, OpenedWhole DEF Holds
<1>10. r \in ConnType /\ (r.err => r.gone) /\ (conn[h].gone => r.gone)
  BY <1>1 DEF Opened, Regular
<1>11. sys.design # "epoll" /\ Distinct(backlog)' /\ main.at # "exited"
  BY <1>1
<1> QED BY <1>1, <1>2, <1>3, <1>4, <1>5, <1>7, <1>8, <1>9, <1>10, <1>11, Shift

(* A connection that is accepted and handed on.                             *)
LEMMA HandOnSafe ==
    ASSUME Typed, Safe, backlog # <<>>, conn' = Accepted, backlog' = Tail(backlog),
           UNCHANGED <<kind, msg, sys>>,
           main.at = "accept" \/ (sys.design = "epoll" /\ main.at = "accepting"),
           \/ sys.design = "forking" /\ main' = [at |-> "fork", fd |-> Head(backlog)]
           \/ sys.design = "threaded" /\ main' = [at |-> "create", fd |-> Head(backlog)]
           \/ sys.design = "pool" /\ main' = [at |-> "insert", fd |-> Head(backlog)]
           \/ sys.design = "epoll" /\ UNCHANGED main,
           UNCHANGED <<task, kids, pool>>, ev' \in EvType
    PROVE  Typed' /\ Safe'
<1> DEFINE h == Head(backlog)
           r == [conn[h] EXCEPT !.open = {"main"}]
           t == task[h]
<1>1. /\ h \in Clients /\ conn' = [conn EXCEPT ![h] = r] /\ Opened(r, conn[h], {"main"})
      /\ UNCHANGED <<kind, msg, sys>>
      /\ backlog' \in Seq(Clients) /\ Distinct(backlog')
      /\ Regular(h) /\ conn[h].up /\ ~InQueue(h)
      /\ sys.design # "epoll" => task[h].at = "none"
      /\ \A d \in Clients : d \in ToSet(backlog') <=> d \in ToSet(backlog) /\ d # h
  BY Accepting
<1>2. \/ sys.design = "forking" /\ main' = [at |-> "fork", fd |-> h]
      \/ sys.design = "threaded" /\ main' = [at |-> "create", fd |-> h]
      \/ sys.design = "pool" /\ main' = [at |-> "insert", fd |-> h]
      \/ sys.design = "epoll" /\ UNCHANGED main
  OBVIOUS
<1> HIDE DEF h, r
<1>3. task' = [task EXCEPT ![h] = t] /\ t \in TaskType /\ UNCHANGED task
  BY <1>1 DEF Typed
<1> HIDE DEF t
<1>4. conn \in [Clients -> ConnType] /\ task \in [Clients -> TaskType] /\ main \in MainType
      /\ pool' \in PoolType /\ pool' = pool
  BY DEF Typed
<1>5. /\ main' \in MainType /\ main'.at \in {"fork", "create", "insert", "accepting", "accept"}
      /\ sys.design = "forking" => main'.at = "fork" /\ main'.fd = h
      /\ sys.design = "threaded" => main'.at = "create" /\ main'.fd = h
      /\ sys.design = "pool" => main'.at = "insert" /\ main'.fd = h
      /\ sys.design = "epoll" => main'.at \in {"accept", "accepting"}
      /\ sys.design \notin {"iterative", "recv"}
      /\ main'.at \in {"fork", "create", "insert"} => main'.fd = h
  BY <1>1, <1>2, <1>4 DEF MainType
<1>6. conn'[h] = r /\ \A d \in Clients \ {h} : conn'[d] = conn[d]
  BY <1>1, <1>4
<1>7. ASSUME NEW d \in Clients PROVE Placed(d)' /\ Owned(d)'
  <2>1. Placed(d) /\ Owned(d)
    BY DEF Safe
  <2>2. Placed(d)'
    BY <1>1, <1>3, <1>4, <1>5, <1>6, <2>1 DEF Placed, InBacklog, InHand, InQueue, Opened
  <2>3. Owned(d)'
    BY <1>1, <1>3, <1>4, <1>5, <1>6, <2>1 DEF Owned, InHand, InQueue, Opened
  <2> QED BY <2>2, <2>3
<1>8. InStep' /\ Distinct(pool.queue)'
  BY <1>1, <1>4, <1>5 DEF Safe, InStep
<1>9. Whole(r, t) = Whole(conn[h], task[h])
  BY <1>1, OpenedWhole DEF t
<1>10. r \in ConnType /\ (r.err => r.gone) /\ (conn[h].gone => r.gone) /\ Shape(t)
       /\ (sys.design = "recv" => t.rio = rio_readinitb)
  BY <1>1 DEF Opened, Regular, t
<1>12. ASSUME sys.design = "epoll", NEW d \in Clients PROVE Sending(d)'
  BY <1>2, <1>3, <1>12 DEF Safe, Sending
<1>11. Distinct(backlog)' /\ main.at # "exited"
  BY <1>1 DEF Accepts
<1> QED BY <1>1, <1>3, <1>4, <1>5, <1>7, <1>8, <1>9, <1>10, <1>11, <1>12, Shift

(* Steps of main that only it can see.                                      *)
LEMMA ListensSafe ==
    ASSUME Typed, Safe, Listens, pool' \in PoolType, pool'.queue = pool.queue,
           sys.design # "pool" => pool'.running = {}, ev' \in EvType
    PROVE  Typed' /\ Safe'
<1>1. PICK at \in {"accept", "exited"} : main' = [main EXCEPT !.at = at]
  BY DEF Listens
<1>2. main \in MainType /\ main.at = "setup" /\ UNCHANGED <<connVars, sys, task>>
  BY DEF Listens, Typed
<1>3. main' \in MainType /\ main'.at = at
  BY <1>1, <1>2 DEF MainType
<1>4. ASSUME NEW d \in Clients PROVE Placed(d)' /\ Owned(d)'
  <2>1. Placed(d) /\ Owned(d)
    BY DEF Safe
  <2>2. Placed(d)'
    BY <1>2, <1>3, <2>1 DEF Placed, InBacklog, InHand, InQueue, connVars
  <2>3. Owned(d)'
    BY <1>2, <1>3, <2>1 DEF Owned, InHand, InQueue, connVars
  <2> QED BY <2>2, <2>3
<1>5. InStep' /\ Distinct(pool.queue)'
  BY <1>2, <1>3 DEF Safe, InStep
<1>6. ASSUME sys.design = "epoll", NEW d \in Clients PROVE Sending(d)'
  BY <1>2, <1>3, <1>6 DEF Safe, Sending
<1> QED BY <1>2, <1>3, <1>4, <1>5, <1>6, Aside

(* The same between accept, fork, create and insert, for those who have no  *)
(* connection in hand.                                                      *)
LEMMA MainSafe ==
    ASSUME Typed, Safe, UNCHANGED <<connVars, sys, task, pool>>, main' \in MainType, ev' \in EvType,
           \/ /\ sys.design = "threaded"
              /\ main.at = "accept" \/ (main.at = "create" /\ main.fd = None)
                 \/ (main.at = "create" /\ sys.tasks < Cardinality(Clients))
              /\ main'.at = "accept" \/ (main'.at = "create" /\ main'.fd = None)
           \/ /\ sys.design = "pool" /\ main.at = "accept" /\ main'.at = "insert" /\ main'.fd = Bad
           \/ /\ sys.design = "epoll" /\ main.at \in {"accept", "events", "accepting", "recv"}
              /\ \/ main'.at \in {"accept", "events", "accepting"}
                 \/ main'.at = "recv" /\ main'.fd \in Clients
    PROVE  Typed' /\ Safe'
<1>1. pool' \in PoolType /\ UNCHANGED <<connVars, sys, task, pool>>
  BY DEF Typed
<1>2. ASSUME NEW d \in Clients PROVE Placed(d)' /\ Owned(d)'
  <2>1. Placed(d) /\ Owned(d) /\ d # None /\ d # Bad
    BY EchoAssumption DEF Safe
  <2>2. ~InHand(d)'
    BY <2>1 DEF InHand
  <2>3. Placed(d)'
    BY <1>1, <2>1, <2>2 DEF Placed, InBacklog, InQueue, connVars
  <2>4. Owned(d)'
    BY <1>1, <2>1, <2>2 DEF Owned, InHand, InQueue, connVars
  <2> QED BY <2>3, <2>4
<1>3. InStep' /\ Distinct(pool.queue)'
  BY <1>1 DEF Safe, InStep
<1>4. main.at # "exited"
  OBVIOUS
<1>5. ASSUME sys.design = "epoll", NEW d \in Clients PROVE Sending(d)'
  BY <1>5 DEF Safe, Sending
<1> QED BY <1>1, <1>2, <1>3, <1>4, <1>5, Aside

-----------------------------------------------------------------------------
(* The designs, step by step.  A client connects.                           *)
LEMMA ConnectSafe ==
    ASSUME Typed, Safe, NEW c \in Clients, Up, Connect(c), ev' \in EvType,
           UNCHANGED <<sys, main, task, kids, pool>>
    PROVE  Typed' /\ Safe'
<1> DEFINE b == TRUE
           r == [conn[c] EXCEPT !.up = b]
           t == task[c]
<1>1. conn' = [conn EXCEPT ![c] = r] /\ backlog' = Append(backlog, c)
      /\ UNCHANGED <<kind, msg, sys, main, task, pool>> /\ ~conn[c].up /\ main.at # "exited"
  BY DEF Connect, Up
<1>2. /\ conn \in [Clients -> ConnType] /\ backlog \in Seq(Clients) /\ main' \in MainType
      /\ pool' \in PoolType /\ task' = [task EXCEPT ![c] = t] /\ t \in TaskType
      /\ Regular(c) /\ Placed(c) /\ Distinct(backlog) /\ Distinct(pool.queue) /\ InStep
      /\ b \in BOOLEAN /\ b
  BY <1>1 DEF Typed, Safe
<1> HIDE DEF b, t
<1>3. /\ r \in ConnType /\ r.open = conn[c].open /\ r.up
      /\ r.gone <=> conn[c].gone
      /\ r.err <=> conn[c].err
      /\ r.unsent = conn[c].unsent /\ r.in = conn[c].in
      /\ r.out = conn[c].out /\ r.got = conn[c].got
  <2> DEFINE q == conn[c]
  <2>1. q \in ConnType /\ b \in BOOLEAN
    BY <1>2
  <2> HIDE DEF q
  <2>2. IsUp([q EXCEPT !.up = b], q, b)
    BY <2>1, GoingUp
  <2> QED BY <1>2, <2>2 DEF IsUp, q
<1> HIDE DEF r
<1>4. backlog \in Seq(Clients \cup {Bad}) /\ c \notin ToSet(backlog)
  BY <1>1, <1>2 DEF Placed, InBacklog
<1>5. backlog' \in Seq(Clients) /\ Distinct(backlog') /\ ToSet(backlog') = ToSet(backlog) \cup {c}
  BY <1>1, <1>2, <1>4, LastOf
<1>6. conn'[c] = r /\ \A d \in Clients \ {c} : conn'[d] = conn[d]
  BY <1>1, <1>2
<1>7. ASSUME NEW d \in Clients PROVE Placed(d)' /\ Owned(d)'
  <2>1. Placed(d) /\ Owned(d)
    BY DEF Safe
  <2>2. Placed(d)'
    BY <1>1, <1>2, <1>3, <1>5, <1>6, <2>1 DEF Placed, InBacklog, InHand, InQueue
  <2>3. Owned(d)'
    BY <1>1, <1>3, <1>6, <2>1 DEF Owned, InHand, InQueue
  <2> QED BY <2>2, <2>3
<1>8. InStep' /\ Distinct(pool.queue)' /\ Distinct(backlog)'
  BY <1>1, <1>2, <1>5 DEF InStep
<1>9. Whole(r, t) = Whole(conn[c], task[c])
  BY <1>3 DEF Whole, t
<1>10. Shape(t) /\ (sys.design = "recv" => t.rio = rio_readinitb)
       /\ (r.err => r.gone) /\ (conn[c].gone => r.gone)
  BY <1>2, <1>3 DEF Regular, t
<1>11. ASSUME sys.design = "epoll", NEW d \in Clients PROVE Sending(d)'
  BY <1>1, <1>11 DEF Safe, Sending
<1> QED BY <1>1, <1>2, <1>3, <1>5, <1>7, <1>8, <1>9, <1>10, <1>11, Shift

(* What clients do keeps the invariant.                                     *)
LEMMA ClientSafe ==
    ASSUME Typed, Safe, NEW c \in Clients, Client(c)
    PROVE  Typed' /\ Safe'
<1>1. UNCHANGED <<sys, main, task, kids, pool>> /\ ev \in EvType
  BY DEF Client, Typed
<1>2. ASSUME NEW x \in Clients \cup {None}
      PROVE  [ev EXCEPT !.edge = @ \cup {x}] \in EvType
  BY <1>1, <1>2 DEF EvType
<1>3. CASE Up /\ Connect(c)
           /\ ev' = IF sys.design = "epoll" THEN [ev EXCEPT !.edge = @ \cup {None}] ELSE ev
  <2>1. ev' \in EvType
    BY <1>1, <1>2, <1>3
  <2> QED BY <1>1, <1>3, <2>1, ConnectSafe
<1>4. CASE /\ ClientSend(c) \/ ClientShut(c) \/ ClientReset(c)
           /\ ev' = IF sys.design = "epoll" /\ conn[c].open # {}
                    THEN [ev EXCEPT !.edge = @ \cup {c}] ELSE ev
  <2>1. ev' \in EvType
    BY <1>1, <1>2, <1>4
  <2> QED BY <1>1, <1>4, <2>1, ClientSendSafe, ClientEndsSafe
<1>5. CASE ClientRead(c) /\ UNCHANGED ev
  BY <1>1, <1>5, ClientReadSafe
<1> QED BY <1>3, <1>4, <1>5 DEF Client

-----------------------------------------------------------------------------
(* A connection is closed by whoever has it: its task is over.              *)
LEMMA ClosingSafe ==
    ASSUME Typed, Safe, NEW c \in Clients, NEW who \in {"main", "child"}, conn' = Without(c, who),
           UNCHANGED <<kind, msg, backlog, sys>>, main' \in MainType, pool' \in PoolType, ev' \in EvType,
           pool'.queue = pool.queue, sys.design # "pool" => pool'.running = {},
           NEW t \in TaskType, task' = [task EXCEPT ![c] = t],
           \/ t = task[c]
           \/ t = NoTask /\ (task[c].at = "close" \/ conn[c].gone),
           main.at # "exited" \/ main'.at = "exited", InStep',
           \A d \in Clients : InHand(d)' <=> InHand(d),
           \/ /\ sys.design = "iterative" /\ main.at = "echo" /\ main.fd = c /\ who = "main"
           \/ /\ sys.design = "forking" /\ main.at = "close" /\ main.fd = c /\ who = "main" /\ t = task[c]
           \/ /\ sys.design = "forking" /\ UNCHANGED main /\ who = "child"
           \/ /\ sys.design \in {"threaded", "pool"} /\ who = "main" /\ UNCHANGED main
           \/ /\ sys.design = "epoll" /\ who = "main" /\ t = task[c]
              /\ main.at # "send" /\ main'.at # "send"
    PROVE  Typed' /\ Safe'
<1> DEFINE w == conn[c].open \ {who}
           r == [conn[c] EXCEPT !.open = w]
<1>1. conn \in [Clients -> ConnType] /\ task \in [Clients -> TaskType] /\ backlog \in Seq(Clients)
      /\ Regular(c) /\ Placed(c) /\ Distinct(backlog) /\ Distinct(pool.queue)
  BY DEF Typed, Safe
<1>2. conn' = [conn EXCEPT ![c] = r]
  BY <1>1 DEF Without
<1>3. w \in SUBSET {"main", "child"} /\ who \notin w /\ w \subseteq conn[c].open
  BY <1>1, ConnFields
<1> HIDE DEF w
<1>4. Opened(r, conn[c], w)
  BY <1>1, <1>3, Opening
<1> HIDE DEF r
<1>5. conn'[c] = r /\ task'[c] = t
      /\ \A d \in Clients \ {c} : conn'[d] = conn[d] /\ task'[d] = task[d]
  BY <1>1, <1>2
<1>6. t.at = task[c].at \/ t.at = "none"
  BY IdleTask
<1>7. ASSUME NEW d \in Clients PROVE Placed(d)' /\ Owned(d)'
  <2>1. Placed(d) /\ Owned(d) /\ (InHand(d)' <=> InHand(d))
    BY DEF Safe
  <2>2. Placed(d)'
    BY <1>1, <1>4, <1>5, <1>6, <2>1 DEF Placed, InBacklog, InQueue, Opened
  <2>3. ASSUME d # c PROVE Owned(d)'
    BY <1>5, <2>1, <2>3 DEF Owned, InHand, InQueue
  <2>4. ASSUME d = c PROVE Owned(d)'
    BY <1>3, <1>4, <1>5, <2>1, <2>4 DEF Owned, InHand, InQueue, Opened
  <2> QED BY <2>2, <2>3, <2>4
<1>8. Distinct(backlog)' /\ Distinct(pool.queue)'
  BY <1>1
<1>9. r.gone \/ Whole(r, t) = Whole(conn[c], task[c])
  <2>1. CASE t = task[c]
    BY <1>4, <2>1, OpenedWhole
  <2>2. CASE t = NoTask /\ task[c].at = "close"
    <3>1. Holds(task[c], <<>>, <<>>, <<>>) /\ Holds(t, <<>>, <<>>, <<>>)
      BY <1>1, <2>2, Empty, IdleTask DEF Regular
    <3> QED BY <1>4, <3>1, OpenedWhole DEF Holds
  <2>3. CASE conn[c].gone
    BY <1>4, <2>3 DEF Opened
  <2> QED BY <2>1, <2>2, <2>3
<1>10. Shape(t) /\ (sys.design = "recv" => t.rio = rio_readinitb)
       /\ (r.err => r.gone) /\ (conn[c].gone => r.gone)
       /\ r \in ConnType
  BY <1>1, <1>4, IdleTask DEF Regular, Opened
<1>11. ASSUME sys.design = "epoll", NEW d \in Clients PROVE Sending(d)'
  <2>1. t = task[c] /\ main.at # "send" /\ main'.at # "send" /\ Sending(d)
    BY <1>11 DEF Safe
  <2> QED BY <1>5, <2>1 DEF Sending
<1> QED BY <1>1, <1>2, <1>7, <1>8, <1>9, <1>10, <1>11, Shift

-----------------------------------------------------------------------------
(* echoserveri.c.                                                           *)
LEMMA IterSafe ==
    ASSUME Typed, Safe, IterStep
    PROVE  Typed' /\ Safe'
<1>1. pool \in PoolType /\ ev \in EvType /\ main \in MainType /\ task \in [Clients -> TaskType]
      /\ InStep
  BY DEF Typed, Safe
<1>2. CASE IterListens
  BY <1>1, <1>2, ListensSafe DEF IterListens, Others, InStep
<1>3. CASE IterAccept
  BY <1>3, ServeSafe DEF IterAccept, Others
<1>4. CASE IterEcho
  <2>1. main.fd \in Clients /\ sys.design = "iterative" /\ UNCHANGED <<kids, pool, ev>>
    BY <1>1, <1>4 DEF IterEcho, InStep, Others
  <2>2. CASE echo(main.fd)
    BY <2>1, <2>2, EchoSafe
  <2>3. CASE Exit
    BY <1>1, <2>1, <2>3, ExitSafe DEF InStep
  <2> QED BY <1>4, <2>2, <2>3 DEF IterEcho
<1>5. CASE IterClose
  <2> DEFINE c == main.fd
  <2>1. /\ c \in Clients /\ sys.design = "iterative" /\ main.at = "echo" /\ task[c].at = "close"
        /\ conn' = Without(c, "main") /\ task' = [task EXCEPT ![c] = NoTask]
        /\ main' = [at |-> "accept", fd |-> None]
        /\ UNCHANGED <<kind, msg, backlog, sys, pool, ev>>
    BY <1>1, <1>5 DEF IterClose, InStep, Others, SetTask
  <2>2. main' \in MainType /\ main'.at = "accept" /\ InStep'
    BY <1>1, <2>1 DEF MainType, InStep
  <2>3. \A d \in Clients : InHand(d)' <=> InHand(d)
    BY <2>1, <2>2 DEF InHand
  <2>4. main.fd = c
    OBVIOUS
  <2> HIDE DEF c
  <2> QED BY <1>1, <2>1, <2>2, <2>3, <2>4, IdleTask, ClosingSafe DEF InStep
<1> QED BY <1>2, <1>3, <1>4, <1>5 DEF IterStep

(* hw-sockets/server.c.  An error has been told.                            *)
LEMMA ToldSafe ==
    ASSUME Typed, Safe, NEW c \in Clients, sys.design = "recv", conn' = Told(c), conn[c].err,
           UNCHANGED <<kind, msg, backlog, sys, main, kids, pool, ev>>,
           UNCHANGED task \/ (task[c].at = "write" /\ SetTask(c, Begun(c)))
    PROVE  Typed' /\ Safe'
<1> DEFINE b == FALSE
           q == conn[c]
           r == [q EXCEPT !.err = b]
<1>1. /\ conn \in [Clients -> ConnType] /\ task \in [Clients -> TaskType]
      /\ pool' \in PoolType /\ ev' \in EvType /\ Regular(c) /\ InStep /\ b \in BOOLEAN /\ ~b
      /\ UNCHANGED <<kind, msg, backlog, sys, main, pool>>
  BY DEF Typed, Safe
<1>2. conn' = [conn EXCEPT ![c] = r] /\ q \in ConnType /\ q.gone
  BY <1>1 DEF Told, Regular
<1> HIDE DEF b
<1>3. /\ r \in ConnType /\ r.open = q.open
      /\ r.up <=> q.up
      /\ r.gone <=> q.gone
      /\ r.err <=> b
  <2> HIDE DEF q
  <2> QED BY <1>1, <1>2, Ending
<1>4. r.gone /\ ~r.err
  BY <1>1, <1>2, <1>3
<1> HIDE DEF r
<1>5. CASE UNCHANGED task
  BY <1>1, <1>2, <1>3, <1>4, <1>5, LocalConn DEF q
<1>6. CASE task[c].at = "write" /\ SetTask(c, Begun(c))
  <2> DEFINE t == [NoTask EXCEPT !.at = "read"]
  <2>1. t \in TaskType /\ t.at = "read" /\ Shape(t) /\ t.rio = rio_readinitb
    BY Begins
  <2>2. task' = [task EXCEPT ![c] = t]
    BY <1>6 DEF SetTask, Begun
  <2> HIDE DEF t
  <2>3. (sys.design # "pool" => pool'.running = {}) /\ sys.design # "epoll"
    BY <1>1 DEF InStep
  <2> QED BY <1>1, <1>2, <1>3, <1>4, <1>6, <2>1, <2>2, <2>3, Local DEF q
<1> QED BY <1>5, <1>6

(* RecvRecv keeps the invariant.                                            *)
LEMMA RecvRecvSafe ==
    ASSUME Typed, Safe, RecvRecv
    PROVE  Typed' /\ Safe'
<1> DEFINE c == main.fd
           t == task[c]
<1>1. /\ c \in Clients /\ sys.design = "recv" /\ main.at = "echo" /\ t.at = "read"
      /\ UNCHANGED <<sys, kids, pool, ev>>
      /\ pool' \in PoolType /\ ev' \in EvType /\ InStep /\ Regular(c)
      /\ conn \in [Clients -> ConnType] /\ task \in [Clients -> TaskType]
  BY DEF RecvRecv, Safe, InStep, Others, Typed
<1>2. t \in TaskType /\ t.todo = <<>> /\ t.rio = rio_readinitb /\ conn[c] \in ConnType
      /\ Holds(t, <<>>, <<>>, <<>>)
  BY <1>1 DEF Regular, Shape, Holds, rio_readinitb
<1>3. CASE /\ Changes(c, [conn[c] EXCEPT !.in = Drop(@, Min({MaxLine, Len(conn[c].in)}))])
           /\ SetTask(c, [task[c] EXCEPT !.at = "write",
                                         !.todo = SubSeq(conn[c].in, 1,
                                                         Min({MaxLine, Len(conn[c].in)}))])
           /\ UNCHANGED main
  <2> DEFINE q == conn[c]
             n == Min({MaxLine, Len(q.in)})
             e == Drop(q.in, n)
             i == SubSeq(q.in, 1, n)
             r == [q EXCEPT !.in = e]
             s == [t EXCEPT !.at = "write", !.todo = i]
  <2>1. conn' = [conn EXCEPT ![c] = r] /\ task' = [task EXCEPT ![c] = s]
        /\ UNCHANGED <<kind, msg, backlog, sys, main>>
    BY <1>1, <1>3 DEF Changes, SetTask
  <2>2. q \in ConnType /\ i \in Seq(Bytes) /\ e \in Seq(Bytes) /\ Cat(i, e) = q.in
    BY <1>1, Received
  <2> HIDE DEF n, e
  <2>3. Carries(r, q, q.unsent, e, q.out, q.got)
    <3>1. q.unsent \in Seq(Bytes) /\ q.out \in Seq(Bytes) /\ q.got \in Seq(Bytes)
      BY <1>1, ConnFields
    <3> HIDE DEF q
    <3> QED BY <2>2, <3>1, Carried
  <2> HIDE DEF i
  <2>4. s \in TaskType /\ s.at = "write" /\ s.todo = i /\ s.rio = t.rio
    <3> HIDE DEF t
    <3> QED BY <1>2, <2>2 DEF TaskType
  <2> HIDE DEF r, s
  <2>5. Holds(s, i, <<>>, <<>>) /\ Shape(s)
    BY <1>2, <2>4, RioAssumption DEF Holds, Shape, rio_readinitb
  <2>6. Whole(r, s) = Whole(q, t)
    <3> HIDE DEF q, t
    <3> QED BY <1>2, <2>2, <2>3, <2>5, RecvMove
  <2>7. (sys.design # "pool" => pool'.running = {}) /\ sys.design # "epoll"
    BY <1>1 DEF InStep
  <2>8. /\ r \in ConnType /\ r.open = conn[c].open
        /\ r.up <=> conn[c].up
        /\ r.err => r.gone
        /\ conn[c].gone => r.gone
    BY <1>1, <2>3 DEF Carries, Regular
  <2>9. pool'.queue = pool.queue /\ (s.at = "none" <=> task[c].at = "none") /\ s.rio = rio_readinitb
    BY <1>1, <1>2, <2>4
  <2> QED BY <1>1, <2>1, <2>4, <2>5, <2>6, <2>7, <2>8, <2>9, Local
<1>4. CASE SetTask(c, NoTask) /\ main' = [at |-> "accept", fd |-> None] /\ UNCHANGED connVars
  <2>1. /\ task' = [task EXCEPT ![c] = NoTask] /\ UNCHANGED <<kind, msg, backlog, conn, pool>>
        /\ conn' = [conn EXCEPT ![c] = conn[c]] /\ backlog' \in Seq(Clients)
        /\ Distinct(backlog') /\ Distinct(pool'.queue)
    BY <1>1, <1>4 DEF SetTask, connVars, Typed, Safe
  <2>2. main' \in MainType /\ main'.at = "accept" /\ main'.fd = None /\ InStep'
    BY <1>1, <1>4 DEF MainType, InStep
  <2>3. task'[c] = NoTask /\ \A d \in Clients \ {c} : task'[d] = task[d]
    BY <1>1, <2>1
  <2>4. ASSUME NEW d \in Clients PROVE Placed(d)' /\ Owned(d)'
    <3>1. Placed(d) /\ Owned(d)
      BY DEF Safe
    <3>2. Placed(d)'
      BY <1>1, <2>1, <2>2, <2>3, <3>1, IdleTask DEF Placed, InBacklog, InHand, InQueue
    <3>3. Owned(d)'
      BY <1>1, <2>1, <3>1 DEF Owned
    <3> QED BY <3>2, <3>3
  <2>5. Whole(conn[c], NoTask) = Whole(conn[c], task[c])
    BY <1>2, IdleTask DEF Holds, Whole
  <2>6. Distinct(backlog)' /\ Distinct(pool.queue)'
    BY <2>1
  <2>7. (conn[c].err => conn[c].gone) /\ main.at # "exited" /\ sys.design # "epoll"
        /\ UNCHANGED <<kind, msg, sys>>
    BY <1>1, <2>1 DEF Regular
  <2> QED BY <1>1, <1>2, <2>1, <2>2, <2>4, <2>5, <2>6, <2>7, IdleTask, Shift
<1>5. CASE Broken(c) /\ conn' = Told(c) /\ UNCHANGED <<kind, msg, backlog, main, task>>
  BY <1>1, <1>5, ToldSafe DEF Broken
<1> QED BY <1>3, <1>4, <1>5 DEF RecvRecv

(* hw-sockets/server.c keeps the invariant.                                 *)
LEMMA RecvSafe ==
    ASSUME Typed, Safe, RecvStep
    PROVE  Typed' /\ Safe'
<1>1. pool \in PoolType /\ ev \in EvType /\ InStep
  BY DEF Typed, Safe
<1>2. CASE RecvListens
  BY <1>1, <1>2, ListensSafe DEF RecvListens, Others, InStep
<1>3. CASE RecvAccept
  <2>1. sys.design = "recv" /\ UNCHANGED <<kids, pool, ev>>
    BY <1>3 DEF RecvAccept, Others
  <2>2. CASE Exit
    BY <1>1, <2>1, <2>2, ExitSafe DEF InStep
  <2>3. CASE /\ Accepts /\ main' = [at |-> "echo", fd |-> Head(backlog)]
             /\ SetTask(Head(backlog), Begun(Head(backlog)))
    BY <2>1, <2>3, ServeSafe
  <2> QED BY <1>3, <2>2, <2>3 DEF RecvAccept
<1>4. CASE RecvRecv
  BY <1>4, RecvRecvSafe
<1>5. CASE RecvSend
  <2>1. main.fd \in Clients /\ sys.design = "recv" /\ UNCHANGED <<kids, pool, ev>>
    BY <1>1, <1>5 DEF RecvSend, InStep, Others
  <2>2. CASE rio_writen(main.fd)
    BY <2>1, <2>2, WritenSafe
  <2>3. CASE /\ task[main.fd].at = "write" /\ conn[main.fd].err /\ conn' = Told(main.fd)
             /\ SetTask(main.fd, Begun(main.fd)) /\ UNCHANGED <<kind, msg, backlog, sys, main>>
    BY <2>1, <2>3, ToldSafe
  <2>4. CASE Exit
    BY <1>1, <2>1, <2>4, ExitSafe DEF InStep
  <2> QED BY <1>5, <2>2, <2>3, <2>4 DEF RecvSend
<1> QED BY <1>2, <1>3, <1>4, <1>5 DEF RecvStep

-----------------------------------------------------------------------------
(* echoserverp.c.                                                           *)
LEMMA ForkSafe ==
    ASSUME Typed, Safe, Fork
    PROVE  Typed' /\ Safe'
<1> DEFINE c == main.fd
<1>1. /\ c \in Clients /\ sys.design = "forking" /\ main.at = "fork" /\ main' = [main EXCEPT !.at = "close"]
      /\ UNCHANGED <<kind, msg, backlog, sys, kids, pool, ev>>
      /\ pool' \in PoolType /\ ev' \in EvType /\ InStep /\ Regular(c) /\ Placed(c)
      /\ conn \in [Clients -> ConnType] /\ task \in [Clients -> TaskType] /\ main \in MainType
      /\ backlog' \in Seq(Clients) /\ Distinct(backlog') /\ Distinct(pool'.queue)
  BY DEF Fork, Main, Safe, InStep, Typed
<1>2. main' \in MainType /\ main'.at = "close" /\ main'.fd = c /\ main.fd = c
  BY <1>1 DEF MainType
<1> HIDE DEF c
<1>3. task[c].at = "none"
  BY <1>1, <1>2 DEF Placed, InHand
<1>4. CASE UNCHANGED <<conn, task>>
  <2>1. ASSUME NEW d \in Clients PROVE Placed(d)' /\ Owned(d)'
    <3>1. Placed(d) /\ Owned(d)
      BY DEF Safe
    <3>2. Placed(d)'
      BY <1>1, <1>2, <1>4, <3>1 DEF Placed, InBacklog, InHand, InQueue
    <3>3. Owned(d)'
      BY <1>1, <1>2, <1>4, <3>1 DEF Owned
    <3> QED BY <3>2, <3>3
  <2>2. InStep' /\ Distinct(pool.queue)' /\ UNCHANGED <<connVars, sys, task>>
    BY <1>1, <1>2, <1>4 DEF InStep, connVars
  <2> QED BY <1>1, <1>2, <2>1, <2>2, Aside
<1>5. CASE /\ conn' = [conn EXCEPT ![main.fd].open = {"main", "child"}]
           /\ SetTask(main.fd, Begun(main.fd))
  <2> DEFINE w == {"main", "child"}
             q == conn[c]
             r == [q EXCEPT !.open = w]
             t == [NoTask EXCEPT !.at = "read"]
  <2>1. conn' = [conn EXCEPT ![c] = r] /\ task' = [task EXCEPT ![c] = t] /\ q \in ConnType
        /\ w \in SUBSET {"main", "child"}
    BY <1>1, <1>2, <1>5 DEF SetTask, Begun
  <2>2. t \in TaskType /\ t.at = "read" /\ Shape(t) /\ Holds(t, <<>>, <<>>, <<>>)
        /\ t.rio = rio_readinitb
    BY Begins
  <2> HIDE DEF w, t
  <2>3. Opened(r, q, w)
    <3> HIDE DEF q
    <3> QED BY <2>1, Opening
  <2> HIDE DEF r
  <2>4. conn'[c] = r /\ task'[c] = t
        /\ \A d \in Clients \ {c} : conn'[d] = conn[d] /\ task'[d] = task[d]
    BY <1>1, <2>1
  <2>5. ASSUME NEW d \in Clients PROVE Placed(d)' /\ Owned(d)'
    <3>1. Placed(d) /\ Owned(d)
      BY DEF Safe
    <3>2. Placed(d)'
      BY <1>1, <1>2, <2>2, <2>3, <2>4, <3>1 DEF Placed, InBacklog, InHand, InQueue, Opened
    <3>3. Owned(d)'
      BY <1>1, <1>2, <2>2, <2>4, <3>1 DEF Owned
    <3> QED BY <3>2, <3>3
  <2>6. InStep' /\ Distinct(pool.queue)' /\ Distinct(backlog)'
    BY <1>1, <1>2 DEF InStep
  <2>7. Whole(r, t) = Whole(conn[c], task[c])
    <3>1. Holds(task[c], <<>>, <<>>, <<>>)
      BY <1>1, <1>3, Empty DEF Regular
    <3> QED BY <2>2, <2>3, <3>1, OpenedWhole DEF Holds
  <2>8. r \in ConnType /\ (r.err => r.gone) /\ (conn[c].gone => r.gone)
        /\ main.at # "exited" /\ sys.design # "epoll" /\ UNCHANGED <<kind, msg, sys>>
    BY <1>1, <2>3 DEF Opened, Regular
  <2> QED BY <1>1, <1>2, <2>1, <2>2, <2>5, <2>6, <2>7, <2>8, Shift
<1> QED BY <1>4, <1>5 DEF Fork

(* The parent keeps the invariant.                                          *)
LEMMA ForkMainSafe ==
    ASSUME Typed, Safe, ForkMain
    PROVE  Typed' /\ Safe'
<1>1. pool \in PoolType /\ ev \in EvType /\ InStep /\ task \in [Clients -> TaskType]
      /\ main \in MainType /\ backlog \in Seq(Clients)
  BY DEF Typed, Safe
<1>2. CASE ForkListens
  BY <1>1, <1>2, ListensSafe DEF ForkListens, Main, InStep
<1>3. CASE ForkAccept
  BY <1>1, <1>3, HandOnSafe DEF ForkAccept, Main, Accepts
<1>4. CASE Fork
  BY <1>4, ForkSafe
<1>5. CASE ForkClose
  <2> DEFINE c == main.fd
             t == task[c]
  <2>1. /\ c \in Clients /\ sys.design = "forking" /\ main.at = "close"
        /\ conn' = Without(c, "main") /\ task' = [task EXCEPT ![c] = t] /\ t \in TaskType
        /\ main' = [at |-> "accept", fd |-> None]
        /\ UNCHANGED <<kind, msg, backlog, sys, pool, ev>>
    BY <1>1, <1>5 DEF ForkClose, InStep, Main
  <2>2. main' \in MainType /\ main'.at = "accept" /\ InStep'
    BY <1>1, <2>1 DEF MainType, InStep
  <2>3. \A d \in Clients : InHand(d)' <=> InHand(d)
    BY <2>1, <2>2 DEF InHand
  <2>4. main.fd = c /\ t = task[c]
    OBVIOUS
  <2> HIDE DEF c, t
  <2> QED BY <1>1, <2>1, <2>2, <2>3, <2>4, ClosingSafe DEF InStep
<1>6. CASE Caught \/ sigchld_handler
  <2>1. UNCHANGED <<connVars, sys, main, task, pool, ev>>
    BY <1>6 DEF Caught, sigchld_handler
  <2> QED BY <2>1, Stutters
<1> QED BY <1>2, <1>3, <1>4, <1>5, <1>6 DEF ForkMain

(* The children keep it.                                                    *)
LEMMA ChildSafe ==
    ASSUME Typed, Safe, NEW c \in Clients, ForkChild(c)
    PROVE  Typed' /\ Safe'
<1>1. pool \in PoolType /\ ev \in EvType /\ InStep /\ task \in [Clients -> TaskType]
      /\ main \in MainType /\ Regular(c) /\ Placed(c)
  BY DEF Typed, Safe
<1>2. CASE ChildEchoes(c)
  BY <1>2, EchoSafe DEF ChildEchoes
<1>3. CASE ChildExits(c)
  <2>1. /\ sys.design = "forking" /\ conn' = Without(c, "child") /\ task' = [task EXCEPT ![c] = NoTask]
        /\ UNCHANGED <<kind, msg, backlog, sys, main, pool, ev>>
        /\ task[c].at = "close" \/ conn[c].gone
        /\ task[c].at # "none"
    BY <1>1, <1>3 DEF ChildExits, SetTask, Fails, Broken, Regular
  <2>2. main.at # "exited" \/ main'.at = "exited"
    BY <2>1
  <2>3. InStep' /\ main' \in MainType /\ \A d \in Clients : InHand(d)' <=> InHand(d)
    BY <1>1, <2>1 DEF InStep, InHand
  <2> QED BY <1>1, <2>1, <2>2, <2>3, IdleTask, ClosingSafe DEF InStep
<1> QED BY <1>2, <1>3 DEF ForkChild

-----------------------------------------------------------------------------
(* echoservert.c.  A thread that begins.                                    *)
LEMMA StartSafe ==
    ASSUME Typed, Safe, NEW c \in Clients, sys.design = "threaded", main.at = "create",
           main.fd = c, SetTask(c, [NoTask EXCEPT !.at = "created"]),
           main' = [main EXCEPT !.at = "accept"], UNCHANGED <<connVars, sys, kids, pool, ev>>
    PROVE  Typed' /\ Safe'
<1> DEFINE t == [NoTask EXCEPT !.at = "created"]
<1>1. /\ conn \in [Clients -> ConnType] /\ task \in [Clients -> TaskType] /\ main \in MainType
      /\ pool' \in PoolType /\ ev' \in EvType /\ InStep /\ Regular(c) /\ Placed(c)
      /\ UNCHANGED <<kind, msg, backlog, conn, sys, pool>> /\ conn' = [conn EXCEPT ![c] = conn[c]]
      /\ backlog' \in Seq(Clients) /\ Distinct(backlog') /\ Distinct(pool'.queue)
  BY DEF Typed, Safe, connVars
<1>2. t \in TaskType /\ t.at = "created" /\ Shape(t) /\ Holds(t, <<>>, <<>>, <<>>)
  BY Begins
<1>3. task' = [task EXCEPT ![c] = t]
  BY DEF SetTask
<1> HIDE DEF t
<1>4. main' \in MainType /\ main'.at = "accept" /\ InStep'
  BY <1>1 DEF MainType, InStep
<1>5. task'[c] = t /\ \A d \in Clients \ {c} : task'[d] = task[d]
  BY <1>1, <1>3
<1>6. ASSUME NEW d \in Clients PROVE Placed(d)' /\ Owned(d)'
  <2>1. Placed(d) /\ Owned(d)
    BY DEF Safe
  <2>2. Placed(d)'
    BY <1>1, <1>2, <1>4, <1>5, <2>1 DEF Placed, InBacklog, InHand, InQueue
  <2>3. Owned(d)'
    BY <1>1, <1>2, <1>4, <1>5, <2>1 DEF Owned, InHand, InQueue
  <2> QED BY <2>2, <2>3
<1>7. Whole(conn[c], t) = Whole(conn[c], task[c])
  <2>1. task[c].at = "none"
    BY <1>1 DEF Placed, InHand
  <2>2. Holds(task[c], <<>>, <<>>, <<>>)
    BY <1>1, <2>1, Empty DEF Regular
  <2> QED BY <1>2, <2>2 DEF Holds, Whole
<1>8. (conn[c].err => conn[c].gone) /\ main.at # "exited" /\ sys.design \notin {"epoll", "recv"}
      /\ UNCHANGED <<kind, msg, sys>> /\ Distinct(backlog)' /\ Distinct(pool.queue)'
      /\ conn[c] \in ConnType
  BY <1>1 DEF Regular
<1> QED BY <1>1, <1>2, <1>3, <1>4, <1>6, <1>7, <1>8, Shift

(* When there is no room for one more thread, there are fewer than clients. *)
LEMMA NoRoom ==
    ASSUME Typed, NEW c \in Clients, task[c].at = "none", ~(Cardinality(Threads) < sys.tasks)
    PROVE  sys.tasks < Cardinality(Clients)
<1>1. IsFiniteSet(Clients) /\ sys.tasks \in Nat
  BY EchoAssumption DEF Typed
<1>2. Threads \subseteq Clients \ {c}
  BY DEF Threads
<1>3. IsFiniteSet(Clients \ {c}) /\ Cardinality(Clients \ {c}) = Cardinality(Clients) - 1
      /\ Cardinality(Clients) \in Nat
  BY <1>1, FS_RemoveElement, FS_CardinalityType
<1>4. Cardinality(Threads) <= Cardinality(Clients \ {c}) /\ Cardinality(Threads) \in Nat
  BY <1>2, <1>3, FS_Subset, FS_CardinalityType
<1> QED BY <1>1, <1>3, <1>4

(* The main thread of echoservert.c keeps the invariant.                    *)
LEMMA ThreadMainSafe ==
    ASSUME Typed, Safe, ThreadMain
    PROVE  Typed' /\ Safe'
<1>1. pool \in PoolType /\ ev \in EvType /\ InStep /\ main \in MainType
  BY DEF Typed, Safe
<1>2. CASE ThreadListens
  BY <1>1, <1>2, ListensSafe DEF ThreadListens, InStep
<1>3. CASE ThreadAccept
  <2>1. sys.design = "threaded" /\ main.at = "accept" /\ UNCHANGED <<task, kids, pool, ev>>
    BY <1>3 DEF ThreadAccept
  <2>2. CASE Accepts /\ main' = [at |-> "create", fd |-> Head(backlog)]
    BY <1>1, <2>1, <2>2, HandOnSafe DEF Accepts
  <2>3. CASE main' = [at |-> "create", fd |-> None] /\ UNCHANGED <<connVars, sys>>
    <3>1. main' \in MainType /\ main'.at = "create" /\ main'.fd = None
      BY <2>3 DEF MainType
    <3> QED BY <1>1, <2>1, <2>3, <3>1, MainSafe
  <2> QED BY <1>3, <2>2, <2>3 DEF ThreadAccept
<1>4. CASE ThreadCreate
  <2>1. sys.design = "threaded" /\ main.at = "create" /\ UNCHANGED <<kids, pool, ev>>
        /\ main.fd \in Clients \cup {None}
    BY <1>1, <1>4 DEF ThreadCreate, InStep
  <2>2. CASE /\ main.fd # None /\ SetTask(main.fd, [NoTask EXCEPT !.at = "created"])
             /\ main' = [main EXCEPT !.at = "accept"] /\ UNCHANGED <<connVars, sys>>
    BY <2>1, <2>2, StartSafe
  <2>3. CASE Exit
    BY <1>1, <2>1, <2>3, ExitSafe DEF InStep
  <2>4. CASE /\ ~(Cardinality(Threads) < sys.tasks)
             /\ main' = [main EXCEPT !.at = "accept"] /\ UNCHANGED <<connVars, sys, task>>
    <3>1. main' \in MainType /\ main'.at = "accept"
      BY <1>1, <2>4 DEF MainType
    <3>2. main.fd = None \/ sys.tasks < Cardinality(Clients)
      <4>1. ASSUME main.fd \in Clients PROVE task[main.fd].at = "none"
        BY <2>1, <4>1 DEF Safe, Placed, InHand
      <4> QED BY <2>1, <2>4, <4>1, NoRoom
    <3> QED BY <1>1, <2>1, <2>4, <3>1, <3>2, MainSafe
  <2> QED BY <1>4, <2>2, <2>3, <2>4 DEF ThreadCreate
<1> QED BY <1>2, <1>3, <1>4 DEF ThreadMain

(* Its threads keep it.                                                     *)
LEMMA ThreadSafe ==
    ASSUME Typed, Safe, NEW c \in Clients, Thread(c)
    PROVE  Typed' /\ Safe'
<1>1. pool \in PoolType /\ ev \in EvType /\ InStep /\ main \in MainType /\ Regular(c)
      /\ task \in [Clients -> TaskType]
  BY DEF Typed, Safe
<1>2. CASE ThreadStart(c)
  <2> DEFINE t == [NoTask EXCEPT !.at = "read"]
  <2>1. /\ sys.design = "threaded" /\ task[c].at = "created" /\ SetTask(c, t)
        /\ UNCHANGED <<connVars, sys, main, pool, ev>>
    BY <1>2 DEF ThreadStart, Begun
  <2>2. t \in TaskType /\ t.at = "read" /\ Shape(t) /\ Holds(t, <<>>, <<>>, <<>>)
    BY Begins
  <2> HIDE DEF t
  <2>3. Whole(conn[c], t) = Whole(conn[c], task[c])
    <3>1. Holds(task[c], <<>>, <<>>, <<>>)
      BY <1>1, <2>1, Empty DEF Regular
    <3> QED BY <2>2, <3>1 DEF Holds, Whole
  <2> QED BY <1>1, <2>1, <2>2, <2>3, LocalTask DEF InStep
<1>3. CASE ThreadEchoes(c)
  BY <1>1, <1>3, EchoSafe, ExitSafe DEF ThreadEchoes, InStep
<1>4. CASE ThreadCloses(c)
  <2>1. /\ sys.design = "threaded" /\ task[c].at = "close" /\ conn' = Without(c, "main")
        /\ task' = [task EXCEPT ![c] = NoTask]
        /\ UNCHANGED <<kind, msg, backlog, sys, main, pool, ev>>
    BY <1>4 DEF ThreadCloses, SetTask
  <2>2. InStep' /\ main' \in MainType /\ \A d \in Clients : InHand(d)' <=> InHand(d)
    BY <1>1, <2>1 DEF InStep, InHand
  <2> QED BY <1>1, <2>1, <2>2, IdleTask, ClosingSafe DEF InStep
<1> QED BY <1>2, <1>3, <1>4 DEF Thread

-----------------------------------------------------------------------------
(* echoservert_pre.c.                                                       *)
LEMMA InsertSafe ==
    ASSUME Typed, Safe, PoolInsert
    PROVE  Typed' /\ Safe'
<1> DEFINE e == main.fd
           s == Append(pool.queue, e)
<1>1. /\ e \in Clients \cup {Bad} /\ sys.design = "pool" /\ main.at = "insert"
      /\ pool' = [pool EXCEPT !.queue = s] /\ main' = [at |-> "accept", fd |-> None]
      /\ UNCHANGED <<connVars, sys, task, ev>> /\ pool \in PoolType /\ ev' \in EvType
      /\ conn \in [Clients -> ConnType] /\ task \in [Clients -> TaskType] /\ Distinct(pool.queue)
  BY DEF PoolInsert, Safe, InStep, Typed
<1>2. pool.queue \in Seq(Clients \cup {Bad})
  BY <1>1 DEF PoolType
<1>3. e \in Clients => e \notin ToSet(pool.queue)
  BY <1>1 DEF Safe, Placed, InHand, InQueue
<1>4. s \in Seq(Clients \cup {Bad}) /\ Distinct(s) /\ ToSet(s) = ToSet(pool.queue) \cup {e}
  BY <1>1, <1>2, <1>3, LastOf
<1>5. main.fd = e /\ pool.queue \in Seq(Clients \cup {Bad})
  BY <1>2
<1> HIDE DEF s, e
<1>6. pool' \in PoolType /\ pool'.queue = s /\ pool'.running = pool.running
  BY <1>1, <1>4 DEF PoolType
<1>7. main' \in MainType /\ main'.at = "accept" /\ InStep'
  BY <1>1 DEF MainType, InStep
<1>8. ASSUME NEW d \in Clients PROVE Placed(d)' /\ Owned(d)'
  <2>1. Placed(d) /\ Owned(d)
    BY DEF Safe
  <2>2. Placed(d)'
    BY <1>1, <1>4, <1>5, <1>6, <1>7, <2>1 DEF Placed, InBacklog, InHand, InQueue, connVars
  <2>3. Owned(d)'
    BY <1>1, <1>4, <1>5, <1>6, <1>7, <2>1 DEF Owned, InHand, InQueue, connVars
  <2> QED BY <2>2, <2>3
<1>9. Distinct(pool.queue)' /\ main.at # "exited"
  BY <1>1, <1>4, <1>6
<1> QED BY <1>1, <1>6, <1>7, <1>8, <1>9, Aside

(* The main thread of echoservert_pre.c keeps the invariant.                *)
LEMMA PoolMainSafe ==
    ASSUME Typed, Safe, PoolMain
    PROVE  Typed' /\ Safe'
<1>1. pool \in PoolType /\ ev \in EvType /\ InStep /\ main \in MainType
  BY DEF Typed, Safe
<1>2. CASE PoolListens
  <2>1. PICK r \in SUBSET Workers : pool' = [pool EXCEPT !.running = r, !.mutex = Uninit]
    BY <1>2 DEF PoolListens
  <2>2. pool' \in PoolType /\ pool'.queue = pool.queue
    BY <1>1, <2>1 DEF PoolType
  <2> QED BY <1>1, <1>2, <2>2, ListensSafe DEF PoolListens
<1>3. CASE PoolAccept
  <2>1. sys.design = "pool" /\ main.at = "accept" /\ UNCHANGED <<task, kids, pool, ev>>
    BY <1>3 DEF PoolAccept
  <2>2. CASE Accepts /\ main' = [at |-> "insert", fd |-> Head(backlog)]
    BY <1>1, <2>1, <2>2, HandOnSafe DEF Accepts
  <2>3. CASE main' = [at |-> "insert", fd |-> Bad] /\ UNCHANGED <<connVars, sys>>
    <3>1. main' \in MainType /\ main'.at = "insert" /\ main'.fd = Bad
      BY <2>3 DEF MainType
    <3> QED BY <1>1, <2>1, <2>3, <3>1, MainSafe
  <2> QED BY <1>3, <2>2, <2>3 DEF PoolAccept
<1>4. CASE PoolInsert
  BY <1>4, InsertSafe
<1> QED BY <1>2, <1>3, <1>4 DEF PoolMain

(* sbuf_remove: a worker takes a connection, or -1, from the queue.         *)
LEMMA TakeSafe ==
    ASSUME Typed, Safe, NEW w \in Workers, Take(w)
    PROVE  Typed' /\ Safe'
<1> DEFINE fd == Head(pool.queue)
           s == Tail(pool.queue)
<1>1. /\ sys.design = "pool" /\ pool.queue # <<>>
      /\ pool' = [pool EXCEPT !.queue = s, !.holds[w] = fd]
      /\ task' = IF fd = Bad THEN task ELSE [task EXCEPT ![fd] = [NoTask EXCEPT !.at = "once"]]
      /\ UNCHANGED <<connVars, sys, main, ev>> /\ pool \in PoolType /\ ev' \in EvType
      /\ main' \in MainType /\ backlog' \in Seq(Clients) /\ Distinct(backlog') /\ InStep
      /\ conn \in [Clients -> ConnType] /\ task \in [Clients -> TaskType] /\ Distinct(pool.queue)
      /\ UNCHANGED <<kind, msg, conn, backlog>>
  BY DEF Take, Safe, InStep, Typed, connVars
<1>2. pool.queue \in Seq(Clients \cup {Bad})
  BY <1>1 DEF PoolType
<1>3. /\ fd \in Clients \cup {Bad} /\ s \in Seq(Clients \cup {Bad}) /\ Distinct(s)
      /\ fd \in ToSet(pool.queue)
      /\ \A d \in Clients : d \in ToSet(s) <=> d \in ToSet(pool.queue) /\ d # fd
  BY <1>1, <1>2, FirstOf
<1> HIDE DEF fd, s
<1>4. pool' \in PoolType /\ pool'.queue = s /\ pool'.running = pool.running
  BY <1>1, <1>3 DEF PoolType
<1>5. InStep' /\ Distinct(pool.queue)' /\ Distinct(backlog)'
      /\ (main.at # "exited" \/ main'.at = "exited")
  BY <1>1, <1>3, <1>4 DEF InStep
<1>6. CASE fd = Bad
  <2>1. ASSUME NEW d \in Clients PROVE Placed(d)' /\ Owned(d)'
    <3>1. Placed(d) /\ Owned(d) /\ d # Bad
      BY EchoAssumption DEF Safe
    <3>2. Placed(d)'
      BY <1>1, <1>3, <1>4, <1>6, <3>1 DEF Placed, InBacklog, InHand, InQueue
    <3>3. Owned(d)'
      BY <1>1, <1>3, <1>4, <1>6, <3>1 DEF Owned, InHand, InQueue
    <3> QED BY <3>2, <3>3
  <2> QED BY <1>1, <1>4, <1>5, <1>6, <2>1, Aside
<1>7. CASE fd # Bad
  <2> DEFINE t == [NoTask EXCEPT !.at = "once"]
  <2>1. fd \in Clients /\ task' = [task EXCEPT ![fd] = t] /\ conn' = [conn EXCEPT ![fd] = conn[fd]]
        /\ conn[fd] \in ConnType
    BY <1>1, <1>3, <1>7
  <2>2. t \in TaskType /\ t.at = "once" /\ Shape(t) /\ Holds(t, <<>>, <<>>, <<>>)
    BY Begins
  <2> HIDE DEF t
  <2>3. task'[fd] = t /\ \A d \in Clients \ {fd} : task'[d] = task[d]
    BY <1>1, <2>1
  <2>4. task[fd].at = "none" /\ Regular(fd) /\ Placed(fd) /\ InQueue(fd)
    BY <1>1, <1>3, <2>1 DEF Safe, Placed, InQueue
  <2>5. ASSUME NEW d \in Clients PROVE Placed(d)' /\ Owned(d)'
    <3>1. Placed(d) /\ Owned(d)
      BY DEF Safe
    <3>2. Placed(d)'
      BY <1>1, <1>3, <1>4, <2>2, <2>3, <2>4, <3>1 DEF Placed, InBacklog, InHand, InQueue
    <3>3. Owned(d)'
      BY <1>1, <1>3, <1>4, <2>2, <2>3, <3>1 DEF Owned, InHand, InQueue
    <3> QED BY <3>2, <3>3
  <2>6. Whole(conn[fd], t) = Whole(conn[fd], task[fd])
    <3>1. Holds(task[fd], <<>>, <<>>, <<>>)
      BY <2>4, Empty DEF Regular
    <3> QED BY <2>2, <3>1 DEF Holds, Whole
  <2>7. (conn[fd].err => conn[fd].gone) /\ sys.design \notin {"epoll", "recv"}
    BY <1>1, <2>4 DEF Regular
  <2> QED BY <1>1, <1>4, <1>5, <2>1, <2>2, <2>5, <2>6, <2>7, Shift
<1> QED BY <1>6, <1>7

(* The steps of echo_cnt between the line and its echo.                     *)
LEMMA CountSafe ==
    ASSUME Typed, Safe, NEW w \in Workers, Holding(w),
           Pthread_once(w) \/ P(w) \/ Load(w) \/ Store(w) \/ V(w)
    PROVE  Typed' /\ Safe'
<1> DEFINE c == pool.holds[w]
           t == task[c]
<1>1. /\ c \in Clients /\ sys.design = "pool" /\ pool \in PoolType /\ t \in TaskType /\ Regular(c)
      /\ Shape(t) /\ pool.byte_cnt \in Int
      /\ UNCHANGED <<connVars, sys, main, ev>>
  BY DEF Holding, Safe, InStep, Typed, Pthread_once, P, Load, Store, V, Quiet, PoolType, Regular
<1>2. t.reg \in Int /\ t.todo \in Seq(Bytes)
  BY <1>1 DEF TaskType
<1>3. ASSUME NEW a \in {"read", "load", "store", "V", "write"}, NEW n \in Int,
             NEW s, s = [t EXCEPT !.at = a] \/ s = [t EXCEPT !.at = a, !.reg = n], SetTask(c, s),
             t.at # "read", t.at # "none", a = "read" => t.at = "once",
             pool' \in PoolType, pool'.queue = pool.queue
      PROVE  Typed' /\ Safe'
  <2>1. GoesTo(s, t, a)
    <3>1. t \in TaskType
      BY <1>1
    <3> HIDE DEF t
    <3>2. GoesTo([t EXCEPT !.at = a], t, a) /\ GoesTo([t EXCEPT !.at = a, !.reg = n], t, a)
      BY <3>1, GoesOn
    <3> QED BY <1>3, <3>2
  <2>2. Shape(s)
    BY <1>1, <1>3, <2>1 DEF Shape, GoesTo
  <2>3. Whole(conn[c], s) = Whole(conn[c], t) /\ sys.design \notin {"recv", "epoll"}
        /\ s \in TaskType /\ s.at = a
    BY <1>1, <2>1 DEF Whole, GoesTo
  <2> QED BY <1>1, <1>3, <2>2, <2>3, LocalTask
<1>4. CASE Pthread_once(w)
  <2>1. t.at = "once" /\ SetTask(c, [t EXCEPT !.at = "read"])
        /\ pool' = IF pool.mutex = Uninit THEN [pool EXCEPT !.mutex = None, !.byte_cnt = 0] ELSE pool
    BY <1>4 DEF Pthread_once, At, Goes
  <2>2. pool' \in PoolType /\ pool'.queue = pool.queue
    <3>1. CASE pool' = pool
      BY <1>1, <3>1
    <3>2. CASE pool' = [pool EXCEPT !.mutex = None, !.byte_cnt = 0]
      <4>1. 0 \in Int
        OBVIOUS
      <4> QED BY <1>1, <3>2, <4>1 DEF PoolType
    <3> QED BY <2>1, <3>1, <3>2
  <2> QED BY <1>2, <1>3, <2>1, <2>2
<1>5. CASE P(w)
  <2>1. t.at = "P" /\ SetTask(c, [t EXCEPT !.at = "load"]) /\ pool' = [pool EXCEPT !.mutex = w]
    BY <1>5 DEF P, At, Goes
  <2>2. pool' \in PoolType /\ pool'.queue = pool.queue
    BY <1>1, <2>1 DEF PoolType
  <2> QED BY <1>2, <1>3, <2>1, <2>2
<1>6. CASE Load(w)
  <2> DEFINE n == AsInt(pool.byte_cnt + Len(t.todo))
  <2>1. t.at = "load" /\ SetTask(c, [t EXCEPT !.at = "store", !.reg = n]) /\ pool' = pool
    BY <1>6 DEF Load, At
  <2>2. n \in Int
    <3>1. pool.byte_cnt + Len(t.todo) \in Int
      BY <1>1, <1>2, LenProperties DEF PoolType
    <3> QED BY <3>1, IntIs
  <2> HIDE DEF n
  <2> QED BY <1>1, <1>3, <2>1, <2>2
<1>7. CASE Store(w)
  <2>1. t.at = "store" /\ SetTask(c, [t EXCEPT !.at = "V"]) /\ pool' = [pool EXCEPT !.byte_cnt = t.reg]
    BY <1>7 DEF Store, At, Goes
  <2>2. pool' \in PoolType /\ pool'.queue = pool.queue
    BY <1>1, <1>2, <2>1 DEF PoolType
  <2> QED BY <1>2, <1>3, <2>1, <2>2
<1>8. CASE V(w)
  <2>1. t.at = "V" /\ SetTask(c, [t EXCEPT !.at = "write"]) /\ pool' = [pool EXCEPT !.mutex = None]
    BY <1>8 DEF V, At, Goes
  <2>2. pool' \in PoolType /\ pool'.queue = pool.queue
    BY <1>1, <2>1 DEF PoolType
  <2> QED BY <1>2, <1>3, <2>1, <2>2
<1> QED BY <1>4, <1>5, <1>6, <1>7, <1>8

(* The workers keep the invariant.                                          *)
LEMMA WorkerSafe ==
    ASSUME Typed, Safe, NEW w \in Workers, handle_clients(w)
    PROVE  Typed' /\ Safe'
<1>1. pool \in PoolType /\ ev \in EvType /\ InStep /\ main \in MainType
      /\ task \in [Clients -> TaskType]
  BY DEF Typed, Safe
<1>2. CASE Take(w)
  BY <1>2, TakeSafe
<1>3. CASE echo_cnt(w)
  <2>1. CASE Pthread_once(w) \/ P(w) \/ Load(w) \/ Store(w) \/ V(w)
    <3>1. Holding(w)
      BY <2>1 DEF Pthread_once, P, Load, Store, V, At
    <3> QED BY <2>1, <3>1, CountSafe
  <2>2. CASE /\ Holding(w)
             /\ LET c == pool.holds[w] IN Rio_readlineb(c, "P") \/ RioEnd(c, "P") \/ rio_writen(c)
             /\ UNCHANGED <<kids, pool, ev>>
    <3>1. pool.holds[w] \in Clients /\ sys.design \notin {"recv", "epoll"} /\ UNCHANGED <<pool, ev>>
      BY <1>1, <2>2 DEF Holding, InStep
    <3> QED BY <2>2, <3>1, ReadLineSafe, RioEndSafe, WritenSafe
  <2> QED BY <1>3, <2>1, <2>2 DEF echo_cnt
<1>4. CASE PoolFails(w)
  <2>1. Exit /\ pool' = [pool EXCEPT !.running = {}] /\ UNCHANGED ev
    BY <1>4 DEF PoolFails
  <2>2. pool' \in PoolType /\ pool'.queue = pool.queue /\ pool'.running = {}
    BY <1>1, <2>1 DEF PoolType
  <2> QED BY <1>1, <2>1, <2>2, ExitSafe
<1>5. CASE PoolCloses(w)
  <2> DEFINE c == pool.holds[w]
  <2>1. /\ c \in Clients /\ sys.design = "pool" /\ task[c].at = "close" /\ conn' = Without(c, "main")
        /\ task' = [task EXCEPT ![c] = NoTask] /\ pool' = [pool EXCEPT !.holds[w] = None]
        /\ UNCHANGED <<kind, msg, backlog, sys, main, ev>>
    BY <1>1, <1>5 DEF PoolCloses, SetTask, At, Holding, InStep
  <2> HIDE DEF c
  <2>2. pool' \in PoolType /\ pool'.queue = pool.queue /\ pool'.running = pool.running
    BY <1>1, <2>1 DEF PoolType
  <2>3. InStep' /\ main' \in MainType /\ \A d \in Clients : InHand(d)' <=> InHand(d)
    BY <1>1, <2>1, <2>2 DEF InStep, InHand
  <2> QED BY <1>1, <2>1, <2>2, <2>3, IdleTask, ClosingSafe
<1> QED BY <1>2, <1>3, <1>4, <1>5 DEF handle_clients

-----------------------------------------------------------------------------
(* echoservere.c.                                                           *)
(* A change of one connection between recv and send.                        *)
LEMMA EpollShift ==
    ASSUME Typed, Safe, NEW c \in Clients, NEW q \in ConnType, NEW t \in TaskType,
           conn' = [conn EXCEPT ![c] = q], task' = [task EXCEPT ![c] = t],
           UNCHANGED <<kind, msg, backlog, sys, kids, pool, ev>>,
           sys.design = "epoll", main.at \in {"recv", "send"}, main.fd = c,
           NEW a \in {"recv", "send"}, main' = [main EXCEPT !.at = a],
           t.at = IF a = "send" THEN "write" ELSE "none", t.rio.buf = <<>>, Shape(t),
           q.up <=> conn[c].up, q.open = conn[c].open,
           q.err => q.gone, conn[c].gone => q.gone,
           \/ q.gone \/ sys.window < Len(msg[c])
           \/ Whole(q, t) = Whole(conn[c], task[c])
    PROVE  Typed' /\ Safe'
<1>1. /\ conn \in [Clients -> ConnType] /\ task \in [Clients -> TaskType] /\ main \in MainType
      /\ pool' \in PoolType /\ ev' \in EvType /\ InStep
      /\ backlog' \in Seq(Clients) /\ Distinct(backlog)' /\ Distinct(pool.queue)'
  BY DEF Typed, Safe, Distinct
<1>2. main' \in MainType /\ main'.at = a /\ main'.fd = c
  BY <1>1 DEF MainType
<1>3. conn'[c] = q /\ task'[c] = t
      /\ \A d \in Clients \ {c} : conn'[d] = conn[d] /\ task'[d] = task[d]
  BY <1>1
<1>4. InStep' /\ main.at # "exited"
  BY <1>1, <1>2 DEF InStep
<1>5. ASSUME NEW d \in Clients PROVE Placed(d)' /\ Owned(d)' /\ Sending(d)'
  <2>1. Placed(d) /\ Owned(d) /\ Sending(d)
    BY DEF Safe
  <2>2. Placed(d)'
    BY <1>2, <1>3, <2>1 DEF Placed, InBacklog, InHand, InQueue
  <2>3. Owned(d)'
    BY <1>2, <1>3, <2>1 DEF Owned, InHand, InQueue
  <2>4. Sending(d)'
    BY <1>2, <1>3, <2>1 DEF Sending
  <2> QED BY <2>2, <2>3, <2>4
<1>6. sys.design # "recv" /\ UNCHANGED <<kind, msg, sys>>
  OBVIOUS
<1> QED BY <1>1, <1>2, <1>4, <1>5, <1>6, Shift

(* EpollRecv keeps the invariant.                                           *)
LEMMA EpollRecvSafe ==
    ASSUME Typed, Safe, EpollRecv
    PROVE  Typed' /\ Safe'
<1> DEFINE c == main.fd
           q == conn[c]
           n == Min({MaxLine, Len(q.in)})
           x == SubSeq(q.in, 1, n)
           y == Drop(q.in, n)
           r == [q EXCEPT !.in = y]
           t == [NoTask EXCEPT !.at = "write", !.todo = x]
           a == "send"
<1>1. /\ c \in Clients /\ sys.design = "epoll" /\ main.at = "recv" /\ main.fd = c
      /\ conn' = [conn EXCEPT ![c] = r] /\ task' = [task EXCEPT ![c] = t]
      /\ UNCHANGED <<kind, msg, backlog, sys, kids, pool, ev>>
      /\ main' = [main EXCEPT !.at = a] /\ Regular(c) /\ Sending(c)
  BY DEF EpollRecv, Safe, InStep, Keep, Changes, SetTask
<1>2. q \in ConnType /\ task[c] \in TaskType
  BY <1>1, ConnFields, TaskFields
<1>3. x \in Seq(Bytes) /\ y \in Seq(Bytes) /\ Cat(x, y) = q.in
  <2> HIDE DEF q
  <2> QED BY <1>2, Received
<1> HIDE DEF c, n, x, y
<1>4. Carries(r, q, q.unsent, y, q.out, q.got)
  <2> HIDE DEF q
  <2> QED BY <1>2, <1>3, Carried DEF ConnType
<1>5. t \in TaskType /\ t.at = "write" /\ Holds(t, x, <<>>, <<>>) /\ Shape(t)
  <2> DEFINE e == NoTask
  <2>1. e \in TaskType /\ e.rio.user = <<>> /\ e.rio.buf = <<>>
    BY IdleTask DEF Holds
  <2> HIDE DEF e
  <2>2. [e EXCEPT !.at = "write", !.todo = x] \in TaskType
        /\ [e EXCEPT !.at = "write", !.todo = x].at = "write"
        /\ [e EXCEPT !.at = "write", !.todo = x].todo = x
        /\ [e EXCEPT !.at = "write", !.todo = x].rio = e.rio
    BY <1>3, <2>1 DEF TaskType
  <2>3. t = [e EXCEPT !.at = "write", !.todo = x]
    BY DEF e
  <2> HIDE DEF t
  <2> QED BY <2>1, <2>2, <2>3, RioAssumption DEF Holds, Shape
<1> HIDE DEF r, t
<1>6. Holds(task[c], <<>>, <<>>, <<>>)
  BY <1>1, Empty DEF Regular, Sending
<1>7. Whole(r, t) = Whole(q, task[c])
  <2> HIDE DEF q
  <2> QED BY <1>2, <1>3, <1>4, <1>5, <1>6, RecvMove
<1>8. r \in ConnType /\ r.open = q.open /\ (r.up <=> q.up) /\ (r.err => r.gone) /\ (q.gone => r.gone)
  BY <1>1, <1>4 DEF Carries, Regular
<1>9. a \in {"recv", "send"} /\ a = "send" /\ t.rio.buf = <<>>
  BY <1>5 DEF Holds
<1> HIDE DEF a
<1> QED BY <1>1, <1>5, <1>7, <1>8, <1>9, EpollShift DEF q

(* What a send takes is everything, if the window holds the whole message.  *)
LEMMA SentAll ==
    ASSUME NEW q \in ConnType, NEW t \in TaskType, NEW w \in Nat, NEW l \in Nat
    PROVE  LET n == Min({Len(t.todo), w - Len(q.out)})
               x == SubSeq(t.todo, 1, n) IN
             x \in Seq(Bytes) /\ (Len(Whole(q, t)) = l /\ ~(w < l) => x = t.todo)
<1> DEFINE i == t.todo
           a == Len(i)
           b == w - Len(q.out)
           n == Min({a, b})
           x == SubSeq(i, 1, n)
<1>1. i \in Seq(Bytes) /\ a \in Nat /\ Len(q.out) \in Nat /\ b \in Int
  BY FieldSeqs, LenProperties
<1>2. (b \in Nat /\ n \in 0 .. a /\ n \in {a, b}) \/ (b < 0 /\ n = b)
  <2>1. ASSUME b \in Nat PROVE n \in 0 .. a /\ n \in {a, b}
    <3>1. n = Min({a, b})
      OBVIOUS
    <3> HIDE DEF a, b, n
    <3> QED BY <1>1, <2>1, <3>1, LeastOfTwo
  <2>2. ASSUME b \notin Nat PROVE b < 0 /\ n = b
    <3>1. n = Min({a, b})
      OBVIOUS
    <3>2. b < 0
      BY <1>1, <2>2
    <3> HIDE DEF a, b, n
    <3> QED BY <1>1, <3>1, <3>2 DEF Min
  <2> QED BY <2>1, <2>2
<1>3. x \in Seq(Bytes)
  <2>1. CASE n \in 0 .. a
    <3> HIDE DEF n
    <3> QED BY <1>1, <2>1, Split
  <2>2. CASE b < 0 /\ n = b
    <3>1. n \in Int /\ n < 1
      BY <1>1, <2>2
    <3> HIDE DEF n
    <3>2. x = <<>>
      BY <3>1, SubSeqEmpty
    <3> HIDE DEF x
    <3> QED BY <3>2
  <2> QED BY <1>2, <2>1, <2>2
<1>4. ASSUME Len(Whole(q, t)) = l, ~(w < l) PROVE x = i
  <2> DEFINE o == Len(q.out)  g == Len(q.got)  u == Len(t.rio.user)  k == Len(t.rio.buf)
             v == Len(q.in)  z == Len(q.unsent)
  <2>1. l = g + o + a + u + k + v + z
    BY <1>4, Chained
  <2>2. g \in Nat /\ o \in Nat /\ u \in Nat /\ k \in Nat /\ v \in Nat /\ z \in Nat
    BY FieldSeqs, LenProperties
  <2>3. b = w - o
    OBVIOUS
  <2>4. a <= b
    <3> HIDE DEF n, x, g, o, a, u, k, v, z, b
    <3> QED BY <1>1, <1>4, <2>1, <2>2, <2>3
  <2>5. n = a
    <3> HIDE DEF n, x, g, o, a, u, k, v, z, b
    <3> QED BY <1>1, <1>2, <2>4
  <2> HIDE DEF n
  <2> QED BY <1>1, <2>5, SubSeqFull
<1> QED BY <1>3, <1>4

(* EpollSend keeps the invariant.                                           *)
LEMMA EpollSendSafe ==
    ASSUME Typed, Safe, EpollSend
    PROVE  Typed' /\ Safe'
<1> DEFINE c == main.fd
           q == conn[c]
           t == task[c]
           a == "recv"
<1>1. /\ c \in Clients /\ sys.design = "epoll" /\ main.at = "send" /\ main.fd = c
      /\ UNCHANGED <<kids, pool, ev>> /\ InStep /\ Regular(c) /\ Exact(c)
      /\ a \in {"recv", "send"} /\ a # "send" /\ main.at # "exited"
  BY DEF EpollSend, Safe, InStep, Keep
<1>2. q \in ConnType /\ t \in TaskType /\ sys.window \in Nat /\ Shape(t)
      /\ pool' \in PoolType /\ ev' \in EvType
  BY <1>1, ConnFields, TaskFields, EchoAssumption DEF Typed, Regular
<1>3. NoTask \in TaskType /\ NoTask.at = "none" /\ Shape(NoTask) /\ Holds(NoTask, <<>>, <<>>, <<>>)
      /\ NoTask.rio.buf = <<>>
  BY IdleTask
<1>4. t.at = "write" /\ t.rio.buf = <<>>
  BY <1>1 DEF Safe, Sending
<1>5. CASE /\ ~q.gone
           /\ Changes(c, [q EXCEPT !.out = @ \o SubSeq(t.todo, 1, Min({Len(t.todo), sys.window - Len(q.out)}))])
           /\ SetTask(c, NoTask) /\ main' = [main EXCEPT !.at = "recv"] /\ UNCHANGED sys
  <2> DEFINE n == Min({Len(t.todo), sys.window - Len(q.out)})
             x == SubSeq(t.todo, 1, n)
             o == Cat(q.out, x)
             r == [q EXCEPT !.out = o]
  <2>1. conn' = [conn EXCEPT ![c] = r] /\ task' = [task EXCEPT ![c] = NoTask]
        /\ UNCHANGED <<kind, msg, backlog, sys, kids, pool, ev>> /\ main' = [main EXCEPT !.at = a]
    BY <1>1, <1>5 DEF Changes, SetTask, Cat
  <2> DEFINE l == Len(msg[c])
  <2>2. l \in Nat
    BY <1>1, EchoAssumption, LenProperties DEF Typed, Bytes
  <2> HIDE DEF c, q, t, a
  <2>3. x \in Seq(Bytes) /\ (Len(Whole(q, t)) = l /\ ~(sys.window < l) => x = t.todo)
    <3> HIDE DEF l
    <3> QED BY <1>2, <2>2, SentAll
  <2>4. q.gone \/ sys.window < Len(msg[c]) \/ x = t.todo
    <3>1. q.gone \/ sys.window < Len(msg[c]) \/ Whole(q, t) = msg[c]
      BY <1>1 DEF Exact, q, t
    <3> QED BY <2>3, <3>1
  <2> HIDE DEF n, x, l
  <2>5. q.out \in Seq(Bytes) /\ o \in Seq(Bytes)
    BY <1>2, <2>3, FieldSeqs, CatTyped
  <2> HIDE DEF o
  <2>6. Carries(r, q, q.unsent, q.in, o, q.got)
    BY <1>2, <2>5, Carried
  <2> HIDE DEF r
  <2>7. r.gone \/ sys.window < Len(msg[c]) \/ Whole(r, NoTask) = Whole(q, t)
    <3>1. ASSUME x = t.todo PROVE Whole(r, NoTask) = Whole(q, t)
      <4> DEFINE e == <<>>
      <4>1. t.rio.user = <<>> /\ e \in Seq(Bytes) /\ t.todo \in Seq(Bytes)
        BY <1>2, <1>4, FieldSeqs DEF Shape
      <4>2. Cat(x, e) = t.todo
        BY <3>1, <4>1, CatEmpty
      <4>3. t.rio.buf = <<>>
        BY <1>4
      <4>4. Holds(NoTask, e, t.rio.user, t.rio.buf)
        BY <1>3, <4>1, <4>3
      <4> HIDE DEF e
      <4> QED BY <1>2, <2>3, <2>6, <4>1, <4>2, <4>4, WriteMove DEF o
    <3> QED BY <2>4, <2>6, <3>1 DEF Carries
  <2>8. r \in ConnType /\ r.open = q.open /\ (r.up <=> q.up) /\ (r.err => r.gone) /\ (q.gone => r.gone)
    BY <1>1, <2>6 DEF Carries, Regular, q
  <2>9. NoTask.at = IF a = "send" THEN "write" ELSE "none"
    BY <1>1, <1>3
  <2> QED BY <1>1, <1>3, <2>1, <2>7, <2>8, <2>9, EpollShift DEF q, t
<1>6. CASE /\ q.err /\ conn' = Told(c) /\ SetTask(c, NoTask)
           /\ main' = [main EXCEPT !.at = "recv"] /\ UNCHANGED <<kind, msg, backlog, sys>>
  <2> DEFINE b == FALSE
             r == [q EXCEPT !.err = b]
  <2>1. conn' = [conn EXCEPT ![c] = r] /\ task' = [task EXCEPT ![c] = NoTask]
        /\ UNCHANGED <<kind, msg, backlog, sys, kids, pool, ev>> /\ main' = [main EXCEPT !.at = a]
        /\ b \in BOOLEAN /\ q.gone
    BY <1>1, <1>6 DEF Told, SetTask, Regular
  <2> HIDE DEF b
  <2>2. r \in ConnType /\ r.open = q.open /\ (r.up <=> q.up) /\ (r.gone <=> q.gone)
    <3> HIDE DEF q
    <3> QED BY <1>2, <2>1, Ending
  <2> HIDE DEF r
  <2>3. r.gone
    BY <2>1, <2>2
  <2>4. NoTask.at = IF a = "send" THEN "write" ELSE "none"
    BY <1>1, <1>3
  <2> HIDE DEF c, a
  <2> QED BY <1>1, <1>3, <2>1, <2>2, <2>3, <2>4, EpollShift DEF q
<1>7. CASE Exit
  BY <1>1, <1>2, <1>7, ExitSafe DEF InStep
<1> QED BY <1>5, <1>6, <1>7 DEF EpollSend

(* echoservere.c keeps the invariant.                                       *)
LEMMA EpollSafe ==
    ASSUME Typed, Safe, EpollStep
    PROVE  Typed' /\ Safe'
<1>1. pool \in PoolType /\ ev \in EvType /\ InStep /\ main \in MainType
      /\ task \in [Clients -> TaskType] /\ sys.design = "epoll"
  BY DEF Typed, Safe, EpollStep, EpollListens, EpollWait, NextEvent, EpollHangUp, EpollAccept,
         EpollRecv, EpollSend, EpollCloses, EpollDry
<1>2. CASE EpollListens
  BY <1>1, <1>2, ListensSafe DEF EpollListens, Keep, InStep
<1>3. CASE EpollWait
  <2>1. /\ main.at = "accept" /\ main' = [main EXCEPT !.at = "events"]
        /\ ev' = [edge |-> {}, batch |-> ev.edge, hup |-> {c \in ev.edge \ {None} : conn[c].gone}]
        /\ UNCHANGED <<connVars, sys, task, pool>>
    BY <1>3 DEF EpollWait, Keep
  <2>2. ev' \in EvType /\ main' \in MainType /\ main'.at = "events"
    BY <1>1, <2>1 DEF EvType, MainType
  <2> QED BY <1>1, <2>1, <2>2, MainSafe
<1>4. CASE NextEvent
  <2>1. main.at = "events" /\ UNCHANGED <<connVars, sys, task, pool>>
    BY <1>4 DEF NextEvent, Keep
  <2>2. CASE \E e \in ev.batch \ ev.hup :
               /\ ev' = [ev EXCEPT !.batch = @ \ {e}]
               /\ main' = [at |-> IF e = None THEN "accepting" ELSE "recv", fd |-> e]
    <3>1. PICK e \in ev.batch \ ev.hup :
               /\ ev' = [ev EXCEPT !.batch = @ \ {e}]
               /\ main' = [at |-> IF e = None THEN "accepting" ELSE "recv", fd |-> e]
      BY <2>2
    <3>2. e \in Clients \cup {None}
      BY <1>1 DEF EvType
    <3>3. ev' \in EvType
      BY <1>1, <3>1 DEF EvType
    <3>4. main' \in MainType /\ (main'.at = "accepting" \/ (main'.at = "recv" /\ main'.fd \in Clients))
      BY <3>1, <3>2 DEF MainType
    <3> QED BY <1>1, <2>1, <3>3, <3>4, MainSafe
  <2>3. CASE main' = [main EXCEPT !.at = "accept"] /\ UNCHANGED ev
    <3>1. main' \in MainType /\ main'.at = "accept"
      BY <1>1, <2>3 DEF MainType
    <3> QED BY <1>1, <2>1, <2>3, <3>1, MainSafe
  <2> QED BY <1>4, <2>2, <2>3 DEF NextEvent
<1>5. CASE EpollAccept
  <2>1. main.at = "accepting" /\ UNCHANGED <<kids, pool>>
    BY <1>5 DEF EpollAccept, Keep
  <2>2. CASE Exit /\ UNCHANGED ev
    BY <1>1, <2>1, <2>2, ExitSafe DEF InStep
  <2>3. CASE main' = [main EXCEPT !.at = "events"] /\ UNCHANGED <<connVars, sys, task, ev>>
    <3>1. main' \in MainType /\ main'.at = "events"
      BY <1>1, <2>3 DEF MainType
    <3> QED BY <1>1, <2>1, <2>3, <3>1, MainSafe
  <2>4. CASE /\ backlog # <<>> /\ conn' = Accepted /\ backlog' = Tail(backlog)
             /\ ev' = [ev EXCEPT !.edge =
                         @ \cup {c \in {Head(backlog)} : Arrived(c)}]
             /\ UNCHANGED <<kind, msg, sys, main, task>>
    <3>1. Head(backlog) \in Clients
      BY <2>4 DEF Typed
    <3>2. ev' \in EvType
      BY <1>1, <2>4, <3>1 DEF EvType
    <3> QED BY <1>1, <2>1, <2>4, <3>2, HandOnSafe
  <2> QED BY <1>5, <2>2, <2>3, <2>4 DEF EpollAccept
<1>6. CASE EpollRecv \/ EpollSend
  BY <1>6, EpollRecvSafe, EpollSendSafe
<1>7. CASE EpollHangUp
  <2>1. main.at = "events" /\ UNCHANGED <<kind, msg, backlog, sys, main, task, pool>>
    BY <1>7 DEF EpollHangUp, Keep
  <2>2. PICK c \in ev.batch \cap ev.hup :
          /\ conn' = Without(c, "main")
          /\ ev' = [ev EXCEPT !.batch = @ \ {c}, !.edge = @ \ {c}]
    BY <1>7 DEF EpollHangUp
  <2> DEFINE t == task[c]
  <2>3. c \in Clients /\ ev' \in EvType /\ InStep'
    BY <1>1, <2>1, <2>2 DEF EvType, InStep
  <2>4. task' = [task EXCEPT ![c] = t] /\ t \in TaskType /\ t = task[c] /\ main' \in MainType
        /\ main' = main /\ \A d \in Clients : InHand(d)' <=> InHand(d)
    BY <1>1, <2>1, <2>3 DEF InHand
  <2> HIDE DEF t
  <2> QED BY <1>1, <2>1, <2>2, <2>3, <2>4, ClosingSafe DEF InStep
<1>8. CASE EpollCloses
  <2> DEFINE c == main.fd
             t == task[c]
  <2>1. /\ c \in Clients /\ main.at = "recv" /\ conn' = Without(c, "main")
        /\ task' = [task EXCEPT ![c] = t] /\ t \in TaskType
        /\ main' = [at |-> "events", fd |-> None] /\ ev' = [ev EXCEPT !.edge = @ \ {c}]
        /\ UNCHANGED <<kind, msg, backlog, sys, pool>>
    BY <1>1, <1>8 DEF EpollCloses, InStep, Keep
  <2>2. main' \in MainType /\ main'.at = "events" /\ InStep' /\ ev' \in EvType
    BY <1>1, <2>1 DEF MainType, InStep, EvType
  <2>3. \A d \in Clients : InHand(d)' <=> InHand(d)
    BY <2>1, <2>2 DEF InHand
  <2>4. t = task[c]
    OBVIOUS
  <2> HIDE DEF c, t
  <2> QED BY <1>1, <2>1, <2>2, <2>3, <2>4, ClosingSafe DEF InStep
<1>9. CASE EpollDry
  <2>1. /\ main.at = "recv" /\ main' = [at |-> "events", fd |-> None]
        /\ UNCHANGED <<connVars, sys, task, ev, pool>>
    BY <1>9 DEF EpollDry, Keep
  <2>2. main' \in MainType /\ main'.at = "events"
    BY <2>1 DEF MainType
  <2> QED BY <1>1, <2>1, <2>2, MainSafe
<1> QED BY <1>2, <1>3, <1>4, <1>5, <1>6, <1>7, <1>8, <1>9 DEF EpollStep

-----------------------------------------------------------------------------
(* Every step keeps the invariant.                                          *)
LEMMA StepSafe ==
    ASSUME IInv, [Next]_vars
    PROVE  IInv'
<1>1. Typed /\ Safe
  BY DEF IInv
<1>2. CASE MainStep
  BY <1>1, <1>2, IterSafe, RecvSafe, ForkMainSafe, ThreadMainSafe, PoolMainSafe, EpollSafe
     DEF MainStep, IInv
<1>3. ASSUME NEW c \in Clients, Client(c) \/ TaskStep(c) PROVE IInv'
  BY <1>1, <1>3, ClientSafe, ChildSafe, ThreadSafe DEF TaskStep, IInv
<1>4. ASSUME NEW w \in Workers, handle_clients(w) PROVE IInv'
  BY <1>1, <1>4, WorkerSafe DEF IInv
<1>5. CASE UNCHANGED vars
  <2>1. UNCHANGED <<connVars, sys, main, task, pool, ev>>
    BY <1>5 DEF vars, echoVars
  <2> QED BY <1>1, <2>1, Stutters DEF IInv
<1> QED BY <1>2, <1>3, <1>4, <1>5 DEF Next

(* The invariant holds at first.                                            *)
LEMMA InitSafe == Init => IInv
<1> SUFFICES ASSUME Init PROVE IInv
  OBVIOUS
<1> DEFINE e == <<>>
           k == {}
           b == FALSE
           new(m) == [up |-> b, open |-> k, unsent |-> m, fin |-> b, err |-> b, gone |-> b,
                      in |-> e, out |-> e, got |-> e]
<1>1. /\ kind \in Mixes /\ msg = Messages /\ conn = [c \in Clients |-> new(msg[c])]
      /\ backlog = <<>> /\ sys \in Systems /\ main = [at |-> "setup", fd |-> None]
      /\ task = [c \in Clients |-> NoTask]
      /\ pool = [queue |-> <<>>, holds |-> [w \in Workers |-> None], running |-> {},
                 byte_cnt |-> 0, mutex |-> None]
      /\ ev = [edge |-> {}, batch |-> {}, hup |-> {}]
  BY DEF Init, ConnInit, BaseInit
<1>2. /\ e \in Seq(Bytes) /\ e = <<>> /\ k = {} /\ b \in BOOLEAN /\ ~b
      /\ k \in SUBSET {"main", "child"}
  OBVIOUS
<1>3. msg \in [Clients -> Seq(Bytes)] /\ kind \in [Clients -> Kinds]
  BY <1>1, EchoAssumption DEF Bytes
<1>4. ASSUME NEW c \in Clients
      PROVE  /\ conn[c] \in ConnType /\ conn[c].open = {} /\ ~conn[c].up /\ ~conn[c].err
             /\ Whole(conn[c], task[c]) = msg[c]
  <2> DEFINE m == msg[c]
  <2>1. conn[c] = new(m) /\ m \in Seq(Bytes) /\ task[c] = NoTask
    BY <1>1, <1>3
  <2> HIDE DEF m, e, k, b
  <2>2. new(m) \in ConnType /\ new(m).open = k /\ (new(m).up <=> b) /\ (new(m).err <=> b)
        /\ new(m).unsent = m /\ new(m).in = e /\ new(m).out = e /\ new(m).got = e
    BY <1>2, <2>1 DEF ConnType
  <2> HIDE DEF new
  <2>3. Whole(conn[c], task[c]) = Chain(e, e, e, e, e, e, m)
    BY <1>2, <2>1, <2>2, IdleTask DEF Whole, Holds
  <2>4. Cat(e, m) = m
    BY <1>2, <2>1, CatEmpty
  <2>5. Chain(e, e, e, e, e, e, m) = m
    BY <2>4 DEF Chain
  <2> QED BY <1>2, <2>1, <2>2, <2>3, <2>5 DEF m
<1>5. Typed
  <2>1. conn \in [Clients -> ConnType]
    <3> HIDE DEF new
    <3> QED BY <1>1, <1>4
  <2>2. task \in [Clients -> TaskType]
    BY <1>1, IdleTask
  <2>3. main \in MainType /\ ev \in EvType
    BY <1>1 DEF MainType, EvType
  <2>4. pool \in PoolType
    BY <1>1 DEF PoolType
  <2> QED BY <1>1, <1>3, <2>1, <2>2, <2>3, <2>4 DEF Typed
<1>6. ASSUME NEW c \in Clients PROVE Regular(c) /\ Placed(c) /\ Owned(c) /\ Exact(c)
  <2>1. task[c] = NoTask /\ ToSet(backlog) = {} /\ ToSet(pool.queue) = {} /\ main.at = "setup"
    BY <1>1 DEF ToSet
  <2>2. Regular(c)
    BY <1>4, <2>1, IdleTask DEF Regular
  <2>3. Placed(c) /\ Owned(c) /\ Exact(c)
    BY <1>4, <2>1, IdleTask DEF Placed, Owned, Exact, InBacklog, InHand, InQueue
  <2> QED BY <2>2, <2>3
<1>7. Distinct(backlog) /\ Distinct(pool.queue) /\ InStep
  BY <1>1 DEF Distinct, InStep
<1>8. ASSUME NEW c \in Clients PROVE Sending(c)
  BY <1>1, IdleTask DEF Sending
<1> QED BY <1>5, <1>6, <1>7, <1>8 DEF IInv, Safe

(* The invariant holds in every reachable state.                            *)
THEOREM Inductive == Spec => []IInv
<1>1. Init => IInv
  BY InitSafe
<1>2. IInv /\ [Next]_vars => IInv'
  BY StepSafe
<1> QED BY <1>1, <1>2, PTL DEF Spec

(* What echo.c:9-20, echoservere.c and hw-sockets/server.c promise,         *)
(* whatever the design, its limits, the buffer sizes, the number of         *)
(* clients and their messages: no byte that a client has sent is lost,      *)
(* doubled, reordered or mixed up with those of another one.                *)
THEOREM EchoedExactly == Spec => []EchoExact
<1>1. IInv => EchoExact
  <2> SUFFICES ASSUME IInv, NEW c \in Clients,
                      ~conn[c].gone, main.at # "exited",
                      ~(sys.design = "epoll" /\ sys.window < Len(msg[c]))
               PROVE  conn[c].got \o conn[c].out \o Underway(c) \o conn[c].in \o conn[c].unsent = msg[c]
    BY DEF EchoExact
  <2>1. Typed /\ Whole(conn[c], task[c]) = msg[c]
    BY DEF IInv, Safe, Exact
  <2>2. conn[c] \in ConnType /\ task[c] \in TaskType
    BY <2>1, ConnFields, TaskFields
  <2> QED BY <2>1, <2>2, Chained DEF Underway
<1> QED BY <1>1, Inductive, PTL

-----------------------------------------------------------------------------
(* The events of echoservere.c, which are edges: one that is taken and not  *)
(* acted upon does not come again.  What has happened to a connection that  *)
(* is open is still to be reported, is in the batch, or is about to be read *)
(* by the loop of recv; and epoll_wait finds no batch left over.            *)
Waits(c) == "main" \in conn[c].open /\ Arrived(c)
Seen(c) == c \in ev.edge \cup ev.batch \/ (main.fd = c /\ main.at \in {"recv", "send"})
EdgesOK ==
    sys.design = "epoll" =>
        /\ \A c \in Clients : Waits(c) => Seen(c)
        /\ main.at \in {"setup", "accept"} => ev.batch = {}

(* The steps of the other servers are none of its.                          *)
LEMMA OtherEdges ==
    ASSUME Safe,
           \/ IterStep \/ RecvStep \/ ForkMain \/ ThreadMain \/ PoolMain
           \/ \E c \in Clients : TaskStep(c)
           \/ \E w \in Workers : handle_clients(w)
    PROVE  (sys.design # "epoll" /\ UNCHANGED sys) \/ UNCHANGED <<connVars, sys, main, ev>>
<1>1. CASE IterStep
  BY <1>1 DEF IterStep, IterListens, IterAccept, IterEcho, IterClose, Listens, Accepts, Exit,
              echo, Rio_readlineb, RioEnd, rio_writen
<1>2. CASE RecvStep
  BY <1>2 DEF RecvStep, RecvListens, RecvAccept, RecvRecv, RecvSend, Listens, Accepts, Exit,
              rio_writen
<1>3. CASE ForkMain
  <2>1. CASE sigchld_handler
    BY <2>1 DEF sigchld_handler
  <2>2. CASE ForkListens \/ ForkAccept \/ Fork \/ ForkClose \/ Caught
    BY <2>2 DEF ForkListens, ForkAccept, Fork, ForkClose, Caught, Main, Listens, Accepts
  <2> QED BY <1>3, <2>1, <2>2 DEF ForkMain
<1>4. CASE ThreadMain
  BY <1>4 DEF ThreadMain, ThreadListens, ThreadAccept, ThreadCreate, Listens, Accepts, Exit
<1>5. CASE PoolMain
  BY <1>5 DEF PoolMain, PoolListens, PoolAccept, PoolInsert, Listens, Accepts
<1>6. ASSUME NEW c \in Clients, TaskStep(c) PROVE sys.design # "epoll" /\ UNCHANGED sys
  <2>1. CASE ForkChild(c)
    BY <2>1 DEF ForkChild, ChildEchoes, ChildExits, echo, Rio_readlineb, RioEnd, rio_writen
  <2>2. CASE Thread(c)
    BY <2>2 DEF Thread, ThreadStart, ThreadEchoes, ThreadCloses, echo, Rio_readlineb, RioEnd,
                rio_writen, Exit
  <2> QED BY <1>6, <2>1, <2>2 DEF TaskStep
<1>7. ASSUME NEW w \in Workers, handle_clients(w) PROVE sys.design # "epoll" /\ UNCHANGED sys
  <2>1. w \in pool.running
    BY <1>7 DEF handle_clients, Take, echo_cnt, Pthread_once, P, Load, Store, V, At, Holding,
                PoolFails, PoolCloses
  <2>2. sys.design = "pool"
    BY <2>1 DEF Safe, InStep
  <2>3. UNCHANGED sys
    BY <1>7 DEF handle_clients, Take, echo_cnt, Pthread_once, P, Load, Store, V, Quiet,
                Rio_readlineb, RioEnd, rio_writen, PoolFails, PoolCloses, Exit
  <2> QED BY <2>2, <2>3
<1> QED BY <1>1, <1>2, <1>3, <1>4, <1>5, <1>6, <1>7

(* Its own steps keep track of what has happened.                           *)
LEMMA EdgesKept ==
    ASSUME Typed, Safe, EdgesOK, EpollStep
    PROVE  EdgesOK'
<1>1. /\ sys.design = "epoll" /\ conn \in [Clients -> ConnType] /\ ev \in EvType
      /\ main \in MainType /\ InStep /\ None \notin Clients
      /\ \A c \in Clients : Waits(c) => Seen(c)
      /\ main.at \in {"setup", "accept"} => ev.batch = {}
  BY EchoAssumption
     DEF Typed, Safe, EdgesOK, EpollStep, EpollListens, EpollWait, NextEvent, EpollHangUp,
         EpollAccept, EpollRecv, EpollSend, EpollCloses, EpollDry
<1>2. CASE EpollListens
  <2>1. UNCHANGED <<conn, ev>> /\ main.at = "setup"
        /\ \E at \in {"accept", "exited"} : main' = [main EXCEPT !.at = at]
    BY <1>2 DEF EpollListens, Listens, connVars
  <2>2. \A c \in Clients : Seen(c) => Seen(c)'
    BY <2>1 DEF Seen
  <2>3. \A c \in Clients : Waits(c)' => Waits(c)
    BY <2>1 DEF Waits, Arrived, Ready, AtEnd, Broken
  <2> QED BY <1>1, <2>1, <2>2, <2>3 DEF EdgesOK
<1>3. CASE EpollWait
  <2>1. /\ UNCHANGED conn /\ main.at = "accept" /\ main'.at = "events"
        /\ ev'.edge = {} /\ ev'.batch = ev.edge
    BY <1>1, <1>3 DEF EpollWait, connVars, MainType
  <2>2. \A c \in Clients : Seen(c) => Seen(c)'
    BY <1>1, <2>1 DEF Seen
  <2>3. \A c \in Clients : Waits(c)' => Waits(c)
    BY <2>1 DEF Waits, Arrived, Ready, AtEnd, Broken
  <2> QED BY <1>1, <2>1, <2>2, <2>3 DEF EdgesOK
<1>4. CASE NextEvent
  <2>1. UNCHANGED conn /\ main.at = "events"
    BY <1>4 DEF NextEvent, connVars
  <2>2. \A c \in Clients : Seen(c) => c \in ev.edge \cup ev.batch
    BY <2>1 DEF Seen
  <2>3. \A c \in Clients : Waits(c)' => Waits(c)
    BY <2>1 DEF Waits, Arrived, Ready, AtEnd, Broken
  <2>4. CASE \E e \in ev.batch \ ev.hup :
               /\ ev' = [ev EXCEPT !.batch = @ \ {e}]
               /\ main' = [at |-> IF e = None THEN "accepting" ELSE "recv", fd |-> e]
    <3>1. PICK e \in ev.batch \ ev.hup :
               /\ ev' = [ev EXCEPT !.batch = @ \ {e}]
               /\ main' = [at |-> IF e = None THEN "accepting" ELSE "recv", fd |-> e]
      BY <2>4
    <3>2. ev'.edge = ev.edge /\ ev'.batch = ev.batch \ {e} /\ main'.fd = e
          /\ (e # None => main'.at = "recv") /\ main'.at \notin {"setup", "accept"}
      BY <1>1, <3>1 DEF EvType
    <3>3. \A c \in Clients : c \in ev.edge \cup ev.batch => Seen(c)'
      BY <1>1, <3>2 DEF Seen
    <3> QED BY <1>1, <2>2, <2>3, <3>2, <3>3 DEF EdgesOK
  <2>5. CASE ev.batch = {} /\ main' = [main EXCEPT !.at = "accept"] /\ UNCHANGED ev
    <3>1. \A c \in Clients : c \in ev.edge \cup ev.batch => Seen(c)'
      BY <2>5 DEF Seen
    <3> QED BY <1>1, <2>2, <2>3, <2>5, <3>1 DEF EdgesOK
  <2> QED BY <1>4, <2>4, <2>5 DEF NextEvent
<1>5. CASE EpollHangUp
  <2>1. PICK c \in ev.batch \cap ev.hup :
          /\ conn' = Without(c, "main")
          /\ ev' = [ev EXCEPT !.batch = @ \ {c}, !.edge = @ \ {c}]
    BY <1>5 DEF EpollHangUp
  <2>2. UNCHANGED main /\ main.at = "events" /\ c \in Clients
    BY <1>1, <1>5, <2>1 DEF EpollHangUp, EvType
  <2>3. ~Waits(c)' /\ \A d \in Clients \ {c} : conn'[d] = conn[d]
    BY <1>1, <2>1, <2>2 DEF Without, Waits, ConnType
  <2>4. \A d \in Clients \ {c} : (Seen(d) => Seen(d)') /\ (Waits(d)' => Waits(d))
    BY <1>1, <2>1, <2>2, <2>3 DEF Seen, Waits, Arrived, Ready, AtEnd, Broken, EvType
  <2> QED BY <1>1, <2>2, <2>3, <2>4 DEF EdgesOK
<1>6. CASE EpollAccept
  <2>1. main.at = "accepting"
    BY <1>6 DEF EpollAccept
  <2>2. CASE Exit
    <3>1. \A c \in Clients : ~Waits(c)'
      BY <1>1, <2>2 DEF Exit, AllClosed, Waits, ConnType
    <3>2. main'.at = "exited"
      BY <2>2 DEF Exit
    <3> QED BY <3>1, <3>2 DEF EdgesOK
  <2>3. CASE main' = [main EXCEPT !.at = "events"] /\ UNCHANGED <<connVars, sys, task, ev>>
    <3>1. main'.at = "events" /\ UNCHANGED <<conn, ev>>
      BY <1>1, <2>3 DEF MainType, connVars
    <3>2. \A c \in Clients : (Seen(c) => Seen(c)') /\ (Waits(c)' => Waits(c))
      BY <2>1, <3>1 DEF Seen, Waits, Arrived, Ready, AtEnd, Broken
    <3> QED BY <1>1, <3>1, <3>2 DEF EdgesOK
  <2>4. CASE /\ backlog # <<>> /\ conn' = Accepted
             /\ ev' = [ev EXCEPT !.edge = @ \cup {c \in {Head(backlog)} : Arrived(c)}]
             /\ UNCHANGED main
    <3>1. PICK h \in Clients : h = Head(backlog)
      BY <2>4 DEF Typed
    <3>2. /\ conn' = [conn EXCEPT ![h].open = {"main"}]
          /\ ev'.batch = ev.batch /\ ev.edge \subseteq ev'.edge /\ (Arrived(h) => h \in ev'.edge)
      BY <1>1, <2>4, <3>1 DEF Accepted, EvType
    <3>3. /\ conn'[h].in = conn[h].in /\ conn'[h].fin = conn[h].fin /\ conn'[h].err = conn[h].err
          /\ \A d \in Clients \ {h} : conn'[d] = conn[d]
      BY <1>1, <3>1, <3>2 DEF ConnType
    <3>4. Waits(h)' => Seen(h)'
      BY <3>2, <3>3 DEF Seen, Waits, Arrived, Ready, AtEnd, Broken
    <3>5. \A d \in Clients \ {h} : (Seen(d) => Seen(d)') /\ (Waits(d)' => Waits(d))
      BY <2>1, <2>4, <3>2, <3>3 DEF Seen, Waits, Arrived, Ready, AtEnd, Broken
    <3> QED BY <1>1, <2>1, <2>4, <3>4, <3>5 DEF EdgesOK
  <2> QED BY <1>6, <2>2, <2>3, <2>4 DEF EpollAccept
<1>7. CASE EpollRecv \/ EpollSend
  <2>1. CASE Exit
    <3>1. \A d \in Clients : ~Waits(d)'
      BY <1>1, <2>1 DEF Exit, AllClosed, Waits, ConnType
    <3>2. main'.at = "exited"
      BY <2>1 DEF Exit
    <3> QED BY <3>1, <3>2 DEF EdgesOK
  <2>2. CASE ~Exit
    <3>1. main.fd \in Clients /\ main.at \in {"recv", "send"} /\ UNCHANGED ev
      BY <1>1, <1>7 DEF EpollRecv, EpollSend, InStep
    <3> PICK c \in Clients : c = main.fd
      BY <3>1
    <3>2. \E a \in {"recv", "send"} : main' = [main EXCEPT !.at = a]
      BY <1>7, <2>2 DEF EpollRecv, EpollSend
    <3>3. main'.at \in {"recv", "send"} /\ main'.fd = c
      BY <1>1, <3>2 DEF MainType
    <3>4. \E q : conn' = [conn EXCEPT ![c] = q]
      <4>1. CASE conn' = Told(c)
        BY <4>1 DEF Told
      <4> QED BY <1>7, <2>2, <4>1 DEF EpollRecv, EpollSend, Changes
    <3>5. \A d \in Clients \ {c} : conn'[d] = conn[d]
      BY <1>1, <3>4
    <3>6. Seen(c)'
      BY <3>3 DEF Seen
    <3>7. \A d \in Clients \ {c} : (Seen(d) => Seen(d)') /\ (Waits(d)' => Waits(d))
      BY <3>1, <3>5 DEF Seen, Waits, Arrived, Ready, AtEnd, Broken
    <3> QED BY <1>1, <3>3, <3>6, <3>7 DEF EdgesOK
  <2> QED BY <2>1, <2>2
<1>8. CASE EpollCloses
  <2> PICK c \in Clients : c = main.fd
    BY <1>1, <1>8 DEF EpollCloses, InStep
  <2>1. /\ conn' = Without(c, "main") /\ main.at = "recv"
        /\ main'.at = "events" /\ ev' = [ev EXCEPT !.edge = @ \ {c}]
    BY <1>1, <1>8 DEF EpollCloses, InStep
  <2>2. ~Waits(c)' /\ \A d \in Clients \ {c} : conn'[d] = conn[d]
    BY <1>1, <2>1 DEF Without, Waits, ConnType
  <2>3. \A d \in Clients \ {c} : (Seen(d) => Seen(d)') /\ (Waits(d)' => Waits(d))
    BY <1>1, <2>1, <2>2 DEF Seen, Waits, Arrived, Ready, AtEnd, Broken, EvType
  <2> QED BY <1>1, <2>1, <2>2, <2>3 DEF EdgesOK
<1>9. CASE EpollDry
  <2>1. /\ ~Arrived(main.fd) /\ main'.at = "events" /\ UNCHANGED <<conn, ev>>
    BY <1>9 DEF EpollDry, connVars
  <2>2. \A c \in Clients : Waits(c)' => Waits(c) /\ c # main.fd
    BY <2>1 DEF Waits, Arrived, Ready, AtEnd, Broken
  <2>3. \A c \in Clients : Seen(c) /\ c # main.fd => Seen(c)'
    BY <2>1 DEF Seen
  <2> QED BY <1>1, <2>1, <2>2, <2>3 DEF EdgesOK
<1> QED BY <1>2, <1>3, <1>4, <1>5, <1>6, <1>7, <1>8, <1>9 DEF EpollStep

(* What a client does raises an edge.                                       *)
LEMMA EdgesRaised ==
    ASSUME Typed, Safe, EdgesOK, NEW c \in Clients, Client(c)
    PROVE  EdgesOK'
<1> SUFFICES ASSUME sys.design = "epoll" PROVE EdgesOK'
  BY DEF Client, EdgesOK
<1>1. /\ conn \in [Clients -> ConnType] /\ ev \in EvType /\ UNCHANGED <<sys, main>>
      /\ \A d \in Clients : Waits(d) => Seen(d)
      /\ main.at \in {"setup", "accept"} => ev.batch = {}
  BY DEF Typed, EdgesOK, Client
<1>2. ev.edge \subseteq ev'.edge /\ ev'.batch = ev.batch
  BY <1>1 DEF Client, EvType
<1>3. \A d \in Clients : Seen(d) => Seen(d)'
  BY <1>1, <1>2 DEF Seen
<1>4. CASE Connect(c) \/ ClientRead(c)
  <2>1. \E q : /\ conn' = [conn EXCEPT ![c] = q] /\ q.open = conn[c].open
               /\ q.in = conn[c].in /\ q.fin = conn[c].fin /\ q.err = conn[c].err
    <3> DEFINE p == conn[c]
    <3>1. p \in ConnType
      BY <1>1
    <3>2. CASE Connect(c)
      <4>1. conn' = [conn EXCEPT ![c] = [p EXCEPT !.up = TRUE]]
        BY <1>1, <3>2 DEF Connect
      <4> DEFINE q == [p EXCEPT !.up = TRUE]
      <4>2. q.open = p.open /\ q.in = p.in /\ q.fin = p.fin /\ q.err = p.err
        BY <3>1 DEF ConnType
      <4>3. conn' = [conn EXCEPT ![c] = q]
        BY <4>1
      <4> HIDE DEF q
      <4> QED BY <4>2, <4>3
    <3>3. CASE ClientRead(c)
      <4> DEFINE e == <<>>  g == p.got \o p.out  q == [p EXCEPT !.out = e, !.got = g]
      <4>1. conn' = [conn EXCEPT ![c] = q]
        BY <3>3 DEF ClientRead, Changes
      <4> HIDE DEF e, g
      <4>2. q.open = p.open /\ q.in = p.in /\ q.fin = p.fin /\ q.err = p.err
        BY <3>1 DEF ConnType
      <4> HIDE DEF q
      <4> QED BY <4>1, <4>2
    <3> QED BY <1>4, <3>2, <3>3
  <2>2. \A d \in Clients : Waits(d)' => Waits(d)
    BY <1>1, <2>1 DEF Waits, Arrived, Ready, AtEnd, Broken
  <2> QED BY <1>1, <1>2, <1>3, <2>2 DEF EdgesOK
<1>5. CASE /\ ClientSend(c) \/ ClientShut(c) \/ ClientReset(c)
           /\ ev' = IF sys.design = "epoll" /\ conn[c].open # {}
                    THEN [ev EXCEPT !.edge = @ \cup {c}] ELSE ev
  <2>1. \E q : conn' = [conn EXCEPT ![c] = q] /\ q.open = conn[c].open
    <3> DEFINE p == conn[c]
    <3>1. p \in ConnType
      BY <1>1
    <3>2. CASE ClientSend(c)
      <4>1. PICK u, i : conn' = [conn EXCEPT ![c] = [p EXCEPT !.unsent = u, !.in = i]]
        BY <3>2 DEF ClientSend, Changes
      <4> DEFINE q == [p EXCEPT !.unsent = u, !.in = i]
      <4>2. conn' = [conn EXCEPT ![c] = q] /\ q.open = p.open
        BY <3>1, <4>1 DEF ConnType
      <4> HIDE DEF q
      <4> QED BY <4>2
    <3>3. CASE ClientShut(c)
      <4> DEFINE q == [p EXCEPT !.fin = TRUE]
      <4>1. conn' = [conn EXCEPT ![c] = q] /\ q.open = p.open
        BY <3>1, <3>3 DEF ClientShut, Changes, ConnType
      <4> HIDE DEF q
      <4> QED BY <4>1
    <3>4. CASE ClientReset(c)
      <4> DEFINE e == <<>>
      <4>1. PICK u, i : conn' = [conn EXCEPT ![c] =
                        [p EXCEPT !.gone = TRUE, !.err = TRUE, !.fin = TRUE, !.out = e,
                                  !.in = i, !.unsent = u]]
        BY <3>4 DEF ClientReset, Changes
      <4> DEFINE q == [p EXCEPT !.gone = TRUE, !.err = TRUE, !.fin = TRUE, !.out = e,
                                !.in = i, !.unsent = u]
      <4> HIDE DEF e
      <4>2. conn' = [conn EXCEPT ![c] = q] /\ q.open = p.open
        BY <3>1, <4>1 DEF ConnType
      <4> HIDE DEF q
      <4> QED BY <4>2
    <3> QED BY <1>5, <3>2, <3>3, <3>4
  <2>2. conn'[c].open = conn[c].open /\ \A d \in Clients \ {c} : conn'[d] = conn[d]
    BY <1>1, <2>1
  <2>3. conn[c].open # {} => c \in ev'.edge
    BY <1>1, <1>5 DEF EvType
  <2>4. Waits(c)' => Seen(c)'
    BY <2>2, <2>3 DEF Waits, Seen
  <2>5. \A d \in Clients \ {c} : Waits(d)' => Waits(d)
    BY <2>2 DEF Waits, Arrived, Ready, AtEnd, Broken
  <2> QED BY <1>1, <1>2, <1>3, <2>4, <2>5 DEF EdgesOK
<1> QED BY <1>4, <1>5 DEF Client

(* Every step keeps track.                                                  *)
LEMMA EdgesOn == Spec => [](IInv /\ EdgesOK)
<1>1. Init => IInv /\ EdgesOK
  <2> SUFFICES ASSUME Init PROVE EdgesOK
    BY InitSafe
  <2>1. ev.batch = {} /\ \A c \in Clients : conn[c].open = {}
    BY DEF Init, ConnInit, BaseInit
  <2> QED BY <2>1 DEF EdgesOK, Waits
<1>2. ASSUME IInv, EdgesOK, [Next]_vars PROVE EdgesOK'
  <2>1. Typed /\ Safe
    BY <1>2 DEF IInv
  <2>2. CASE EpollStep
    BY <2>1, <2>2, <1>2, EdgesKept
  <2>3. ASSUME NEW c \in Clients, Client(c) PROVE EdgesOK'
    BY <2>1, <2>3, <1>2, EdgesRaised
  <2>4. CASE UNCHANGED <<connVars, sys, main, ev>>
    BY <1>2, <2>4 DEF EdgesOK, Waits, Seen, Arrived, Ready, AtEnd, Broken, connVars
  <2>5. CASE sys.design # "epoll" /\ UNCHANGED sys
    BY <2>5 DEF EdgesOK
  <2>6. CASE UNCHANGED vars
    BY <2>4, <2>6 DEF vars, echoVars
  <2> QED BY <1>2, <2>1, <2>2, <2>3, <2>4, <2>5, <2>6, OtherEdges DEF Next, MainStep
<1>3. IInv /\ EdgesOK /\ [Next]_vars => (IInv /\ EdgesOK)'
  BY <1>2, StepSafe
<1> QED BY <1>1, <1>3, PTL DEF Spec

(* Every descriptor that is open has somebody who is going to close it      *)
(* (Close in echoserveri.c, echoserverp.c, echoservert.c and                *)
(* echoservert_pre.c), whatever the limits, except when echoservert.c is    *)
(* short of threads; and when something has happened to a connection of     *)
(* echoservere.c, epoll will say so, has said so, or the server is reading  *)
(* it.  hw-sockets/server.c, which closes none, is left out.                *)
THEOREM DescriptorsClosed == Spec => []DescriptorsOwned
<1>1. IInv /\ EdgesOK => DescriptorsOwned
  <2> SUFFICES ASSUME IInv, EdgesOK, NEW c \in Clients
               PROVE  /\ "child" \in conn[c].open => task[c].at # "none"
                      /\ "main" \in conn[c].open =>
                            \/ main.fd = c
                            \/ sys.design \in {"threaded", "pool"} /\ task[c].at # "none"
                            \/ c \in ToSet(pool.queue)
                            \/ sys.design = "epoll" /\ (Arrived(c) => c \in ev.edge \cup ev.batch)
                            \/ sys.design = "recv"
                            \/ sys.design = "threaded" /\ sys.tasks < Cardinality(Clients)
    BY DEF DescriptorsOwned
  <2>1. Owned(c)
    BY DEF IInv, Safe
  <2>2. sys.design = "epoll" /\ Waits(c) => c \in ev.edge \cup ev.batch \/ main.fd = c
    BY DEF EdgesOK, Seen
  <2> QED BY <2>1, <2>2 DEF Owned, InHand, InQueue, Waits
<1> QED BY <1>1, EdgesOn, PTL

-----------------------------------------------------------------------------
(* The counter of echo_cnt.c.  What has come in whole lines and has been    *)
(* counted has been echoed or is about to be.                               *)
Counted(r, t) == Len(r.got) + Len(r.out) + (IF t.at \in {"V", "write"} THEN Len(t.todo) ELSE 0)

(* The worker that has the mutex is the one between P and V, and what it    *)
(* has loaded is not out of date when it stores.                            *)
Inside == {"load", "store", "V"}
HolderOK(w) ==
    pool.holds[w] \in Clients =>
        /\ w \in pool.running /\ task[pool.holds[w]].at # "none"
        /\ \A v \in Workers : pool.holds[v] = pool.holds[w] => v = w
        /\ task[pool.holds[w]].at \in Inside <=> pool.mutex = w
        /\ task[pool.holds[w]].at = "store" =>
             task[pool.holds[w]].reg = AsInt(pool.byte_cnt + Len(task[pool.holds[w]].todo))
TaskOK(c) ==
    /\ task[c].at # "none" => \E w \in Workers : pool.holds[w] = c
    /\ pool.mutex = Uninit => task[c].at \in {"none", "once"}
SetupOK ==
    main.at = "setup" =>
        /\ pool.mutex = None /\ pool.running = {}
        /\ \A c \in Clients : task[c].at = "none"
Counting ==
    /\ \A w \in Workers : HolderOK(w)
    /\ \A c \in Clients : TaskOK(c)
    /\ pool.mutex \in Workers => pool.holds[pool.mutex] \in Clients
    /\ pool.mutex = Uninit \/ main.at = "setup" => pool.byte_cnt = 0
    /\ SetupOK
    /\ pool.byte_cnt = AsInt(SumFunction([c \in Clients |-> Counted(conn[c], task[c])]))

Undisturbed ==
    sys.design = "pool" /\ main.at # "exited" /\ \A c \in Clients : ~conn[c].gone
CountOK == Undisturbed => Counting

LEMMA CountedTyped ==
    ASSUME NEW r \in ConnType, NEW t \in TaskType PROVE Counted(r, t) \in Int
<1>1. r.got \in Seq(Bytes) /\ r.out \in Seq(Bytes) /\ t.todo \in Seq(Bytes)
  BY FieldSeqs
<1>2. Len(r.got) \in Nat /\ Len(r.out) \in Nat /\ Len(t.todo) \in Nat
  BY <1>1, LenProperties
<1> QED BY <1>2 DEF Counted

(* The sum when no connection's count has changed.                          *)
LEMMA SameSum ==
    ASSUME \A c \in Clients : Counted(conn'[c], task'[c]) = Counted(conn[c], task[c])
    PROVE  SumFunction([c \in Clients |-> Counted(conn'[c], task'[c])])
             = SumFunction([c \in Clients |-> Counted(conn[c], task[c])])
<1>1. [c \in Clients |-> Counted(conn'[c], task'[c])] = [c \in Clients |-> Counted(conn[c], task[c])]
  OBVIOUS
<1> QED BY <1>1

(* It is an integer.                                                        *)
LEMMA SumTyped ==
    ASSUME Typed
    PROVE  SumFunction([c \in Clients |-> Counted(conn[c], task[c])]) \in Int
<1> DEFINE f == [c \in Clients |-> Counted(conn[c], task[c])]
<1>1. conn \in [Clients -> ConnType] /\ task \in [Clients -> TaskType]
  BY DEF Typed
<1>2. \A c \in Clients : f[c] \in Int
  BY <1>1, CountedTyped
<1>3. DOMAIN f = Clients
  OBVIOUS
<1> HIDE DEF f
<1>4. SumFunctionOnSet(f, Clients) \in Int
  BY <1>2, EchoAssumption, SumOneMore
<1> QED BY <1>3, <1>4 DEF SumFunction, f

(* A step in which no worker moves, or the first.                           *)
LEMMA NoWorkerMoves ==
    ASSUME Counting, UNCHANGED task,
           \A c \in Clients : Counted(conn'[c], task'[c]) = Counted(conn[c], task[c]),
           pool'.holds = pool.holds, pool.running \subseteq pool'.running,
           pool'.byte_cnt = pool.byte_cnt,
           pool'.mutex = pool.mutex \/ (main.at = "setup" /\ pool'.mutex = Uninit),
           main'.at = "setup" => main.at = "setup" /\ pool'.mutex = pool.mutex
                                 /\ pool'.running = pool.running
    PROVE  Counting'
<1>1. pool'.byte_cnt = AsInt(SumFunction([c \in Clients |-> Counted(conn'[c], task'[c])]))
  BY SameSum DEF Counting
<1>2. ASSUME NEW w \in Workers PROVE HolderOK(w)'
  <2>1. HolderOK(w)
    BY DEF Counting
  <2>2. CASE pool'.mutex = pool.mutex
    BY <2>1, <2>2 DEF HolderOK
  <2>3. CASE main.at = "setup"
    BY <2>1, <2>3 DEF HolderOK, Counting, SetupOK
  <2> QED BY <2>2, <2>3
<1>3. ASSUME NEW c \in Clients PROVE TaskOK(c)'
  BY DEF TaskOK, Counting, SetupOK
<1>4. pool'.mutex \in Workers => pool'.holds[pool'.mutex] \in Clients
  BY EchoAssumption DEF Counting
<1>5. SetupOK' /\ (pool'.mutex = Uninit \/ main'.at = "setup" => pool'.byte_cnt = 0)
  BY EchoAssumption DEF SetupOK, Counting
<1> QED BY <1>1, <1>2, <1>3, <1>4, <1>5 DEF Counting

(* A step of a worker for the connection it holds.                          *)
LEMMA WorkerMoves ==
    ASSUME Typed, Counting, NEW w \in Workers, NEW c \in Clients, pool.holds[w] = c,
           NEW t, task' = [task EXCEPT ![c] = t], t.at # "none",
           pool'.holds = pool.holds, pool'.running = pool.running, UNCHANGED main,
           t.at \in Inside <=> pool'.mutex = w,
           pool'.mutex = pool.mutex \/ (pool.mutex \in {None, w, Uninit} /\ pool'.mutex \in {None, w}),
           pool'.mutex # Uninit,
           pool'.byte_cnt = pool.byte_cnt \/ pool.mutex = w,
           t.at = "store" => t.reg = AsInt(pool'.byte_cnt + Len(t.todo)),
           pool'.byte_cnt = AsInt(SumFunction([d \in Clients |-> Counted(conn'[d], task'[d])]))
    PROVE  Counting'
<1>1. task'[c] = t /\ \A d \in Clients \ {c} : task'[d] = task[d]
  BY DEF Typed
<1>2. HolderOK(w) /\ task[c].at # "none" /\ main.at # "setup"
  BY DEF Counting, HolderOK, SetupOK
<1>3. ASSUME NEW v \in Workers PROVE HolderOK(v)'
  <2>1. CASE v = w
    BY <1>1, <1>2, <2>1 DEF HolderOK
  <2>2. CASE v # w /\ pool.holds[v] \in Clients
    <3>1. HolderOK(v) /\ pool.holds[v] # c
      BY <1>2, <2>2 DEF Counting, HolderOK
    <3>2. pool'.mutex = v <=> pool.mutex = v
      BY <2>2, EchoAssumption
    <3>3. task'[pool.holds[v]] = task[pool.holds[v]]
      BY <1>1, <2>2, <3>1
    <3>4. task[pool.holds[v]].at = "store" => pool'.byte_cnt = pool.byte_cnt
      BY <2>2, <3>1 DEF HolderOK, Inside
    <3> QED BY <2>2, <3>1, <3>2, <3>3, <3>4 DEF HolderOK
  <2>3. CASE pool.holds[v] \notin Clients
    BY <2>3 DEF HolderOK
  <2> QED BY <2>1, <2>2, <2>3
<1>4. ASSUME NEW d \in Clients PROVE TaskOK(d)'
  <2>1. TaskOK(d)
    BY DEF Counting
  <2> QED BY <1>1, <2>1 DEF TaskOK
<1>5. pool'.mutex \in Workers => pool'.holds[pool'.mutex] \in Clients
  BY EchoAssumption DEF Counting
<1>6. SetupOK' /\ (pool'.mutex = Uninit \/ main'.at = "setup" => pool'.byte_cnt = 0)
  BY <1>2 DEF SetupOK
<1> QED BY <1>3, <1>4, <1>5, <1>6 DEF Counting

(* Such a step that counts nothing.                                         *)
LEMMA WorkerGoesOn ==
    ASSUME Typed, Counting, NEW w \in Workers, NEW c \in Clients, pool.holds[w] = c,
           NEW t, task' = [task EXCEPT ![c] = t], t.at # "none",
           NEW r, conn' = [conn EXCEPT ![c] = r], Counted(r, t) = Counted(conn[c], task[c]),
           pool'.holds = pool.holds, pool'.running = pool.running, UNCHANGED main,
           t.at \in Inside <=> pool'.mutex = w,
           pool'.mutex = pool.mutex \/ (pool.mutex \in {None, w, Uninit} /\ pool'.mutex \in {None, w}),
           pool'.mutex # Uninit, pool'.byte_cnt = pool.byte_cnt,
           t.at = "store" => t.reg = AsInt(pool'.byte_cnt + Len(t.todo))
    PROVE  Counting'
<1>1. \A d \in Clients : Counted(conn'[d], task'[d]) = Counted(conn[d], task[d])
  <2>1. conn'[c] = r /\ task'[c] = t
        /\ \A d \in Clients \ {c} : conn'[d] = conn[d] /\ task'[d] = task[d]
    BY DEF Typed
  <2> QED BY <2>1
<1>2. pool'.byte_cnt = AsInt(SumFunction([d \in Clients |-> Counted(conn'[d], task'[d])]))
  BY <1>1, SameSum DEF Counting
<1> QED BY <1>2, WorkerMoves

(* main and the clients.                                                    *)
LEMMA ClientCounts ==
    ASSUME Typed, Counting, NEW c \in Clients, Client(c), Undisturbed'
    PROVE  Counting'
<1>1. UNCHANGED <<sys, main, task, kids, pool>> /\ conn[c] \in ConnType
      /\ conn \in [Clients -> ConnType]
  BY DEF Client, Typed
<1>2. \E r : conn' = [conn EXCEPT ![c] = r] /\ Counted(r, task[c]) = Counted(conn[c], task[c])
  <2> DEFINE q == conn[c]
  <2>1. CASE Connect(c) \/ ClientSend(c) \/ ClientShut(c)
    <3>1. \E r : conn' = [conn EXCEPT ![c] = r] /\ r.got = q.got /\ r.out = q.out
      <4>1. CASE Connect(c)
        <5>1. conn' = [conn EXCEPT ![c] = [q EXCEPT !.up = TRUE]]
          BY <4>1 DEF Connect
        <5>2. [q EXCEPT !.up = TRUE].got = q.got /\ [q EXCEPT !.up = TRUE].out = q.out
          BY <1>1 DEF ConnType
        <5> QED BY <5>1, <5>2
      <4>2. CASE ClientShut(c)
        <5>1. conn' = [conn EXCEPT ![c] = [q EXCEPT !.fin = TRUE]]
          BY <4>2 DEF ClientShut, Changes
        <5>2. [q EXCEPT !.fin = TRUE].got = q.got /\ [q EXCEPT !.fin = TRUE].out = q.out
          BY <1>1 DEF ConnType
        <5> QED BY <5>1, <5>2
      <4>3. CASE ClientSend(c)
        <5>1. PICK u, i : conn' = [conn EXCEPT ![c] = [q EXCEPT !.unsent = u, !.in = i]]
          BY <4>3 DEF ClientSend, Changes
        <5>2. /\ [q EXCEPT !.unsent = u, !.in = i].got = q.got
              /\ [q EXCEPT !.unsent = u, !.in = i].out = q.out
          BY <1>1 DEF ConnType
        <5> QED BY <5>1, <5>2
      <4> QED BY <2>1, <4>1, <4>2, <4>3
    <3> QED BY <3>1 DEF Counted
  <2>2. CASE ClientRead(c)
    <3> DEFINE e == <<>>
               g == Cat(q.got, q.out)
               r == [q EXCEPT !.out = e, !.got = g]
    <3>1. conn' = [conn EXCEPT ![c] = r]
      BY <2>2 DEF ClientRead, Changes, Cat
    <3>2. q.got \in Seq(Bytes) /\ q.out \in Seq(Bytes) /\ q \in ConnType
      BY ConnFields
    <3>3. Len(g) = Len(q.got) + Len(q.out) /\ Len(e) = 0
      BY <3>2, CatTyped, EmptySeq
    <3>4. Len(q.got) \in Nat /\ Len(q.out) \in Nat
      BY <3>2, LenProperties
    <3> HIDE DEF e, g
    <3>5. r.got = g /\ r.out = e
      BY <3>2 DEF ConnType
    <3> HIDE DEF r
    <3>6. Len(r.got) = Len(g) /\ Len(r.out) = Len(e)
      BY <3>5
    <3>7. Len(r.got) + Len(r.out) = Len(q.got) + Len(q.out)
      <4> HIDE DEF q
      <4> QED BY <3>3, <3>4, <3>6
    <3> QED BY <3>1, <3>7 DEF Counted
  <2>3. CASE ClientReset(c)
    <3>1. conn'[c].gone
      BY <1>1, <2>3 DEF ClientReset, Changes, ConnType
    <3> QED BY <3>1 DEF Undisturbed
  <2> QED BY <2>1, <2>2, <2>3 DEF Client
<1>3. \A d \in Clients : Counted(conn'[d], task'[d]) = Counted(conn[d], task[d])
  BY <1>1, <1>2
<1> QED BY <1>1, <1>3, NoWorkerMoves

LEMMA MainCounts ==
    ASSUME Typed, Safe, Counting, PoolMain
    PROVE  Counting'
<1>1. UNCHANGED task /\ pool \in PoolType /\ conn \in [Clients -> ConnType]
  BY DEF PoolMain, PoolListens, PoolAccept, PoolInsert, Listens, Typed
<1>2. CASE PoolListens
  <2>1. main.at = "setup" /\ UNCHANGED conn /\ pool'.holds = pool.holds
        /\ pool'.byte_cnt = pool.byte_cnt /\ pool'.mutex = Uninit /\ pool.running = {}
    BY <1>1, <1>2 DEF PoolListens, Listens, connVars, PoolType, Counting, SetupOK
  <2>2. main'.at # "setup"
    BY <1>2 DEF PoolListens, Listens, Typed, MainType
  <2> QED BY <1>1, <2>1, <2>2, NoWorkerMoves
<1>3. CASE PoolAccept
  <2>1. UNCHANGED pool /\ main'.at # "setup"
    BY <1>3 DEF PoolAccept
  <2>2. \A d \in Clients : conn'[d].got = conn[d].got /\ conn'[d].out = conn[d].out
    <3>1. CASE UNCHANGED connVars
      BY <3>1 DEF connVars
    <3>2. CASE Accepts
      <4> DEFINE h == Head(backlog)
                 r == [conn[h] EXCEPT !.open = {"main"}]
      <4>1. conn' = [conn EXCEPT ![h] = r] /\ Opened(r, conn[h], {"main"})
        BY <3>2, Accepting DEF Accepts
      <4> HIDE DEF r
      <4> QED BY <1>1, <4>1 DEF Opened
    <3> QED BY <1>3, <3>1, <3>2 DEF PoolAccept
  <2>3. \A d \in Clients : Counted(conn'[d], task'[d]) = Counted(conn[d], task[d])
    BY <1>1, <2>2 DEF Counted
  <2> QED BY <1>1, <2>1, <2>3, NoWorkerMoves
<1>4. CASE PoolInsert
  <2>1. UNCHANGED conn /\ main'.at # "setup" /\ pool'.holds = pool.holds
        /\ pool'.running = pool.running
        /\ pool'.byte_cnt = pool.byte_cnt /\ pool'.mutex = pool.mutex
    BY <1>1, <1>4 DEF PoolInsert, connVars, PoolType
  <2> QED BY <1>1, <2>1, NoWorkerMoves
<1> QED BY <1>2, <1>3, <1>4 DEF PoolMain

(* A worker takes a connection from the queue.                              *)
LEMMA TakeCounts ==
    ASSUME Typed, Safe, Counting, NEW w \in Workers, Take(w)
    PROVE  Counting'
<1> DEFINE fd == Head(pool.queue)
           s == Tail(pool.queue)
<1>1. /\ w \in pool.running /\ pool.holds[w] = None /\ pool.queue # <<>>
      /\ pool' = [pool EXCEPT !.queue = s, !.holds[w] = fd]
      /\ task' = IF fd = Bad THEN task ELSE [task EXCEPT ![fd] = [NoTask EXCEPT !.at = "once"]]
      /\ UNCHANGED <<conn, main>> /\ pool \in PoolType /\ task \in [Clients -> TaskType]
      /\ Distinct(pool.queue)
  BY DEF Take, Typed, Safe, connVars
<1>2. pool.queue \in Seq(Clients \cup {Bad})
  BY <1>1 DEF PoolType
<1>3. fd \in Clients \cup {Bad} /\ fd \in ToSet(pool.queue)
  BY <1>1, <1>2, FirstOf
<1> HIDE DEF fd, s
<1>4. /\ pool'.holds = [pool.holds EXCEPT ![w] = fd] /\ pool'.running = pool.running
      /\ pool'.byte_cnt = pool.byte_cnt /\ pool'.mutex = pool.mutex
      /\ pool.holds \in [Workers -> Clients \cup {None, Bad}]
  BY <1>1 DEF PoolType
<1>5. pool.mutex # w /\ main.at # "setup"
  BY <1>1, EchoAssumption DEF Counting, SetupOK
<1>6. fd \in Clients => task[fd].at = "none"
  BY <1>1, <1>3 DEF Safe, InStep, Placed, InQueue
<1>7. /\ \A d \in Clients : d # fd => task'[d] = task[d]
      /\ fd \in Clients => task'[fd] = [NoTask EXCEPT !.at = "once"]
  BY <1>1, <1>3, EchoAssumption
<1>8. fd \in Clients => task'[fd].at = "once"
  BY <1>7 DEF NoTask
<1>9. ASSUME NEW d \in Clients
      PROVE  Counted(conn'[d], task'[d]) = Counted(conn[d], task[d])
  <2>1. CASE d # fd
    BY <1>1, <1>7, <2>1
  <2>2. CASE d = fd
    BY <1>1, <1>6, <1>8, <2>2 DEF Counted
  <2> QED BY <2>1, <2>2
<1>10. pool'.byte_cnt = AsInt(SumFunction([d \in Clients |-> Counted(conn'[d], task'[d])]))
  BY <1>4, <1>9, SameSum DEF Counting
<1>11. ASSUME NEW v \in Workers PROVE HolderOK(v)'
  <2>1. HolderOK(v)
    BY DEF Counting
  <2>2. CASE v = w /\ fd \in Clients
    <3>1. pool'.holds[w] = fd
      BY <1>4
    <3>2. ASSUME NEW u \in Workers, pool'.holds[u] = fd PROVE u = w
      <4>1. HolderOK(u)
        BY DEF Counting
      <4> QED BY <1>4, <1>6, <2>2, <3>2, <4>1 DEF HolderOK
    <3> QED BY <1>1, <1>4, <1>5, <1>8, <2>2, <3>1, <3>2 DEF HolderOK, Inside
  <2>3. CASE v = w /\ fd \notin Clients
    BY <1>4, <2>3 DEF HolderOK
  <2>4. CASE v # w /\ pool.holds[v] \in Clients
    <3>1. pool.holds[v] # fd
      BY <1>6, <2>1, <2>4 DEF HolderOK
    <3>2. task'[pool.holds[v]] = task[pool.holds[v]] /\ pool'.holds[v] = pool.holds[v]
      BY <1>4, <1>7, <2>4, <3>1
    <3>3. \A u \in Workers : pool'.holds[u] = pool.holds[v] => pool.holds[u] = pool.holds[v]
      BY <1>4, <3>1
    <3> QED BY <1>4, <2>1, <2>4, <3>2, <3>3 DEF HolderOK
  <2>5. CASE v # w /\ pool.holds[v] \notin Clients
    BY <1>4, <2>5 DEF HolderOK
  <2> QED BY <2>2, <2>3, <2>4, <2>5
<1>12. ASSUME NEW d \in Clients PROVE TaskOK(d)'
  <2>1. TaskOK(d)
    BY DEF Counting
  <2>2. CASE d = fd
    <3>1. pool'.holds[w] = d
      BY <1>4, <2>2
    <3> QED BY <1>4, <1>8, <2>2, <3>1 DEF TaskOK
  <2>3. CASE d # fd
    <3>1. \A u \in Workers : pool.holds[u] = d => pool'.holds[u] = d
      BY <1>1, <1>4, EchoAssumption
    <3> QED BY <1>4, <1>7, <2>1, <2>3, <3>1 DEF TaskOK
  <2> QED BY <2>2, <2>3
<1>13. pool'.mutex \in Workers => pool'.holds[pool'.mutex] \in Clients
  BY <1>4, <1>5 DEF Counting
<1>14. SetupOK' /\ (pool'.mutex = Uninit \/ main'.at = "setup" => pool'.byte_cnt = 0)
  BY <1>1, <1>4, <1>5 DEF SetupOK, Counting
<1> QED BY <1>10, <1>11, <1>12, <1>13, <1>14 DEF Counting

(* A worker is done with its connection.                                    *)
LEMMA CloseCounts ==
    ASSUME Typed, Safe, Counting, NEW w \in Workers, PoolCloses(w)
    PROVE  Counting'
<1> DEFINE c == pool.holds[w]
<1>1. /\ c \in Clients /\ task[c].at = "close"
      /\ conn' = [conn EXCEPT ![c].open = @ \ {"main"}] /\ task' = [task EXCEPT ![c] = NoTask]
      /\ pool' = [pool EXCEPT !.holds[w] = None] /\ UNCHANGED main
      /\ pool \in PoolType /\ conn \in [Clients -> ConnType] /\ task \in [Clients -> TaskType]
  BY DEF PoolCloses, At, Holding, SetTask, Without, Typed
<1>2. /\ pool'.holds = [pool.holds EXCEPT ![w] = None] /\ pool'.running = pool.running
      /\ pool'.byte_cnt = pool.byte_cnt /\ pool'.mutex = pool.mutex
      /\ pool.holds \in [Workers -> Clients \cup {None, Bad}]
  BY <1>1 DEF PoolType
<1>3. pool.mutex # w /\ main.at # "setup"
  BY <1>1 DEF Counting, HolderOK, SetupOK, Inside
<1>4. /\ task'[c] = NoTask /\ NoTask.at = "none"
      /\ \A d \in Clients \ {c} : task'[d] = task[d] /\ conn'[d] = conn[d]
  BY <1>1 DEF NoTask
<1>5. conn'[c].got = conn[c].got /\ conn'[c].out = conn[c].out
  BY <1>1 DEF ConnType
<1>6. ASSUME NEW d \in Clients
      PROVE  Counted(conn'[d], task'[d]) = Counted(conn[d], task[d])
  BY <1>1, <1>4, <1>5 DEF Counted
<1>7. pool'.byte_cnt = AsInt(SumFunction([d \in Clients |-> Counted(conn'[d], task'[d])]))
  BY <1>2, <1>6, SameSum DEF Counting
<1>8. ASSUME NEW v \in Workers PROVE HolderOK(v)'
  <2>1. HolderOK(v) /\ HolderOK(w)
    BY DEF Counting
  <2>2. CASE v = w
    BY <1>2, <2>2, EchoAssumption DEF HolderOK
  <2>3. CASE v # w /\ pool.holds[v] \in Clients
    <3>1. pool.holds[v] # c
      BY <1>1, <2>1, <2>3 DEF HolderOK
    <3>2. task'[pool.holds[v]] = task[pool.holds[v]] /\ pool'.holds[v] = pool.holds[v]
      BY <1>2, <1>4, <2>3, <3>1
    <3>3. \A u \in Workers : pool'.holds[u] = pool.holds[v] => pool.holds[u] = pool.holds[v]
      BY <1>2, <2>3, EchoAssumption
    <3> QED BY <1>2, <2>1, <2>3, <3>2, <3>3 DEF HolderOK
  <2>4. CASE v # w /\ pool.holds[v] \notin Clients
    BY <1>2, <2>4 DEF HolderOK
  <2> QED BY <2>2, <2>3, <2>4
<1>9. ASSUME NEW d \in Clients PROVE TaskOK(d)'
  <2>1. TaskOK(d)
    BY DEF Counting
  <2>2. CASE d = c
    BY <1>4, <2>2 DEF TaskOK
  <2>3. CASE d # c
    <3>1. \A u \in Workers : pool.holds[u] = d => pool'.holds[u] = d
      BY <1>2, <2>3
    <3> QED BY <1>2, <1>4, <2>1, <2>3, <3>1 DEF TaskOK
  <2> QED BY <2>2, <2>3
<1>10. pool'.mutex \in Workers => pool'.holds[pool'.mutex] \in Clients
  BY <1>2, <1>3 DEF Counting
<1>11. SetupOK' /\ (pool'.mutex = Uninit \/ main'.at = "setup" => pool'.byte_cnt = 0)
  BY <1>1, <1>2, <1>3 DEF SetupOK, Counting
<1> QED BY <1>7, <1>8, <1>9, <1>10, <1>11 DEF Counting

(* What rio_writen writes at a time.                                        *)
LEMMA WritesSome ==
    ASSUME Typed, NEW c \in Clients, rio_writen(c)
    PROVE  \E n \in 1 .. Len(task[c].todo) :
              /\ conn' = [conn EXCEPT ![c].out = @ \o SubSeq(task[c].todo, 1, n)]
              /\ task' = [task EXCEPT ![c] =
                           [task[c] EXCEPT !.todo = Drop(@, n),
                                           !.at = IF n = Len(task[c].todo) THEN "read" ELSE "write"]]
<1> DEFINE t == task[c]
           n == Min({Len(t.todo), sys.window - Len(conn[c].out)})
           S == {Len(t.todo), sys.window - Len(conn[c].out)}
<1>1. /\ n > 0 /\ conn' = [conn EXCEPT ![c].out = @ \o SubSeq(t.todo, 1, n)]
      /\ task' = [task EXCEPT ![c] = [t EXCEPT !.todo = Drop(@, n),
                                     !.at = IF n = Len(t.todo) THEN "read" ELSE "write"]]
  BY DEF rio_writen, Changes, SetTask, Typed
<1>2. Len(t.todo) \in Nat /\ sys.window \in Nat /\ Len(conn[c].out) \in Nat
  BY TaskFields, ConnFields, LenProperties, EchoAssumption DEF Typed
<1>3. n \in S /\ n <= Len(t.todo)
  <2>1. ASSUME sys.window - Len(conn[c].out) \in Nat PROVE n \in S /\ n <= Len(t.todo)
    BY <1>2, <2>1, LeastOfTwo
  <2>2. ASSUME sys.window - Len(conn[c].out) \notin Nat PROVE FALSE
    <3>1. S \subseteq Int /\ sys.window - Len(conn[c].out) < Len(t.todo)
          /\ sys.window - Len(conn[c].out) < 0
      BY <1>2, <2>2
    <3>2. n = sys.window - Len(conn[c].out)
      BY <3>1, <1>2 DEF Min
    <3> QED BY <3>1, <3>2, <1>1
  <2> QED BY <2>1, <2>2
<1>4. n \in 1 .. Len(t.todo)
  <2> HIDE DEF n
  <2> QED BY <1>1, <1>2, <1>3
<1> HIDE DEF n
<1> QED BY <1>1, <1>4

(* pthread_once, and what is done with the mutex and the counter, up to     *)
(* the store.                                                               *)
LEMMA TurnCounts ==
    ASSUME Typed, Safe, Counting, NEW w \in Workers, Holding(w),
           Pthread_once(w) \/ P(w) \/ Load(w) \/ V(w)
    PROVE  Counting'
<1> DEFINE c == pool.holds[w]
           t == task[c]
<1>1. /\ c \in Clients /\ t \in TaskType /\ pool \in PoolType /\ w \notin {None, Uninit}
      /\ Shape(t) /\ HolderOK(w) /\ TaskOK(c)
      /\ pool.mutex \in Workers \cup {None, Uninit} /\ UNCHANGED <<conn, main>>
      /\ conn \in [Clients -> ConnType]
  BY EchoAssumption, TaskFields
     DEF Holding, Pthread_once, P, Load, V, Quiet, connVars, Typed, PoolType, Counting, Safe, Regular
<1>2. t.todo \in Seq(Bytes) /\ Len(t.todo) \in Nat /\ pool.byte_cnt \in Int
  BY <1>1, TaskFields, LenProperties DEF PoolType
<1>3. conn' = [conn EXCEPT ![c] = conn[c]]
  BY <1>1
<1>4. (t.at \in Inside <=> pool.mutex = w) /\ (pool.mutex = Uninit => t.at \in {"none", "once"})
      /\ (pool.mutex = Uninit => pool.byte_cnt = 0)
  BY <1>1 DEF HolderOK, TaskOK, Counting
<1>5. ASSUME NEW a \in {"read", "load", "store", "V", "write"}, NEW s, GoesTo(s, t, a),
             task' = [task EXCEPT ![c] = s], t.at \in {"V", "write"} <=> a \in {"V", "write"},
             pool'.holds = pool.holds, pool'.running = pool.running,
             a \in Inside <=> pool'.mutex = w,
             \/ pool'.mutex = pool.mutex
             \/ pool.mutex \in {None, w, Uninit} /\ pool'.mutex \in {None, w},
             pool'.mutex # Uninit, pool'.byte_cnt = pool.byte_cnt,
             a = "store" => s.reg = AsInt(pool'.byte_cnt + Len(s.todo))
      PROVE  Counting'
  <2>1. s.at = a /\ s.todo = t.todo
    BY <1>5 DEF GoesTo
  <2>2. Counted(conn[c], s) = Counted(conn[c], t)
    BY <1>5, <2>1 DEF Counted
  <2>3. pool.holds[w] = c /\ UNCHANGED main /\ c \in Clients
    BY <1>1
  <2>4. s.at # "none" /\ (s.at \in Inside <=> pool'.mutex = w)
        /\ (s.at = "store" => s.reg = AsInt(pool'.byte_cnt + Len(s.todo)))
    BY <1>5, <2>1
  <2> HIDE DEF c, t
  <2>5. Counted(conn[c], s) = Counted(conn[c], task[c])
    BY <2>2 DEF t
  <2> QED BY <1>3, <1>5, <2>3, <2>4, <2>5, WorkerGoesOn
<1>6. CASE Pthread_once(w)
  <2> DEFINE s == [t EXCEPT !.at = "read"]
  <2>1. /\ t.at = "once" /\ task' = [task EXCEPT ![c] = s]
        /\ pool' = IF pool.mutex = Uninit THEN [pool EXCEPT !.mutex = None, !.byte_cnt = 0] ELSE pool
    BY <1>6 DEF Pthread_once, At, Goes, SetTask
  <2>2. /\ pool'.holds = pool.holds /\ pool'.running = pool.running
        /\ pool'.mutex = IF pool.mutex = Uninit THEN None ELSE pool.mutex
        /\ pool'.byte_cnt = pool.byte_cnt
    BY <1>1, <1>4, <2>1 DEF PoolType
  <2>3. GoesTo(s, t, "read")
    BY <1>1, <1>2, GoesOn
  <2>4. pool.mutex # w /\ pool'.mutex # w /\ pool'.mutex # Uninit
    BY <1>1, <1>4, <2>1, <2>2, EchoAssumption DEF Inside
  <2> HIDE DEF s
  <2> QED BY <1>5, <2>1, <2>2, <2>3, <2>4 DEF Inside
<1>7. CASE P(w)
  <2> DEFINE s == [t EXCEPT !.at = "load"]
  <2>1. t.at = "P" /\ task' = [task EXCEPT ![c] = s] /\ pool' = [pool EXCEPT !.mutex = w]
        /\ pool.mutex = None
    BY <1>7 DEF P, At, Goes, SetTask
  <2>2. /\ pool'.holds = pool.holds /\ pool'.running = pool.running
        /\ pool'.mutex = w /\ pool'.byte_cnt = pool.byte_cnt
    BY <1>1, <2>1 DEF PoolType
  <2>3. GoesTo(s, t, "load")
    BY <1>1, <1>2, GoesOn
  <2> HIDE DEF s
  <2> QED BY <1>1, <1>5, <2>1, <2>2, <2>3 DEF Inside
<1>8. CASE Load(w)
  <2> DEFINE n == AsInt(pool.byte_cnt + Len(t.todo))
             s == [t EXCEPT !.at = "store", !.reg = n]
  <2>1. t.at = "load" /\ task' = [task EXCEPT ![c] = s] /\ pool' = pool
    BY <1>8 DEF Load, At, SetTask
  <2>2. n \in Int
    <3>1. pool.byte_cnt + Len(t.todo) \in Int
      BY <1>2
    <3> QED BY <3>1, IntIs
  <2>3. GoesTo(s, t, "store") /\ s.reg = n /\ s.todo = t.todo
    <3> HIDE DEF n
    <3> QED BY <1>1, <2>2, GoesOn DEF GoesTo, TaskType
  <2>4. pool.mutex = w
    BY <1>4, <2>1 DEF Inside
  <2> HIDE DEF s
  <2> QED BY <1>1, <1>5, <2>1, <2>3, <2>4 DEF Inside
<1>9. CASE V(w)
  <2> DEFINE s == [t EXCEPT !.at = "write"]
  <2>1. t.at = "V" /\ task' = [task EXCEPT ![c] = s] /\ pool' = [pool EXCEPT !.mutex = None]
    BY <1>9 DEF V, At, Goes, SetTask
  <2>2. /\ pool'.holds = pool.holds /\ pool'.running = pool.running
        /\ pool'.mutex = None /\ pool'.byte_cnt = pool.byte_cnt
    BY <1>1, <2>1 DEF PoolType
  <2>3. GoesTo(s, t, "write")
    BY <1>1, <1>2, GoesOn
  <2>4. pool.mutex = w
    BY <1>4, <2>1 DEF Inside
  <2> HIDE DEF s
  <2> QED BY <1>1, <1>5, <2>1, <2>2, <2>3, <2>4, EchoAssumption DEF Inside
<1> QED BY <1>6, <1>7, <1>8, <1>9

(* The sum after a step that changes one connection's count.                *)
LEMMA OneCounts ==
    ASSUME Typed, NEW c \in Clients, NEW t \in TaskType, task' = [task EXCEPT ![c] = t],
           UNCHANGED conn
    PROVE  SumFunction([d \in Clients |-> Counted(conn'[d], task'[d])])
             = SumFunction([d \in Clients |-> Counted(conn[d], task[d])])
               + Counted(conn[c], t) - Counted(conn[c], task[c])
<1> DEFINE f == [d \in Clients |-> Counted(conn[d], task[d])]
           g == [d \in Clients |-> Counted(conn'[d], task'[d])]
<1>1. conn \in [Clients -> ConnType] /\ task \in [Clients -> TaskType]
  BY DEF Typed
<1>2. task'[c] = t /\ conn' = conn /\ \A d \in Clients \ {c} : task'[d] = task[d]
  BY <1>1
<1>3. \A d \in Clients : f[d] \in Int /\ g[d] \in Int
  BY <1>1, <1>2, CountedTyped
<1>4. \A d \in Clients \ {c} : f[d] = g[d]
  BY <1>2
<1>5. f[c] = Counted(conn[c], task[c]) /\ g[c] = Counted(conn[c], t)
  BY <1>2
<1>6. DOMAIN f = Clients /\ DOMAIN g = Clients
  OBVIOUS
<1> HIDE DEF f, g
<1>7. SumFunctionOnSet(g, Clients) = SumFunctionOnSet(f, Clients) + g[c] - f[c]
  BY <1>3, <1>4, EchoAssumption, SumChange
<1> QED BY <1>5, <1>6, <1>7 DEF SumFunction, f, g

(* What has been loaded is stored with what came in since the last time.    *)
LEMMA StoreCounts ==
    ASSUME Typed, Safe, Counting, NEW w \in Workers, Store(w)
    PROVE  Counting'
<1> DEFINE c == pool.holds[w]
           t == task[c]
           s == [t EXCEPT !.at = "V"]
<1>1. /\ c \in Clients /\ t \in TaskType /\ pool \in PoolType /\ HolderOK(w) /\ t.at = "store"
      /\ task' = [task EXCEPT ![c] = s] /\ pool' = [pool EXCEPT !.byte_cnt = t.reg]
      /\ UNCHANGED <<conn, main>> /\ conn[c] \in ConnType /\ t.todo \in Seq(Bytes)
  BY TaskFields, ConnFields DEF Store, At, Goes, SetTask, Holding, Quiet, connVars, Typed, Counting
<1>2. pool.mutex = w /\ t.reg = AsInt(pool.byte_cnt + Len(t.todo))
  BY <1>1 DEF HolderOK, Inside
<1>3. s \in TaskType /\ s.at = "V" /\ s.todo = t.todo
  BY <1>1, GoesOn DEF GoesTo
<1>4. /\ pool'.holds = pool.holds /\ pool'.running = pool.running /\ pool'.mutex = w
      /\ pool'.byte_cnt = t.reg
  BY <1>1, <1>2 DEF PoolType
<1> HIDE DEF s
<1>5. Counted(conn[c], s) = Counted(conn[c], t) + Len(t.todo)
      /\ Counted(conn[c], t) \in Int /\ Len(t.todo) \in Int
  <2>1. Len(conn[c].got) \in Nat /\ Len(conn[c].out) \in Nat /\ Len(t.todo) \in Nat
    BY <1>1, ConnFields, LenProperties
  <2> QED BY <1>1, <1>3, <2>1 DEF Counted
<1>6. pool'.byte_cnt = AsInt(SumFunction([d \in Clients |-> Counted(conn'[d], task'[d])]))
  <2> DEFINE m == SumFunction([d \in Clients |-> Counted(conn[d], task[d])])
             n == SumFunction([d \in Clients |-> Counted(conn'[d], task'[d])])
  <2>1. pool.byte_cnt = AsInt(m) /\ m \in Int
    BY <1>1, SumTyped DEF Counting
  <2>2. n = m + Counted(conn[c], s) - Counted(conn[c], t)
    BY <1>1, <1>3, OneCounts
  <2> HIDE DEF m, n, t
  <2>3. n = m + Len(t.todo)
    BY <1>5, <2>1, <2>2
  <2>4. AsInt(n) = t.reg
    BY <1>2, <1>5, <2>1, <2>3, IntAdds
  <2> QED BY <1>4, <2>4 DEF n
<1> QED BY <1>1, <1>2, <1>3, <1>4, <1>6, WorkerMoves, EchoAssumption DEF Inside

(* A line that comes in is not counted yet.                                 *)
LEMMA LineCounts ==
    ASSUME Typed, Safe, Counting, NEW w \in Workers, NEW c \in Clients, pool.holds[w] = c,
           Rio_readlineb(c, "P") \/ RioEnd(c, "P"), UNCHANGED pool
    PROVE  Counting'
<1>1. conn[c] \in ConnType /\ task[c] \in TaskType /\ conn \in [Clients -> ConnType]
      /\ task[c].at = "read" /\ UNCHANGED main
  BY ConnFields, TaskFields DEF Typed, Rio_readlineb, RioEnd
<1>2. pool.mutex # w /\ pool.mutex # Uninit
  BY <1>1 DEF Counting, HolderOK, TaskOK, Inside
<1>3. \A r : LineOr(r, "P").at \in {"P", "read"}
  BY DEF LineOr
<1>4. \E s : task' = [task EXCEPT ![c] = s] /\ s.at \in {"P", "read", "close"}
  <2>1. CASE Rio_readlineb(c, "P")
    <3>1. PICK r : task' = [task EXCEPT ![c] = LineOr(r, "P")]
      BY <2>1 DEF Rio_readlineb, SetTask
    <3> QED BY <1>3, <3>1
  <2>2. CASE RioEnd(c, "P")
    <3> DEFINE k == Returned(task[c].rio)
               s == [at |-> "P", rio |-> k, todo |-> task[c].rio.user, reg |-> 0]
               e == [task[c] EXCEPT !.at = "close"]
    <3>1. task' = [task EXCEPT ![c] = e] \/ task' = [task EXCEPT ![c] = s]
      BY <2>2 DEF RioEnd, SetTask
    <3>2. e.at = "close" /\ s.at = "P"
      BY <1>1 DEF TaskType
    <3> HIDE DEF e, s
    <3> QED BY <3>1, <3>2
  <2> QED BY <2>1, <2>2
<1>5. \E r : conn' = [conn EXCEPT ![c] = r] /\ r.got = conn[c].got /\ r.out = conn[c].out
  <2>1. CASE \E i : conn' = [conn EXCEPT ![c] = [conn[c] EXCEPT !.in = i]]
    <3>1. PICK i : conn' = [conn EXCEPT ![c] = [conn[c] EXCEPT !.in = i]]
      BY <2>1
    <3>2. [conn[c] EXCEPT !.in = i].got = conn[c].got /\ [conn[c] EXCEPT !.in = i].out = conn[c].out
      BY <1>1 DEF ConnType
    <3> QED BY <3>1, <3>2
  <2>2. CASE UNCHANGED conn
    BY <1>1, <2>2
  <2> QED BY <2>1, <2>2 DEF Rio_readlineb, RioEnd, Changes, connVars
<1>6. PICK s : task' = [task EXCEPT ![c] = s] /\ s.at \in {"P", "read", "close"}
  BY <1>4
<1>7. PICK r : conn' = [conn EXCEPT ![c] = r] /\ r.got = conn[c].got /\ r.out = conn[c].out
  BY <1>5
<1>8. Counted(r, s) = Counted(conn[c], task[c])
  BY <1>1, <1>6, <1>7 DEF Counted
<1> QED BY <1>1, <1>2, <1>6, <1>7, <1>8, WorkerGoesOn DEF Inside

(* What is written has been counted.                                        *)
LEMMA WriteCounts ==
    ASSUME Typed, Safe, Counting, NEW w \in Workers, NEW c \in Clients, pool.holds[w] = c,
           rio_writen(c), UNCHANGED pool
    PROVE  Counting'
<1> DEFINE q == conn[c]
           t == task[c]
<1>1. q \in ConnType /\ t \in TaskType /\ t.at = "write" /\ UNCHANGED main
      /\ t.todo \in Seq(Bytes) /\ q.out \in Seq(Bytes) /\ q.got \in Seq(Bytes)
  BY ConnFields, TaskFields DEF Typed, rio_writen
<1>2. pool.mutex # w /\ pool.mutex # Uninit
  BY <1>1 DEF Counting, HolderOK, TaskOK, Inside
<1>3. PICK n \in 1 .. Len(t.todo) :
        /\ conn' = [conn EXCEPT ![c].out = @ \o SubSeq(t.todo, 1, n)]
        /\ task' = [task EXCEPT ![c] = [t EXCEPT !.todo = Drop(@, n),
                                                 !.at = IF n = Len(t.todo) THEN "read" ELSE "write"]]
  BY WritesSome
<1> DEFINE x == SubSeq(t.todo, 1, n)
           y == Drop(t.todo, n)
           o == Cat(q.out, x)
           a == IF n = Len(t.todo) THEN "read" ELSE "write"
           r == [q EXCEPT !.out = o]
           s == [t EXCEPT !.todo = y, !.at = a]
<1>4. conn' = [conn EXCEPT ![c] = r] /\ task' = [task EXCEPT ![c] = s]
  BY <1>3 DEF Cat
<1>5. n \in 0 .. Len(t.todo) /\ Len(t.todo) \in Nat /\ Len(q.out) \in Nat /\ Len(q.got) \in Nat
      /\ n \in Nat
  BY <1>1, <1>3, LenProperties
<1>6. /\ x \in Seq(Bytes) /\ y \in Seq(Bytes) /\ Len(x) = n /\ x \o y = t.todo
  <2> HIDE DEF t
  <2> QED BY <1>1, <1>5, Split
<1> HIDE DEF x, y
<1>7. Len(y) \in Nat /\ Len(t.todo) = n + Len(y)
  <2>1. Cat(x, y) = t.todo
    BY <1>6 DEF Cat
  <2> QED BY <1>6, <2>1, CatTyped, LenProperties
<1>8. Len(o) = Len(q.out) + n
  BY <1>1, <1>6, CatTyped
<1> HIDE DEF o
<1>9. r.got = q.got /\ r.out = o
  BY <1>1 DEF ConnType
<1>10. s.at = a /\ s.todo = y
  BY <1>1 DEF TaskType
<1> HIDE DEF r, s
<1> DEFINE g == Len(q.got)
           k == Len(q.out)
           l == Len(t.todo)
           m == Len(y)
<1>11. Counted(r, s) = g + (k + n) + m
  <2>1. Len(r.got) = g /\ Len(r.out) = k + n
    BY <1>8, <1>9
  <2>2. (IF s.at \in {"V", "write"} THEN Len(s.todo) ELSE 0) = m
    <3>1. CASE n = l
      <4>1. s.at = "read"
        BY <1>10, <3>1
      <4>2. m = 0
        <5>1. n \in Nat /\ m \in Nat /\ l = n + m
          BY <1>5, <1>7
        <5> HIDE DEF m, l
        <5> QED BY <3>1, <5>1
      <4> QED BY <4>1, <4>2
    <3>2. CASE n # l
      <4>1. s.at = "write" /\ s.todo = y
        BY <1>10, <3>2
      <4> QED BY <4>1
    <3> QED BY <3>1, <3>2
  <2> HIDE DEF g, k, m
  <2> QED BY <2>1, <2>2 DEF Counted
<1>12. Counted(q, t) = g + k + l
  BY <1>1 DEF Counted
<1>13. Counted(r, s) = Counted(q, t)
  <2>1. g \in Nat /\ k \in Nat /\ m \in Nat /\ n \in Nat /\ l = n + m
    BY <1>5, <1>7
  <2> HIDE DEF g, k, l, m
  <2>2. g + (k + n) + m = g + k + l
    BY <2>1
  <2> QED BY <1>11, <1>12, <2>2
<1>14. s.at \notin Inside /\ s.at # "none" /\ s.at # "store"
  BY <1>10 DEF Inside
<1>15. Counted(r, s) = Counted(conn[c], task[c])
  BY <1>13
<1>16. UNCHANGED main
  BY <1>1
<1>17. (s.at \in Inside <=> pool'.mutex = w) /\ pool' = pool
  BY <1>2, <1>14
<1> HIDE DEF q, t, a, g, k, l, m
<1> QED BY <1>2, <1>4, <1>14, <1>15, <1>16, <1>17, WorkerGoesOn

-----------------------------------------------------------------------------
(* The other designs are not the pool, and stay what they are.              *)
LEMMA OtherMain ==
    ASSUME IterStep \/ RecvStep \/ ForkMain \/ ThreadMain \/ EpollStep
    PROVE  \/ sys.design # "pool" /\ UNCHANGED sys
           \/ UNCHANGED <<connVars, sys, main, task, pool>>
<1>1. CASE IterStep
  BY <1>1 DEF IterStep, IterListens, IterAccept, IterEcho, IterClose, Listens, Accepts, Exit,
              echo, Rio_readlineb, RioEnd, rio_writen
<1>2. CASE RecvStep
  BY <1>2 DEF RecvStep, RecvListens, RecvAccept, RecvRecv, RecvSend, Listens, Accepts, Exit,
              rio_writen
<1>3. CASE ForkMain
  <2>1. CASE sigchld_handler
    BY <2>1 DEF sigchld_handler
  <2>2. CASE ForkListens \/ ForkAccept \/ Fork \/ ForkClose \/ Caught
    BY <2>2 DEF ForkListens, ForkAccept, Fork, ForkClose, Caught, Main, Listens, Accepts
  <2> QED BY <1>3, <2>1, <2>2 DEF ForkMain
<1>4. CASE ThreadMain
  BY <1>4 DEF ThreadMain, ThreadListens, ThreadAccept, ThreadCreate, Listens, Accepts, Exit
<1>5. CASE EpollStep
  BY <1>5 DEF EpollStep, EpollListens, EpollWait, NextEvent, EpollHangUp, EpollAccept, EpollRecv,
              EpollSend, EpollCloses, EpollDry, Listens, Exit
<1> QED BY <1>1, <1>2, <1>3, <1>4, <1>5

(* Nor are their threads and children the pool's.                           *)
LEMMA OtherTask ==
    ASSUME NEW c \in Clients, TaskStep(c)
    PROVE  sys.design # "pool" /\ UNCHANGED sys
<1>1. CASE ForkChild(c)
  BY <1>1 DEF ForkChild, ChildEchoes, ChildExits, echo, Rio_readlineb, RioEnd, rio_writen
<1>2. CASE Thread(c)
  BY <1>2 DEF Thread, ThreadStart, ThreadEchoes, ThreadCloses, echo, Rio_readlineb, RioEnd,
              rio_writen, Exit
<1> QED BY <1>1, <1>2 DEF TaskStep

(* A connection that is reset stays so.                                     *)
LEMMA ClientBefore ==
    ASSUME Typed, NEW c \in Clients, Client(c), Undisturbed'
    PROVE  Undisturbed
<1>1. sys' = sys /\ main' = main /\ conn \in [Clients -> ConnType] /\ conn[c] \in ConnType
  BY DEF Client, Typed
<1>2. \E r : conn' = [conn EXCEPT ![c] = r]
  BY DEF Client, Connect, ClientSend, ClientShut, ClientRead, ClientReset, Changes
<1>3. conn'[c].gone \/ ~conn[c].gone
  <2>1. CASE Connect(c)
    <3>1. conn' = [conn EXCEPT ![c] = [conn[c] EXCEPT !.up = TRUE]]
      BY <2>1 DEF Connect
    <3>2. [conn[c] EXCEPT !.up = TRUE].gone = conn[c].gone
      BY <1>1 DEF ConnType
    <3> QED BY <1>1, <3>1, <3>2 DEF Undisturbed
  <2>2. CASE ~Connect(c)
    BY <2>2 DEF Client, ClientSend, ClientShut, ClientRead, ClientReset, Talks
  <2> QED BY <2>1, <2>2
<1>4. \A d \in Clients \ {c} : conn'[d] = conn[d]
  BY <1>1, <1>2
<1> QED BY <1>1, <1>3, <1>4 DEF Undisturbed

(* What the server does resets no connection, and it does not come back     *)
(* from exit.                                                               *)
LEMMA ServerBefore ==
    ASSUME Typed, PoolMain \/ \E w \in Workers : handle_clients(w), Undisturbed'
    PROVE  Undisturbed
<1>1. conn \in [Clients -> ConnType] /\ sys' = sys /\ (main.at # "exited" \/ main' = main)
  <2>1. CASE PoolMain
    BY <2>1 DEF Typed, PoolMain, PoolListens, PoolAccept, PoolInsert, Listens, Accepts
  <2>2. ASSUME NEW w \in Workers, handle_clients(w) PROVE sys' = sys /\ main' = main
    <3>1. ~PoolFails(w)
      BY DEF Undisturbed, PoolFails, Exit
    <3> QED BY <2>2, <3>1 DEF handle_clients, Take, echo_cnt, Pthread_once, P, Load, Store, V, Quiet,
                 Rio_readlineb, RioEnd, rio_writen, PoolCloses
  <2> QED BY <2>1, <2>2 DEF Typed
<1>2. \A d \in Clients : conn[d].gone => conn'[d].gone
  <2>1. ASSUME NEW c \in Clients, NEW o, conn' = [conn EXCEPT ![c].open = o]
        PROVE  \A d \in Clients : conn[d].gone => conn'[d].gone
    BY <1>1, <2>1 DEF ConnType
  <2>2. ASSUME NEW c \in Clients, NEW i, conn' = [conn EXCEPT ![c].in = i]
        PROVE  \A d \in Clients : conn[d].gone => conn'[d].gone
    BY <1>1, <2>2 DEF ConnType
  <2>3. ASSUME NEW c \in Clients, NEW r, conn' = [conn EXCEPT ![c] = r], ~conn[c].gone
        PROVE  \A d \in Clients : conn[d].gone => conn'[d].gone
    BY <1>1, <2>3
  <2>4. CASE PoolMain
    <3>1. CASE Accepts
      <4>1. Head(backlog) \in Clients
        BY <3>1 DEF Accepts, Typed
      <4>2. conn' = [conn EXCEPT ![Head(backlog)].open = {"main"}]
        BY <3>1 DEF Accepts, Accepted
      <4> QED BY <2>1, <4>1, <4>2
    <3>2. CASE UNCHANGED connVars
      BY <3>2 DEF connVars
    <3> QED BY <2>4, <3>1, <3>2 DEF PoolMain, PoolListens, PoolAccept, PoolInsert, Listens
  <2>5. ASSUME NEW w \in Workers, handle_clients(w)
        PROVE  \A d \in Clients : conn[d].gone => conn'[d].gone
    <3> DEFINE c == pool.holds[w]
    <3>1. CASE PoolCloses(w)
      <4>1. c \in Clients /\ conn' = [conn EXCEPT ![c].open = @ \ {"main"}]
        BY <3>1 DEF PoolCloses, At, Holding, Without
      <4>2. conn' = [conn EXCEPT ![c].open = conn[c].open \ {"main"}]
        BY <4>1
      <4> QED BY <2>1, <4>1, <4>2
    <3>2. CASE UNCHANGED connVars
      BY <3>2 DEF connVars
    <3>3. CASE c \in Clients /\ Rio_readlineb(c, "P")
      <4>1. CASE \E i : conn' = [conn EXCEPT ![c] = [conn[c] EXCEPT !.in = i]]
        <5>1. PICK i : conn' = [conn EXCEPT ![c] = [conn[c] EXCEPT !.in = i]]
          BY <4>1
        <5>2. conn' = [conn EXCEPT ![c].in = i]
          BY <5>1
        <5> QED BY <3>3, <5>2, <2>2
      <4> QED BY <3>2, <3>3, <4>1 DEF Rio_readlineb, Changes
    <3>4. CASE c \in Clients /\ rio_writen(c)
      <4>1. \E r : conn' = [conn EXCEPT ![c] = r] /\ ~conn[c].gone
        BY <3>4 DEF rio_writen, Changes
      <4> QED BY <2>3, <3>4, <4>1
    <3>5. CASE c \in Clients /\ RioEnd(c, "P")
      BY <3>2, <3>5 DEF RioEnd
    <3>6. ~PoolFails(w)
      BY DEF Undisturbed, PoolFails, Exit
    <3>7. CASE echo_cnt(w)
      BY <3>2, <3>3, <3>4, <3>5, <3>7 DEF echo_cnt, Pthread_once, P, Load, Store, V, Quiet, Holding
    <3>8. CASE Take(w)
      BY <3>2, <3>8 DEF Take
    <3> QED BY <2>5, <3>1, <3>6, <3>7, <3>8 DEF handle_clients
  <2> QED BY <2>4, <2>5
<1> QED BY <1>1, <1>2 DEF Undisturbed

(* Every step keeps the count.                                              *)
LEMMA StepCounts ==
    ASSUME IInv, CountOK, [Next]_vars
    PROVE  CountOK'
<1> SUFFICES ASSUME Undisturbed' PROVE Counting'
  BY DEF CountOK
<1>1. Typed /\ Safe
  BY DEF IInv
<1>2. CASE UNCHANGED <<connVars, sys, main, task, pool>>
  <2>1. UNCHANGED <<conn, sys, main, task, pool>>
    BY <1>2 DEF connVars
  <2>2. Undisturbed
    BY <2>1 DEF Undisturbed
  <2> QED BY <2>1, <2>2 DEF CountOK, Counting, HolderOK, TaskOK, SetupOK
<1>3. CASE PoolMain
  BY <1>1, <1>3, ServerBefore, MainCounts DEF CountOK
<1>4. ASSUME NEW w \in Workers, handle_clients(w) PROVE Counting'
  <2>1. Counting
    BY <1>1, <1>4, ServerBefore DEF CountOK
  <2>2. CASE Take(w)
    BY <1>1, <2>1, <2>2, TakeCounts
  <2>3. CASE PoolCloses(w)
    BY <1>1, <2>1, <2>3, CloseCounts
  <2>4. CASE PoolFails(w)
    BY <2>4 DEF Undisturbed, PoolFails, Exit
  <2>5. CASE Store(w)
    BY <1>1, <2>1, <2>5, StoreCounts
  <2>6. CASE Pthread_once(w) \/ P(w) \/ Load(w) \/ V(w)
    BY <1>1, <2>1, <2>6, TurnCounts DEF Pthread_once, P, Load, V, At
  <2>7. CASE /\ Holding(w)
             /\ LET c == pool.holds[w] IN Rio_readlineb(c, "P") \/ RioEnd(c, "P") \/ rio_writen(c)
             /\ UNCHANGED <<kids, pool, ev>>
    <3>1. pool.holds[w] \in Clients /\ UNCHANGED pool
      BY <2>7 DEF Holding
    <3> QED BY <1>1, <2>1, <2>7, <3>1, LineCounts, WriteCounts
  <2> QED BY <1>4, <2>2, <2>3, <2>4, <2>5, <2>6, <2>7 DEF handle_clients, echo_cnt
<1>5. ASSUME NEW c \in Clients, Client(c) PROVE Counting'
  BY <1>1, <1>5, ClientBefore, ClientCounts DEF CountOK
<1>6. CASE IterStep \/ RecvStep \/ ForkMain \/ ThreadMain \/ EpollStep
  BY <1>2, <1>6, OtherMain DEF Undisturbed
<1>7. ASSUME NEW c \in Clients, TaskStep(c) PROVE Counting'
  BY <1>7, OtherTask DEF Undisturbed
<1>8. CASE UNCHANGED vars
  BY <1>2, <1>8 DEF vars, echoVars
<1> QED BY <1>3, <1>4, <1>5, <1>6, <1>7, <1>8 DEF Next, MainStep

(* Nothing has been counted at first.                                       *)
LEMMA InitCounts == Init => CountOK
<1> SUFFICES ASSUME Init PROVE Counting
  BY DEF CountOK
<1> DEFINE f == [c \in Clients |-> Counted(conn[c], task[c])]
           n == [w \in Workers |-> None]
<1>1. /\ main.at = "setup" /\ task = [c \in Clients |-> NoTask] /\ pool.holds = n
      /\ pool.running = {} /\ pool.byte_cnt = 0 /\ pool.mutex = None
  BY DEF Init, BaseInit
<1>2. \A c \in Clients : task[c].at = "none"
  BY <1>1 DEF NoTask
<1>3. \A c \in Clients : Counted(conn[c], task[c]) = 0
  <2> SUFFICES ASSUME NEW c \in Clients PROVE Counted(conn[c], task[c]) = 0
    OBVIOUS
  <2>1. conn[c].got = <<>> /\ conn[c].out = <<>>
    BY DEF Init, ConnInit
  <2>2. Len(conn[c].got) = 0 /\ Len(conn[c].out) = 0
    BY <2>1
  <2> QED BY <1>2, <2>2 DEF Counted
<1>4. \A c \in Clients : f[c] = 0
  BY <1>3
<1>5. DOMAIN f = Clients
  OBVIOUS
<1> HIDE DEF f
<1>6. SumFunctionOnSet(f, Clients) = 0
  BY <1>4, EchoAssumption, SumZeros
<1>7. pool.byte_cnt = AsInt(SumFunction(f))
  <2>1. AsInt(0) = 0
    BY IntAssumption DEF AsInt
  <2> QED BY <1>1, <1>5, <1>6, <2>1 DEF SumFunction
<1>8. None \notin Workers /\ None # Uninit /\ None \notin Clients
  BY EchoAssumption
<1>9. \A w \in Workers : HolderOK(w)
  BY <1>1, <1>8 DEF HolderOK
<1>10. \A c \in Clients : TaskOK(c)
  BY <1>2 DEF TaskOK
<1> QED BY <1>1, <1>2, <1>7, <1>8, <1>9, <1>10 DEF Counting, SetupOK, f

(* The invariant of the count holds in every reachable state.               *)
LEMMA CountingOn == Spec => [](IInv /\ CountOK)
<1>1. Init => IInv /\ CountOK
  BY InitSafe, InitCounts
<1>2. IInv /\ CountOK /\ [Next]_vars => (IInv /\ CountOK)'
  BY StepSafe, StepCounts
<1> QED BY <1>1, <1>2, PTL DEF Spec

(* The counter of echo_cnt.c:12-35 is right, whatever the number of         *)
(* threads, connections and bytes: when nobody has the mutex, byte_cnt is   *)
(* what has been read and is not waiting to be counted, or what an int that *)
(* has overflowed keeps of it, so no thread has overwritten what another    *)
(* one added.                                                               *)
THEOREM CountedOnce == Spec => []CountExact
<1>1. IInv /\ CountOK => CountExact
  <2> SUFFICES ASSUME IInv, CountOK, Undisturbed, pool.mutex = None
               PROVE  pool.byte_cnt = AsInt(SumFunction([c \in Clients |-> Len(msg[c]) -
                        (Len(conn[c].unsent \o conn[c].in \o task[c].rio.buf \o task[c].rio.user)
                         + (IF task[c].at = "P" THEN Len(task[c].todo) ELSE 0))]))
    BY DEF CountExact, Undisturbed
  <2> DEFINE g(c) == Len(msg[c]) -
                       (Len(conn[c].unsent \o conn[c].in \o task[c].rio.buf \o task[c].rio.user)
                        + (IF task[c].at = "P" THEN Len(task[c].todo) ELSE 0))
  <2>1. Typed /\ Safe /\ Counting
    BY DEF IInv, CountOK
  <2>2. ASSUME NEW c \in Clients PROVE Counted(conn[c], task[c]) = g(c)
    <3> DEFINE q == conn[c]
               t == task[c]
               i == q.in  u == q.unsent  b == t.rio.buf  r == t.rio.user
    <3>1. q \in ConnType /\ t \in TaskType /\ Shape(t) /\ Whole(q, t) = msg[c]
      BY <2>1, ConnFields, TaskFields DEF Safe, Regular, Exact, Undisturbed
    <3>2. /\ i \in Seq(Bytes) /\ u \in Seq(Bytes) /\ b \in Seq(Bytes) /\ r \in Seq(Bytes)
          /\ q.got \in Seq(Bytes) /\ q.out \in Seq(Bytes) /\ t.todo \in Seq(Bytes)
      BY <3>1, FieldSeqs
    <3>3. /\ Len(i) \in Nat /\ Len(u) \in Nat /\ Len(b) \in Nat /\ Len(r) \in Nat
          /\ Len(q.got) \in Nat /\ Len(q.out) \in Nat /\ Len(t.todo) \in Nat
      BY <3>2, LenProperties
    <3>4. Len(msg[c]) = Len(q.got) + Len(q.out) + Len(t.todo) + Len(r) + Len(b) + Len(i) + Len(u)
      <4> HIDE DEF q, t
      <4> QED BY <3>1, Chained DEF i, u, b, r
    <3>5. Len(u \o i \o b \o r) = Len(u) + Len(i) + Len(b) + Len(r)
      <4> DEFINE v == Cat(u, i)
                 x == Cat(v, b)
      <4> HIDE DEF i, u, b, r
      <4>1. v \in Seq(Bytes) /\ Len(v) = Len(u) + Len(i)
        BY <3>2, CatTyped
      <4>2. x \in Seq(Bytes) /\ Len(x) = Len(v) + Len(b)
        <5> HIDE DEF v
        <5> QED BY <3>2, <4>1, CatTyped
      <4>3. Len(Cat(x, r)) = Len(x) + Len(r)
        <5> HIDE DEF x
        <5> QED BY <3>2, <4>2, CatTyped
      <4>4. u \o i \o b \o r = Cat(x, r)
        BY DEF Cat
      <4> HIDE DEF v, x
      <4> QED BY <3>3, <4>1, <4>2, <4>3, <4>4
    <3>6. t.at \notin Inside
      <4>1. CASE t.at = "none"
        BY <4>1 DEF Inside
      <4>2. CASE t.at # "none"
        <5>1. PICK w \in Workers : pool.holds[w] = c
          BY <2>1, <4>2 DEF Counting, TaskOK
        <5> QED BY <2>1, <5>1, EchoAssumption DEF Counting, HolderOK
      <4> QED BY <4>1, <4>2
    <3>7. t.at \in {"none", "created", "once", "read", "close"} => Len(t.todo) = 0
      BY <3>1 DEF Shape
    <3>8. t.at \in {"none", "created", "once", "read", "close", "P", "write"}
      BY <3>1, <3>6 DEF TaskType, Inside
    <3> DEFINE l == Len(t.todo)
               a == IF t.at = "P" THEN l ELSE 0
               p == IF t.at \in {"V", "write"} THEN l ELSE 0
    <3>9. l = p + a /\ p \in Nat /\ a \in Nat
      <4>1. l \in Nat
        BY <3>3
      <4>2. CASE t.at = "P"
        <5>1. a = l /\ p = 0
          BY <4>2
        <5> HIDE DEF l, a, p
        <5> QED BY <4>1, <5>1
      <4>3. CASE t.at = "write"
        <5>1. a = 0 /\ p = l
          BY <4>3
        <5> HIDE DEF l, a, p
        <5> QED BY <4>1, <5>1
      <4>4. CASE t.at \in {"none", "created", "once", "read", "close"}
        <5>1. a = 0 /\ p = 0 /\ l = 0
          BY <3>7, <4>4
        <5> HIDE DEF l, a, p
        <5> QED BY <5>1
      <4> QED BY <3>8, <4>2, <4>3, <4>4
    <3>10. Counted(q, t) = Len(q.got) + Len(q.out) + p
      BY DEF Counted
    <3>11. g(c) = Len(msg[c]) - (Len(u \o i \o b \o r) + a)
      OBVIOUS
    <3> DEFINE k == Len(q.got)  o == Len(q.out)  m == Len(msg[c])
               li == Len(i)  lu == Len(u)  lb == Len(b)  lr == Len(r)
    <3>12. m - (lu + li + lb + lr + a) = k + o + p
      <4>1. /\ li \in Nat /\ lu \in Nat /\ lb \in Nat /\ lr \in Nat /\ k \in Nat /\ o \in Nat
            /\ m = k + o + l + lr + lb + li + lu
        BY <3>3, <3>4
      <4> HIDE DEF li, lu, lb, lr, k, o, m, l, a, p
      <4> QED BY <3>9, <4>1
    <3> QED BY <3>5, <3>10, <3>11, <3>12
  <2>3. [c \in Clients |-> Counted(conn[c], task[c])] = [c \in Clients |-> g(c)]
    <3> HIDE DEF g
    <3> QED BY <2>2
  <2> QED BY <2>1, <2>3 DEF Counting
<1> QED BY <1>1, CountingOn, PTL
=============================================================================
