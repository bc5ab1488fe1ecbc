------------------------------ MODULE EchoPool -----------------------------
(* echoservert_pre.c and echo_cnt.c: a pool of threads that take descriptors *)
(* from the shared buffer, which is taken to be the queue that Sbuf is shown *)
(* to implement, and count all bytes received.                               *)
EXTENDS EchoBase

CONSTANTS
    SbufSize,
    IntMax          \* INT_MAX

ASSUME IntAssumption == IntMax \in Nat

Uninit == "uninitialised"
Bad == "bad"            \* -1 in place of a descriptor

(* pthread_create may fail for some threads, unnoticed; sbuf_init.          *)
PoolListens ==
    /\ sys.design = "pool" /\ Listens
    /\ \E r \in SUBSET Workers :
         /\ Cardinality(r) = Min({sys.tasks, Cardinality(Workers)})
         /\ pool' = [pool EXCEPT !.running = r, !.mutex = Uninit]
    /\ UNCHANGED <<kids, ev>>

PoolAccept ==
    /\ sys.design = "pool" /\ main.at = "accept"
    /\ \/ /\ FdsLeft /\ Accepts
          /\ main' = [at |-> "insert", fd |-> Head(backlog)]
       \/ /\ ~FdsLeft
          /\ main' = [at |-> "insert", fd |-> Bad]
          /\ UNCHANGED <<connVars, sys>>
    /\ UNCHANGED <<task, kids, pool, ev>>

PoolInsert ==
    /\ sys.design = "pool" /\ main.at = "insert" /\ Len(pool.queue) < SbufSize
    /\ pool' = [pool EXCEPT !.queue = Append(@, main.fd)]
    /\ main' = [at |-> "accept", fd |-> None]
    /\ UNCHANGED <<connVars, sys, task, kids, ev>>

Take(w) ==
    /\ w \in pool.running /\ pool.holds[w] = None /\ pool.queue # <<>>
    /\ LET fd == Head(pool.queue) IN
         /\ pool' = [pool EXCEPT !.queue = Tail(@), !.holds[w] = fd]
         /\ task' = IF fd = Bad THEN task ELSE [task EXCEPT ![fd] = [NoTask EXCEPT !.at = "once"]]
    /\ UNCHANGED <<connVars, sys, main, kids, ev>>

Holding(w) == w \in pool.running /\ pool.holds[w] \in Clients
At(w, at) == Holding(w) /\ task[pool.holds[w]].at = at
Goes(w, at) == SetTask(pool.holds[w], [task[pool.holds[w]] EXCEPT !.at = at])
Quiet == UNCHANGED <<connVars, sys, main, kids, ev>>

(* init_echo_cnt runs in the first call only.                               *)
Pthread_once(w) ==
    /\ At(w, "once") /\ Goes(w, "read")
    /\ pool' = IF pool.mutex = Uninit THEN [pool EXCEPT !.mutex = None, !.byte_cnt = 0] ELSE pool
    /\ Quiet

(* Mutant: P does not wait.                                                 *)
P_NoWait(w) ==
    /\ At(w, "P") /\ Goes(w, "load")
    /\ pool' = [pool EXCEPT !.mutex = w]
    /\ Quiet

P(w) ==
    /\ At(w, "P") /\ pool.mutex = None /\ Goes(w, "load")
    /\ pool' = [pool EXCEPT !.mutex = w]
    /\ Quiet

(* What an int holds of a sum: the machine's addition wraps around.         *)
AsInt(x) ==
    LET r == x % (2 * IntMax + 2) IN IF r > IntMax THEN r - (2 * IntMax + 2) ELSE r

Load(w) ==
    /\ At(w, "load")
    /\ LET c == pool.holds[w] IN
         SetTask(c, [task[c] EXCEPT !.at = "store",
                                    !.reg = AsInt(pool.byte_cnt + Len(task[c].todo))])
    /\ UNCHANGED pool /\ Quiet

Store(w) ==
    /\ At(w, "store")
    /\ pool' = [pool EXCEPT !.byte_cnt = task[pool.holds[w]].reg]
    /\ Goes(w, "V")
    /\ Quiet

V(w) ==
    /\ At(w, "V") /\ Goes(w, "write")
    /\ pool' = [pool EXCEPT !.mutex = None]
    /\ Quiet

echo_cnt(w) ==
    \/ Pthread_once(w) \/ P(w) \/ Load(w) \/ Store(w) \/ V(w)
    \/ /\ Holding(w)
       /\ LET c == pool.holds[w] IN Rio_readlineb(c, "P") \/ RioEnd(c, "P") \/ rio_writen(c)
       /\ UNCHANGED <<kids, pool, ev>>

(* A failing call, or the descriptor -1, ends the process.                  *)
PoolFails(w) ==
    /\ w \in pool.running
    /\ pool.holds[w] = Bad \/ (Holding(w) /\ Fails(pool.holds[w]))
    /\ Exit
    /\ pool' = [pool EXCEPT !.running = {}]
    /\ UNCHANGED <<kids, ev>>

PoolCloses(w) ==
    /\ At(w, "close")
    /\ conn' = Without(pool.holds[w], "main")
    /\ SetTask(pool.holds[w], NoTask)
    /\ pool' = [pool EXCEPT !.holds[w] = None]
    /\ UNCHANGED <<kind, msg, backlog, sys, main, kids, ev>>

PoolMain == PoolListens \/ PoolAccept \/ PoolInsert
handle_clients(w) == Take(w) \/ echo_cnt(w) \/ PoolFails(w) \/ PoolCloses(w)
=============================================================================
