---------------------------- MODULE BoundedFifo ----------------------------
(***************************************************************************)
(* What the shared buffer of hw-concurrency/sbuf.c promises its callers: a *)
(* linearizable, bounded, blocking FIFO queue.  A call begins, takes       *)
(* effect atomically at some moment before it returns, and returns.  An    *)
(* insertion takes effect only when the queue has room, a removal only     *)
(* when the queue has an item; until then the caller is blocked.           *)
(*                                                                         *)
(* Sbuf.tla shows that the semaphores of sbuf.c implement this module, and *)
(* PoolProxy.tla composes its own main thread and workers with it.         *)
(***************************************************************************)
EXTENDS Naturals, Sequences

CONSTANTS
    Producers,      \* threads that call sbuf_insert
    Consumers,      \* threads that call sbuf_remove
    Items,          \* what is passed through the buffer (descriptors)
    Zero,           \* the value of a local variable that holds no item yet
    N               \* capacity of the buffer

VARIABLES
    queue,          \* items inserted and not yet removed, oldest first
    phase,          \* phase[t]: where thread t is in its current call
    val             \* val[t]: the item t inserts, or the one it has removed

fifoVars == <<queue, phase, val>>

Threads == Producers \cup Consumers

FifoTypeOK ==
    /\ queue \in Seq(Items)
    /\ Len(queue) <= N
    /\ phase \in [Threads -> {"idle", "called", "done"}]
    /\ val \in [Threads -> Items \cup {Zero}]

Init ==
    /\ queue = <<>>
    /\ phase = [t \in Threads |-> "idle"]
    /\ val = [t \in Threads |-> Zero]

(* A producer calls sbuf_insert(sp, item). *)
BeginInsert(p, item) ==
    /\ phase[p] = "idle"
    /\ phase' = [phase EXCEPT ![p] = "called"]
    /\ val' = [val EXCEPT ![p] = item]
    /\ UNCHANGED queue

(* The item enters the queue at the rear. *)
Insert(p) ==
    /\ phase[p] = "called"
    /\ Len(queue) < N
    /\ queue' = Append(queue, val[p])
    /\ phase' = [phase EXCEPT ![p] = "done"]
    /\ UNCHANGED val

(* A consumer calls sbuf_remove(sp). *)
BeginRemove(c) ==
    /\ phase[c] = "idle"
    /\ phase' = [phase EXCEPT ![c] = "called"]
    /\ UNCHANGED <<queue, val>>

(* The first item of the queue becomes the result of the call. *)
Remove(c) ==
    /\ phase[c] = "called"
    /\ queue # <<>>
    /\ val' = [val EXCEPT ![c] = Head(queue)]
    /\ queue' = Tail(queue)
    /\ phase' = [phase EXCEPT ![c] = "done"]

(* The call returns. *)
Return(t) ==
    /\ phase[t] = "done"
    /\ phase' = [phase EXCEPT ![t] = "idle"]
    /\ UNCHANGED <<queue, val>>

Next ==
    \/ \E p \in Producers : (\E item \in Items : BeginInsert(p, item)) \/ Insert(p)
    \/ \E c \in Consumers : BeginRemove(c) \/ Remove(c)
    \/ \E t \in Threads : Return(t)

Spec == Init /\ [][Next]_fifoVars

=============================================================================
