------------------------------- MODULE Sbuf -------------------------------
(***************************************************************************)
(* The bounded buffer of hw-concurrency/sbuf.c and sbuf.h (the same code   *)
(* is pasted at the top of lab-proxy-threadpool/proxy.c): a ring of n ints *)
(* with two counters, a mutex semaphore and two counting semaphores.       *)
(*                                                                         *)
(* One action is one semaphore operation or one access to the ring.  The   *)
(* statement buf[(++rear)%n] = item is two actions, because another thread *)
(* can run between the load of the counter and the stores: only the mutex  *)
(* keeps them together.  front and rear are C ints that are incremented    *)
(* and never reduced; IntMax is INT_MAX, and the increment past it is the  *)
(* two's complement wrap that the compiler's unchecked addition gives.     *)
(* After it the remainder is negative and an access is outside the ring:   *)
(* nothing is claimed of that, and MaxInserts is at most IntMax.           *)
(***************************************************************************)
EXTENDS Integers, FiniteSets, Sequences

CONSTANTS
    Producers,      \* threads that call sbuf_insert
    Consumers,      \* threads that call sbuf_remove
    Items,          \* ints passed through the buffer
    Zero,           \* what calloc leaves in a slot
    N,              \* sp->n
    IntMax,         \* INT_MAX
    MaxInserts      \* bound on the number of calls of sbuf_insert

ASSUME SbufAssumption ==
    /\ N \in Nat \ {0}
    /\ IntMax \in Nat \ {0}
    /\ MaxInserts \in Nat
    /\ IsFiniteSet(Producers)
    /\ IsFiniteSet(Consumers)
    /\ Producers \cap Consumers = {}

VARIABLES
    buf,            \* the ring: buf[0] .. buf[n-1]
    front, rear,    \* the two counters
    mutex,          \* binary semaphore: 1 when the ring is not locked
    slots, items,   \* counting semaphores
    pc,             \* pc[t]: the next statement of thread t
    val,            \* val[t]: parameter item of insert, local item of remove
    reg,            \* reg[t]: the counter's new value, loaded and not stored
    calls           \* how many times sbuf_insert has been called

vars == <<buf, front, rear, mutex, slots, items, pc, val, reg, calls>>

Threads == Producers \cup Consumers
Slots == 0 .. N-1
Ints == -IntMax-1 .. IntMax

ProducerPC == {"idle", "slots", "mutex", "load", "store", "unlock", "post"}
ConsumerPC == {"idle", "items", "mutex", "load", "take", "unlock", "post"}

TypeOK ==
    /\ buf \in [Slots -> Items \cup {Zero}]
    /\ front \in Ints /\ rear \in Ints
    /\ mutex \in {0, 1}
    /\ slots \in 0 .. N /\ items \in 0 .. N
    /\ pc \in [Threads -> ProducerPC \cup ConsumerPC]
    /\ \A p \in Producers : pc[p] \in ProducerPC
    /\ \A c \in Consumers : pc[c] \in ConsumerPC
    /\ val \in [Threads -> Items \cup {Zero}]
    /\ \A p \in Producers : pc[p] # "idle" => val[p] \in Items
    /\ reg \in [Threads -> Ints]
    /\ calls \in 0 .. MaxInserts

-----------------------------------------------------------------------------
(* sbuf_init(sp, n). *)
Init ==
    /\ buf = [i \in Slots |-> Zero]
    /\ front = 0 /\ rear = 0
    /\ mutex = 1 /\ slots = N /\ items = 0
    /\ pc = [t \in Threads |-> "idle"]
    /\ val = [t \in Threads |-> Zero]
    /\ reg = [t \in Threads |-> 0]
    /\ calls = 0

(* ++x for an int. *)
Incr(x) == IF x = IntMax THEN -IntMax - 1 ELSE x + 1

(* x % n in C, where the remainder has the sign of x. *)
Slot(x) == IF x >= 0 THEN x % N ELSE -((-x) % N)

Goto(t, from, to) ==
    /\ pc[t] = from
    /\ pc' = [pc EXCEPT ![t] = to]

Lock_NoWait(t) ==
    /\ Goto(t, "mutex", "load")
    /\ UNCHANGED <<buf, front, rear, mutex, slots, items, val, reg, calls>>
(* sem_wait(&sp->mutex), the same statement in both functions. *)
Lock(t) ==
    /\ mutex > 0
    /\ mutex' = mutex - 1
    /\ Goto(t, "mutex", "load")
    /\ UNCHANGED <<buf, front, rear, slots, items, val, reg, calls>>

(* sem_post(&sp->mutex), the same statement in both functions. *)
Unlock(t) ==
    /\ Goto(t, "unlock", "post")
    /\ mutex' = mutex + 1
    /\ UNCHANGED <<buf, front, rear, slots, items, val, reg, calls>>

-----------------------------------------------------------------------------
(* sbuf_insert(sp, item). *)
CallInsert(p) ==
    /\ calls < MaxInserts
    /\ calls' = calls + 1
    /\ Goto(p, "idle", "slots")
    /\ \E item \in Items : val' = [val EXCEPT ![p] = item]
    /\ UNCHANGED <<buf, front, rear, mutex, slots, items, reg>>

InsertWait_NoWait(p) ==
    /\ Goto(p, "slots", "mutex")
    /\ UNCHANGED <<buf, front, rear, mutex, slots, items, val, reg, calls>>
(* sem_wait(&sp->slots) *)
InsertWait(p) ==
    /\ slots > 0
    /\ slots' = slots - 1
    /\ Goto(p, "slots", "mutex")
    /\ UNCHANGED <<buf, front, rear, mutex, items, val, reg, calls>>

(* ++sp->rear is computed from the counter's present value ... *)
InsertLoad(p) ==
    /\ p \in Producers
    /\ Goto(p, "load", "store")
    /\ reg' = [reg EXCEPT ![p] = Incr(rear)]
    /\ UNCHANGED <<buf, front, rear, mutex, slots, items, val, calls>>

InsertStore_PostIncrement(p) ==
    /\ Goto(p, "store", "unlock")
    /\ rear' = reg[p]
    /\ buf' = [buf EXCEPT ![Slot(rear)] = val[p]]
    /\ UNCHANGED <<front, mutex, slots, items, val, reg, calls>>
(* ... and stored, and the item goes to that slot. *)
InsertStore(p) ==
    /\ Goto(p, "store", "unlock")
    /\ rear' = reg[p]
    /\ buf' = [buf EXCEPT ![Slot(reg[p])] = val[p]]
    /\ UNCHANGED <<front, mutex, slots, items, val, reg, calls>>

InsertPost_Forgotten(p) ==
    /\ Goto(p, "post", "idle")
    /\ UNCHANGED <<buf, front, rear, mutex, slots, items, val, reg, calls>>
(* sem_post(&sp->items), and the call returns. *)
InsertPost(p) ==
    /\ Goto(p, "post", "idle")
    /\ items' = items + 1
    /\ UNCHANGED <<buf, front, rear, mutex, slots, val, reg, calls>>

InsertStep(p) ==
    \/ InsertWait(p) \/ Lock(p) \/ InsertLoad(p) \/ InsertStore(p)
    \/ Unlock(p) \/ InsertPost(p)

-----------------------------------------------------------------------------
(* sbuf_remove(sp). *)
CallRemove(c) ==
    /\ Goto(c, "idle", "items")
    /\ UNCHANGED <<buf, front, rear, mutex, slots, items, val, reg, calls>>

(* sem_wait(&sp->items) *)
RemoveWait(c) ==
    /\ items > 0
    /\ items' = items - 1
    /\ Goto(c, "items", "mutex")
    /\ UNCHANGED <<buf, front, rear, mutex, slots, val, reg, calls>>

RemoveLoad(c) ==
    /\ c \in Consumers
    /\ Goto(c, "load", "take")
    /\ reg' = [reg EXCEPT ![c] = Incr(front)]
    /\ UNCHANGED <<buf, front, rear, mutex, slots, items, val, calls>>

(* item = sp->buf[(++sp->front)%(sp->n)] *)
RemoveTake(c) ==
    /\ Goto(c, "take", "unlock")
    /\ front' = reg[c]
    /\ val' = [val EXCEPT ![c] = buf[Slot(reg[c])]]
    /\ UNCHANGED <<buf, rear, mutex, slots, items, reg, calls>>

RemovePost_WrongSemaphore(c) ==
    /\ Goto(c, "post", "idle")
    /\ items' = items + 1
    /\ UNCHANGED <<buf, front, rear, mutex, slots, val, reg, calls>>
RemovePost_Forgotten(c) ==
    /\ Goto(c, "post", "idle")
    /\ UNCHANGED <<buf, front, rear, mutex, slots, items, val, reg, calls>>
(* sem_post(&sp->slots), and the call returns the item. *)
RemovePost(c) ==
    /\ Goto(c, "post", "idle")
    /\ slots' = slots + 1
    /\ UNCHANGED <<buf, front, rear, mutex, items, val, reg, calls>>

RemoveStep(c) ==
    \/ CallRemove(c) \/ RemoveWait(c) \/ Lock(c) \/ RemoveLoad(c)
    \/ RemoveTake(c) \/ Unlock(c) \/ RemovePost(c)

Next ==
    \/ \E p \in Producers : CallInsert(p) \/ InsertStep(p)
    \/ \E c \in Consumers : RemoveStep(c)

Spec == Init /\ [][Next]_vars

(* Every thread inside the buffer code keeps running, and a consumer that   *)
(* has its item comes back for another, as the loops of handle_clients and  *)
(* detach_thread do.  Nothing obliges a producer to call.                   *)
FairSpec ==
    /\ Spec
    /\ \A p \in Producers : WF_vars(InsertStep(p))
    /\ \A c \in Consumers : WF_vars(RemoveStep(c))

-----------------------------------------------------------------------------
(* The threads of S whose next statement is one of A. *)
At(f, S, A) == {t \in S : f[t] \in A}

Locked == At(pc, Threads, {"load", "store", "take", "unlock"})
Waiting == At(pc, Producers, {"slots", "mutex", "load", "store"})
Reserving == At(pc, Producers, {"mutex", "load", "store"})
Announcing == At(pc, Producers, {"unlock", "post"})
Claiming == At(pc, Consumers, {"mutex", "load", "take"})
Releasing == At(pc, Consumers, {"unlock", "post"})

(* The ring holds rear - front items (sbuf.h: the first is in slot front+1, *)
(* the last in slot rear; sbuf.c:10: empty iff front = rear).               *)
Size == rear - front
Contents == [i \in 1 .. Size |-> buf[Slot(front + i)]]

(* The mutex protects every access to the ring and its counters             *)
(* (sbuf.h:13): at most one thread is between lock and unlock, and the      *)
(* semaphore is 0 exactly then.                                             *)
MutualExclusion ==
    \/ mutex = 1 /\ Locked = {}
    \/ mutex = 0 /\ \E t \in Threads : Locked = {t}

(* No permit of the two counting semaphores is lost or invented, whatever   *)
(* point each thread has reached between its wait and its post: a slot is   *)
(* free, reserved by a producer, full, or emptied and not yet given back;   *)
(* an item is announced, claimed, or stored and not yet announced.          *)
Accounting ==
    /\ slots + Cardinality(Reserving) + Size + Cardinality(Releasing) = N
    /\ items + Cardinality(Claiming) = Size - Cardinality(Announcing)

(* The slot a producer is about to fill holds no item that is still to be   *)
(* removed, and the slot a consumer is about to empty does hold one.        *)
NoOverwrite ==
    LET Full == {Slot(front + i) : i \in 1 .. Size} IN
    /\ \A p \in Producers : pc[p] = "store" => Slot(reg[p]) \notin Full
    /\ \A c \in Consumers : pc[c] = "take" => Slot(reg[c]) \in Full

-----------------------------------------------------------------------------
(* The buffer implements the bounded FIFO queue.  A call takes effect when  *)
(* it stores its counter, inside the lock, not when it posts or returns.    *)
Phase == [t \in Threads |->
            CASE pc[t] = "idle" -> "idle"
              [] pc[t] \in {"unlock", "post"} -> "done"
              [] OTHER -> "called"]

Fifo == INSTANCE BoundedFifo WITH queue <- Contents, phase <- Phase

(* Every behaviour of the semaphores and the ring is one of the queue.      *)
ImplementsFifo == Fifo!Spec

(* Every call of sbuf_insert returns, as long as the consumers come back.   *)
InsertReturns == \A p \in Producers : (pc[p] = "slots") ~> (pc[p] = "idle")

(* Every item stored is removed: no wakeup of a consumer is lost.           *)
ItemsDelivered == \A k \in 1 .. MaxInserts : (rear >= k) ~> (front >= k)

=============================================================================
