----------------------------- MODULE SbufProofs -----------------------------
(***************************************************************************)
(* Proofs about Sbuf, for any finite sets of producers and consumers, any  *)
(* capacity and any number of insertions up to INT_MAX.                    *)
(*                                                                         *)
(* TypeOK and MutualExclusion are not inductive: that slots and items stay *)
(* within 0 .. n and the counters do not cross needs the permits to be     *)
(* counted (Accounting), and that a store writes the counter's successor   *)
(* needs the lock (RegOK).  IInv is their conjunction.                     *)
(***************************************************************************)
EXTENDS Sbuf, FiniteSetTheorems, SequenceTheorems, TLAPS

(* A loaded counter is still current when it is stored. *)
RegOK ==
    /\ \A p \in Producers : pc[p] = "store" => reg[p] = rear + 1
    /\ \A c \in Consumers : pc[c] = "take" => reg[c] = front + 1

(* The counters never wrap: each insertion that has begun is stored once. *)
CountersOK ==
    /\ front \in Nat /\ rear \in Nat /\ front <= rear
    /\ rear + Cardinality(Waiting) = calls

IInv == TypeOK /\ MutualExclusion /\ Accounting /\ RegOK /\ CountersOK

-----------------------------------------------------------------------------
(* Counting threads by their program counter. *)

LEMMA AtFinite ==
    ASSUME NEW f, NEW S, NEW A, IsFiniteSet(S)
    PROVE  IsFiniteSet(At(f, S, A)) /\ Cardinality(At(f, S, A)) \in Nat
<1>1. At(f, S, A) \subseteq S
  BY DEF At
<1>2. IsFiniteSet(At(f, S, A))
  BY <1>1, FS_Subset
<1> QED BY <1>2, FS_CardinalityType

LEMMA AtSame ==
    ASSUME NEW f, NEW g, NEW S, NEW A, \A y \in S : g[y] \in A <=> f[y] \in A
    PROVE  At(g, S, A) = At(f, S, A)
BY DEF At

LEMMA CountedOne ==
    ASSUME NEW f, NEW S, NEW A, IsFiniteSet(S), NEW x \in At(f, S, A)
    PROVE  Cardinality(At(f, S, A)) >= 1
BY AtFinite, FS_EmptySet

(* How a count of the threads at A changes when one goes from pc to pc.      *)
Shifts(before, after, from, to, A) ==
    /\ (from \in A <=> to \in A) => after = before
    /\ (from \notin A /\ to \in A) => after = before + 1
    /\ (from \in A /\ to \notin A) => after = before - 1

LEMMA AtMove ==
    ASSUME NEW f, NEW g, NEW S, NEW A, NEW x \in S, IsFiniteSet(S),
           \A y \in S \ {x} : g[y] = f[y]
    PROVE  Shifts(Cardinality(At(f, S, A)), Cardinality(At(g, S, A)), f[x], g[x], A)
<1>0. IsFiniteSet(At(f, S, A)) /\ Cardinality(At(f, S, A)) \in Nat
  BY AtFinite
<1>1. CASE f[x] \in A <=> g[x] \in A
  <2>1. At(g, S, A) = At(f, S, A)
    BY <1>1, AtSame
  <2> QED BY <2>1, <1>1 DEF Shifts
<1>2. CASE f[x] \notin A /\ g[x] \in A
  <2>1. At(g, S, A) = At(f, S, A) \cup {x} /\ x \notin At(f, S, A)
    BY <1>2 DEF At
  <2>2. Cardinality(At(f, S, A) \cup {x}) = Cardinality(At(f, S, A)) + 1
    BY <2>1, <1>0, FS_AddElement
  <2> QED BY <2>1, <2>2, <1>2 DEF Shifts
<1>3. CASE f[x] \in A /\ g[x] \notin A
  <2>1. At(g, S, A) = At(f, S, A) \ {x} /\ x \in At(f, S, A)
    BY <1>3 DEF At
  <2>2. Cardinality(At(f, S, A) \ {x}) = Cardinality(At(f, S, A)) - 1
    BY <2>1, <1>0, FS_RemoveElement
  <2> QED BY <2>1, <2>2, <1>3 DEF Shifts
<1> QED BY <1>1, <1>2, <1>3

LEMMA CountsNat ==
    /\ Cardinality(Waiting) \in Nat /\ Cardinality(Reserving) \in Nat
    /\ Cardinality(Announcing) \in Nat /\ Cardinality(Claiming) \in Nat
    /\ Cardinality(Releasing) \in Nat
BY AtFinite, SbufAssumption DEF Waiting, Reserving, Announcing, Claiming, Releasing

LEMMA CountsNatPrime ==
    /\ Cardinality(Waiting') \in Nat /\ Cardinality(Reserving') \in Nat
    /\ Cardinality(Announcing') \in Nat /\ Cardinality(Claiming') \in Nat
    /\ Cardinality(Releasing') \in Nat
BY AtFinite, SbufAssumption DEF Waiting, Reserving, Announcing, Claiming, Releasing

LEMMA ProducerMove ==
    ASSUME TypeOK, NEW p \in Producers, NEW to, pc' = [pc EXCEPT ![p] = to]
    PROVE  /\ Shifts(Cardinality(Waiting), Cardinality(Waiting'), pc[p], to,
                     {"slots", "mutex", "load", "store"})
           /\ Shifts(Cardinality(Reserving), Cardinality(Reserving'), pc[p], to,
                     {"mutex", "load", "store"})
           /\ Shifts(Cardinality(Announcing), Cardinality(Announcing'), pc[p], to,
                     {"unlock", "post"})
           /\ Claiming' = Claiming /\ Releasing' = Releasing
<1>1. pc'[p] = to /\ \A t \in Consumers : pc'[t] = pc[t]
  BY SbufAssumption DEF TypeOK, Threads
<1>2. p \in Producers /\ IsFiniteSet(Producers) /\ \A t \in Producers \ {p} : pc'[t] = pc[t]
  BY SbufAssumption DEF TypeOK, Threads
<1>3. Claiming' = Claiming /\ Releasing' = Releasing
  BY ONLY <1>1, AtSame DEF Claiming, Releasing
<1>4. \A A : Shifts(Cardinality(At(pc, Producers, A)),
                    Cardinality(At(pc', Producers, A)), pc[p], pc'[p], A)
  BY ONLY <1>2, AtMove
<1> QED BY ONLY <1>1, <1>3, <1>4 DEF Waiting, Reserving, Announcing

LEMMA ConsumerMove ==
    ASSUME TypeOK, NEW c \in Consumers, NEW to, pc' = [pc EXCEPT ![c] = to]
    PROVE  /\ Shifts(Cardinality(Claiming), Cardinality(Claiming'), pc[c], to,
                     {"mutex", "load", "take"})
           /\ Shifts(Cardinality(Releasing), Cardinality(Releasing'), pc[c], to,
                     {"unlock", "post"})
           /\ Waiting' = Waiting /\ Reserving' = Reserving /\ Announcing' = Announcing
<1>1. pc'[c] = to /\ \A t \in Producers : pc'[t] = pc[t]
  BY SbufAssumption DEF TypeOK, Threads
<1>2. c \in Consumers /\ IsFiniteSet(Consumers) /\ \A t \in Consumers \ {c} : pc'[t] = pc[t]
  BY SbufAssumption DEF TypeOK, Threads
<1>3. Waiting' = Waiting /\ Reserving' = Reserving /\ Announcing' = Announcing
  BY ONLY <1>1, AtSame DEF Waiting, Reserving, Announcing
<1>4. \A A : Shifts(Cardinality(At(pc, Consumers, A)),
                    Cardinality(At(pc', Consumers, A)), pc[c], pc'[c], A)
  BY ONLY <1>2, AtMove
<1> QED BY ONLY <1>1, <1>3, <1>4 DEF Claiming, Releasing

(* The counts after each of the moves that the code makes.                  *)
LEMMA ProducerCounts ==
    ASSUME TypeOK, NEW p \in Producers, NEW to, pc' = [pc EXCEPT ![p] = to]
    PROVE  LET W == Cardinality(Waiting)  R == Cardinality(Reserving)
               A == Cardinality(Announcing)
               Now(w, r, a) == /\ Cardinality(Waiting') = w
                               /\ Cardinality(Reserving') = r
                               /\ Cardinality(Announcing') = a
           IN  /\ pc[p] = "idle" /\ to = "slots" => Now(W + 1, R, A)
               /\ pc[p] = "slots" /\ to = "mutex" => Now(W, R + 1, A)
               /\ pc[p] = "mutex" /\ to = "load" => Now(W, R, A)
               /\ pc[p] = "load" /\ to = "store" => Now(W, R, A)
               /\ pc[p] = "store" /\ to = "unlock" => Now(W - 1, R - 1, A + 1)
               /\ pc[p] = "unlock" /\ to = "post" => Now(W, R, A)
               /\ pc[p] = "post" /\ to = "idle" => Now(W, R, A - 1)
               /\ Claiming' = Claiming /\ Releasing' = Releasing
<1> DEFINE S(before, after, A) == Shifts(before, after, pc[p], to, A)
<1>1. /\ S(Cardinality(Waiting), Cardinality(Waiting'), {"slots", "mutex", "load", "store"})
      /\ S(Cardinality(Reserving), Cardinality(Reserving'), {"mutex", "load", "store"})
      /\ S(Cardinality(Announcing), Cardinality(Announcing'), {"unlock", "post"})
      /\ Claiming' = Claiming /\ Releasing' = Releasing
  BY ProducerMove
<1> QED BY ONLY <1>1 DEF Shifts

LEMMA ConsumerCounts ==
    ASSUME TypeOK, NEW c \in Consumers, NEW to, pc' = [pc EXCEPT ![c] = to]
    PROVE  LET C == Cardinality(Claiming)  R == Cardinality(Releasing)
               Now(k, r) == Cardinality(Claiming') = k /\ Cardinality(Releasing') = r
           IN  /\ pc[c] = "idle" /\ to = "items" => Now(C, R)
               /\ pc[c] = "items" /\ to = "mutex" => Now(C + 1, R)
               /\ pc[c] = "mutex" /\ to = "load" => Now(C, R)
               /\ pc[c] = "load" /\ to = "take" => Now(C, R)
               /\ pc[c] = "take" /\ to = "unlock" => Now(C - 1, R + 1)
               /\ pc[c] = "unlock" /\ to = "post" => Now(C, R)
               /\ pc[c] = "post" /\ to = "idle" => Now(C, R - 1)
               /\ Waiting' = Waiting /\ Reserving' = Reserving /\ Announcing' = Announcing
<1> DEFINE S(before, after, A) == Shifts(before, after, pc[c], to, A)
<1>1. /\ S(Cardinality(Claiming), Cardinality(Claiming'), {"mutex", "load", "take"})
      /\ S(Cardinality(Releasing), Cardinality(Releasing'), {"unlock", "post"})
      /\ Waiting' = Waiting /\ Reserving' = Reserving /\ Announcing' = Announcing
  BY ConsumerMove
<1> QED BY ONLY <1>1 DEF Shifts

(* The lock holders change only where a step enters or leaves the lock.      *)
LEMMA LockedMove ==
    ASSUME TypeOK, NEW t \in Threads, NEW to, pc' = [pc EXCEPT ![t] = to]
    PROVE  Locked' = IF to \in {"load", "store", "take", "unlock"}
                     THEN Locked \cup {t} ELSE Locked \ {t}
BY DEF TypeOK, Locked, At

LEMMA NotLocked ==
    ASSUME TypeOK, NEW t \in Threads, NEW to, pc' = [pc EXCEPT ![t] = to],
           pc[t] \in {"load", "store", "take", "unlock"}
             <=> to \in {"load", "store", "take", "unlock"}
    PROVE  Locked' = Locked
BY DEF TypeOK, Locked, At

-----------------------------------------------------------------------------
(* The invariant holds initially and every action preserves it.             *)

LEMMA InitInv == ASSUME Init PROVE IInv
<1>1. \A S, A : "idle" \notin A /\ S \subseteq Threads => At(pc, S, A) = {}
  BY DEF Init, At
<1>2. /\ Locked = {} /\ Waiting = {} /\ Reserving = {} /\ Announcing = {}
      /\ Claiming = {} /\ Releasing = {}
  BY <1>1 DEF Locked, Waiting, Reserving, Announcing, Claiming, Releasing, Threads
<1>3. TypeOK
  BY SbufAssumption DEF Init, TypeOK, Threads, Slots, Ints, ProducerPC, ConsumerPC
<1>4. MutualExclusion
  BY <1>2 DEF Init, MutualExclusion
<1>5. Accounting /\ CountersOK
  BY <1>2, FS_EmptySet, SbufAssumption DEF Init, Accounting, CountersOK, Size
<1>6. RegOK
  BY DEF Init, RegOK, Threads
<1> QED BY <1>3, <1>4, <1>5, <1>6 DEF IInv

LEMMA IncrInts ==
    ASSUME NEW x \in Ints
    PROVE  Incr(x) \in Ints
BY SbufAssumption DEF Incr, Ints

(* The counts at the two loads leave room for the increment: a producer at  *)
(* "load" is an insertion that has begun and is not yet stored, a consumer  *)
(* at "load" has claimed an item that is in the ring.                       *)
LEMMA InsertIncr ==
    ASSUME IInv, MaxInserts <= IntMax, NEW p \in Producers, pc[p] \in {"load", "store"}
    PROVE  Incr(rear) = rear + 1 /\ Size < N
<1>1. p \in Waiting /\ p \in Reserving
  BY DEF Waiting, Reserving, At
<1>2. Cardinality(Waiting) >= 1 /\ Cardinality(Reserving) >= 1
  BY <1>1, CountedOne, SbufAssumption DEF Waiting, Reserving
<1> QED BY <1>2, CountsNat, SbufAssumption
        DEF IInv, TypeOK, CountersOK, Accounting, Size, Incr

LEMMA RemoveIncr ==
    ASSUME IInv, MaxInserts <= IntMax, NEW c \in Consumers, pc[c] \in {"load", "take"}
    PROVE  Incr(front) = front + 1 /\ front < rear
<1>1. c \in Claiming
  BY DEF Claiming, At
<1>2. Cardinality(Claiming) >= 1
  BY <1>1, CountedOne, SbufAssumption DEF Claiming
<1> QED BY <1>2, CountsNat, SbufAssumption
        DEF IInv, TypeOK, CountersOK, Accounting, Size, Incr

LEMMA CallInsertInv ==
    ASSUME IInv, NEW p \in Producers, CallInsert(p)
    PROVE  IInv'
<1>1. /\ pc[p] = "idle" /\ pc' = [pc EXCEPT ![p] = "slots"]
      /\ calls < MaxInserts /\ calls' = calls + 1
      /\ \E item \in Items : val' = [val EXCEPT ![p] = item]
      /\ UNCHANGED <<buf, front, rear, mutex, slots, items, reg>>
  BY DEF CallInsert, Goto
<1>2. /\ Cardinality(Waiting') = Cardinality(Waiting) + 1
      /\ Cardinality(Reserving') = Cardinality(Reserving)
      /\ Cardinality(Announcing') = Cardinality(Announcing)
      /\ Claiming' = Claiming /\ Releasing' = Releasing
  BY <1>1, ProducerCounts DEF IInv
<1>3. Locked' = Locked
  BY <1>1, NotLocked DEF IInv, Threads
<1>4. Accounting' /\ CountersOK'
  BY <1>1, <1>2, CountsNat, SbufAssumption DEF IInv, TypeOK, Accounting, CountersOK, Size
<1>5. MutualExclusion'
  BY <1>1, <1>3 DEF IInv, MutualExclusion
<1>6. TypeOK'
  BY <1>1, SbufAssumption DEF IInv, TypeOK, Threads, ProducerPC, ConsumerPC
<1>7. RegOK'
  BY <1>1, SbufAssumption DEF IInv, TypeOK, RegOK, Threads
<1> QED BY <1>4, <1>5, <1>6, <1>7 DEF IInv

LEMMA InsertWaitInv ==
    ASSUME IInv, NEW p \in Producers, InsertWait(p)
    PROVE  IInv'
<1>1. /\ pc[p] = "slots" /\ pc' = [pc EXCEPT ![p] = "mutex"]
      /\ slots > 0 /\ slots' = slots - 1
      /\ UNCHANGED <<buf, front, rear, mutex, items, val, reg, calls>>
  BY DEF InsertWait, Goto
<1>2. /\ Cardinality(Waiting') = Cardinality(Waiting)
      /\ Cardinality(Reserving') = Cardinality(Reserving) + 1
      /\ Cardinality(Announcing') = Cardinality(Announcing)
      /\ Claiming' = Claiming /\ Releasing' = Releasing
  BY <1>1, ProducerCounts DEF IInv
<1>3. Locked' = Locked
  BY <1>1, NotLocked DEF IInv, Threads
<1>4. Accounting' /\ CountersOK'
  BY <1>1, <1>2, CountsNat, SbufAssumption DEF IInv, TypeOK, Accounting, CountersOK, Size
<1>5. MutualExclusion'
  BY <1>1, <1>3 DEF IInv, MutualExclusion
<1>6. TypeOK'
  BY <1>1, SbufAssumption DEF IInv, TypeOK, Threads, ProducerPC, ConsumerPC
<1>7. RegOK'
  BY <1>1, SbufAssumption DEF IInv, TypeOK, RegOK, Threads
<1> QED BY <1>4, <1>5, <1>6, <1>7 DEF IInv

LEMMA InsertLoadInv ==
    ASSUME IInv, NEW p \in Producers, InsertLoad(p), MaxInserts <= IntMax
    PROVE  IInv'
<1>1. /\ pc[p] = "load" /\ pc' = [pc EXCEPT ![p] = "store"]
      /\ reg' = [reg EXCEPT ![p] = Incr(rear)]
      /\ UNCHANGED <<buf, front, rear, mutex, slots, items, val, calls>>
  BY DEF InsertLoad, Goto
<1>2. /\ Cardinality(Waiting') = Cardinality(Waiting)
      /\ Cardinality(Reserving') = Cardinality(Reserving)
      /\ Cardinality(Announcing') = Cardinality(Announcing)
      /\ Claiming' = Claiming /\ Releasing' = Releasing
  BY <1>1, ProducerCounts DEF IInv
<1>3. Locked' = Locked
  BY <1>1, NotLocked DEF IInv, Threads
<1>4. Accounting' /\ CountersOK'
  BY <1>1, <1>2, CountsNat, SbufAssumption DEF IInv, TypeOK, Accounting, CountersOK, Size
<1>5. MutualExclusion'
  BY <1>1, <1>3 DEF IInv, MutualExclusion
<1>6. TypeOK'
  <2>1. Incr(rear) \in Ints
    BY IncrInts DEF IInv, TypeOK
  <2> QED BY <1>1, <2>1, SbufAssumption DEF IInv, TypeOK, Threads, ProducerPC, ConsumerPC
<1>7. RegOK'
  <2>1. Incr(rear) = rear + 1
    BY <1>1, InsertIncr DEF IInv
  <2> QED BY <1>1, <2>1, SbufAssumption DEF IInv, TypeOK, RegOK, Threads
<1> QED BY <1>4, <1>5, <1>6, <1>7 DEF IInv

LEMMA InsertPostInv ==
    ASSUME IInv, NEW p \in Producers, InsertPost(p)
    PROVE  IInv'
<1>1. /\ pc[p] = "post" /\ pc' = [pc EXCEPT ![p] = "idle"]
      /\ items' = items + 1
      /\ UNCHANGED <<buf, front, rear, mutex, slots, val, reg, calls>>
  BY DEF InsertPost, Goto
<1>2. /\ Cardinality(Waiting') = Cardinality(Waiting)
      /\ Cardinality(Reserving') = Cardinality(Reserving)
      /\ Cardinality(Announcing') = Cardinality(Announcing) - 1
      /\ Claiming' = Claiming /\ Releasing' = Releasing
  BY <1>1, ProducerCounts DEF IInv
<1>3. Locked' = Locked
  BY <1>1, NotLocked DEF IInv, Threads
<1>4. Accounting' /\ CountersOK'
  BY <1>1, <1>2, CountsNat, SbufAssumption DEF IInv, TypeOK, Accounting, CountersOK, Size
<1>5. MutualExclusion'
  BY <1>1, <1>3 DEF IInv, MutualExclusion
<1>6. TypeOK'
  <2>1. items' \in 0 .. N
    BY <1>1, <1>2, <1>4, CountsNat, CountsNatPrime, SbufAssumption
       DEF IInv, TypeOK, Accounting, CountersOK, Size
  <2> QED BY <1>1, <2>1, SbufAssumption
          DEF IInv, TypeOK, Threads, ProducerPC, ConsumerPC
<1>7. RegOK'
  BY <1>1, SbufAssumption DEF IInv, TypeOK, RegOK, Threads
<1> QED BY <1>4, <1>5, <1>6, <1>7 DEF IInv

LEMMA CallRemoveInv ==
    ASSUME IInv, NEW c \in Consumers, CallRemove(c)
    PROVE  IInv'
<1>1. /\ pc[c] = "idle" /\ pc' = [pc EXCEPT ![c] = "items"]
      /\ UNCHANGED <<buf, front, rear, mutex, slots, items, val, reg, calls>>
  BY DEF CallRemove, Goto
<1>2. /\ Cardinality(Claiming') = Cardinality(Claiming)
      /\ Cardinality(Releasing') = Cardinality(Releasing)
      /\ Waiting' = Waiting /\ Reserving' = Reserving /\ Announcing' = Announcing
  BY <1>1, ConsumerCounts DEF IInv
<1>3. Locked' = Locked
  BY <1>1, NotLocked DEF IInv, Threads
<1>4. Accounting' /\ CountersOK'
  BY <1>1, <1>2, CountsNat, SbufAssumption DEF IInv, TypeOK, Accounting, CountersOK, Size
<1>5. MutualExclusion'
  BY <1>1, <1>3 DEF IInv, MutualExclusion
<1>6. TypeOK'
  BY <1>1, SbufAssumption DEF IInv, TypeOK, Threads, ProducerPC, ConsumerPC
<1>7. RegOK'
  BY <1>1, SbufAssumption DEF IInv, TypeOK, RegOK, Threads
<1> QED BY <1>4, <1>5, <1>6, <1>7 DEF IInv

LEMMA RemoveWaitInv ==
    ASSUME IInv, NEW c \in Consumers, RemoveWait(c)
    PROVE  IInv'
<1>1. /\ pc[c] = "items" /\ pc' = [pc EXCEPT ![c] = "mutex"]
      /\ items > 0 /\ items' = items - 1
      /\ UNCHANGED <<buf, front, rear, mutex, slots, val, reg, calls>>
  BY DEF RemoveWait, Goto
<1>2. /\ Cardinality(Claiming') = Cardinality(Claiming) + 1
      /\ Cardinality(Releasing') = Cardinality(Releasing)
      /\ Waiting' = Waiting /\ Reserving' = Reserving /\ Announcing' = Announcing
  BY <1>1, ConsumerCounts DEF IInv
<1>3. Locked' = Locked
  BY <1>1, NotLocked DEF IInv, Threads
<1>4. Accounting' /\ CountersOK'
  BY <1>1, <1>2, CountsNat, SbufAssumption DEF IInv, TypeOK, Accounting, CountersOK, Size
<1>5. MutualExclusion'
  BY <1>1, <1>3 DEF IInv, MutualExclusion
<1>6. TypeOK'
  BY <1>1, SbufAssumption DEF IInv, TypeOK, Threads, ProducerPC, ConsumerPC
<1>7. RegOK'
  BY <1>1, SbufAssumption DEF IInv, TypeOK, RegOK, Threads
<1> QED BY <1>4, <1>5, <1>6, <1>7 DEF IInv

LEMMA RemoveLoadInv ==
    ASSUME IInv, NEW c \in Consumers, RemoveLoad(c), MaxInserts <= IntMax
    PROVE  IInv'
<1>1. /\ pc[c] = "load" /\ pc' = [pc EXCEPT ![c] = "take"]
      /\ reg' = [reg EXCEPT ![c] = Incr(front)]
      /\ UNCHANGED <<buf, front, rear, mutex, slots, items, val, calls>>
  BY DEF RemoveLoad, Goto
<1>2. /\ Cardinality(Claiming') = Cardinality(Claiming)
      /\ Cardinality(Releasing') = Cardinality(Releasing)
      /\ Waiting' = Waiting /\ Reserving' = Reserving /\ Announcing' = Announcing
  BY <1>1, ConsumerCounts DEF IInv
<1>3. Locked' = Locked
  BY <1>1, NotLocked DEF IInv, Threads
<1>4. Accounting' /\ CountersOK'
  BY <1>1, <1>2, CountsNat, SbufAssumption DEF IInv, TypeOK, Accounting, CountersOK, Size
<1>5. MutualExclusion'
  BY <1>1, <1>3 DEF IInv, MutualExclusion
<1>6. TypeOK'
  <2>1. Incr(front) \in Ints
    BY IncrInts DEF IInv, TypeOK
  <2> QED BY <1>1, <2>1, SbufAssumption DEF IInv, TypeOK, Threads, ProducerPC, ConsumerPC
<1>7. RegOK'
  <2>1. Incr(front) = front + 1
    BY <1>1, RemoveIncr DEF IInv
  <2> QED BY <1>1, <2>1, SbufAssumption DEF IInv, TypeOK, RegOK, Threads
<1> QED BY <1>4, <1>5, <1>6, <1>7 DEF IInv

LEMMA RemovePostInv ==
    ASSUME IInv, NEW c \in Consumers, RemovePost(c)
    PROVE  IInv'
<1>1. /\ pc[c] = "post" /\ pc' = [pc EXCEPT ![c] = "idle"]
      /\ slots' = slots + 1
      /\ UNCHANGED <<buf, front, rear, mutex, items, val, reg, calls>>
  BY DEF RemovePost, Goto
<1>2. /\ Cardinality(Claiming') = Cardinality(Claiming)
      /\ Cardinality(Releasing') = Cardinality(Releasing) - 1
      /\ Waiting' = Waiting /\ Reserving' = Reserving /\ Announcing' = Announcing
  BY <1>1, ConsumerCounts DEF IInv
<1>3. Locked' = Locked
  BY <1>1, NotLocked DEF IInv, Threads
<1>4. Accounting' /\ CountersOK'
  BY <1>1, <1>2, CountsNat, SbufAssumption DEF IInv, TypeOK, Accounting, CountersOK, Size
<1>5. MutualExclusion'
  BY <1>1, <1>3 DEF IInv, MutualExclusion
<1>6. TypeOK'
  <2>1. slots' \in 0 .. N
    BY <1>1, <1>2, <1>4, CountsNat, CountsNatPrime, SbufAssumption
       DEF IInv, TypeOK, Accounting, CountersOK, Size
  <2> QED BY <1>1, <2>1, SbufAssumption
          DEF IInv, TypeOK, Threads, ProducerPC, ConsumerPC
<1>7. RegOK'
  BY <1>1, SbufAssumption DEF IInv, TypeOK, RegOK, Threads
<1> QED BY <1>4, <1>5, <1>6, <1>7 DEF IInv

LEMMA SlotInRange ==
    ASSUME NEW x \in Nat
    PROVE  Slot(x) \in Slots /\ Slot(x) = x % N
BY SbufAssumption DEF Slot, Slots

LEMMA OneLocked ==
    ASSUME MutualExclusion, NEW t \in Locked, NEW u \in Locked
    PROVE  t = u
BY DEF MutualExclusion

LEMMA InsertStoreInv ==
    ASSUME IInv, MaxInserts <= IntMax, NEW p \in Producers, InsertStore(p)
    PROVE  IInv'
<1>1. /\ pc[p] = "store" /\ pc' = [pc EXCEPT ![p] = "unlock"]
      /\ rear' = reg[p] /\ buf' = [buf EXCEPT ![Slot(reg[p])] = val[p]]
      /\ UNCHANGED <<front, mutex, slots, items, val, reg, calls>>
  BY DEF InsertStore, Goto
<1>2. /\ Cardinality(Waiting') = Cardinality(Waiting) - 1
      /\ Cardinality(Reserving') = Cardinality(Reserving) - 1
      /\ Cardinality(Announcing') = Cardinality(Announcing) + 1
      /\ Claiming' = Claiming /\ Releasing' = Releasing
  BY <1>1, ProducerCounts DEF IInv
<1>3. Locked' = Locked
  BY <1>1, NotLocked DEF IInv, Threads
<1>4. reg[p] = rear + 1
  BY <1>1 DEF IInv, RegOK
<1>5. Accounting' /\ CountersOK'
  BY <1>1, <1>2, <1>4, CountsNat, SbufAssumption
     DEF IInv, TypeOK, Accounting, CountersOK, Size
<1>6. MutualExclusion'
  BY <1>1, <1>3 DEF IInv, MutualExclusion
<1>7. TypeOK'
  <2>1. rear' \in Ints /\ buf' \in [Slots -> Items \cup {Zero}]
    BY <1>1 DEF IInv, TypeOK, Threads
  <2> QED BY <1>1, <2>1, SbufAssumption DEF IInv, TypeOK, Threads, ProducerPC, ConsumerPC
<1>8. RegOK'
  <2>1. ASSUME NEW q \in Producers, pc'[q] = "store"
        PROVE  reg'[q] = rear' + 1
    <3>1. q # p /\ pc[q] = "store"
      BY <1>1, <2>1 DEF IInv, TypeOK, Threads
    <3>2. q \in Locked /\ p \in Locked
      BY <1>1, <3>1 DEF Locked, At, Threads
    <3> QED BY <3>1, <3>2, OneLocked DEF IInv
  <2>2. \A c \in Consumers : pc'[c] = "take" => reg'[c] = front' + 1
    BY <1>1, SbufAssumption DEF IInv, TypeOK, RegOK, Threads
  <2> QED BY <2>1, <2>2 DEF RegOK
<1> QED BY <1>5, <1>6, <1>7, <1>8 DEF IInv

LEMMA RemoveTakeInv ==
    ASSUME IInv, MaxInserts <= IntMax, NEW c \in Consumers, RemoveTake(c)
    PROVE  IInv'
<1>1. /\ pc[c] = "take" /\ pc' = [pc EXCEPT ![c] = "unlock"]
      /\ front' = reg[c] /\ val' = [val EXCEPT ![c] = buf[Slot(reg[c])]]
      /\ UNCHANGED <<buf, rear, mutex, slots, items, reg, calls>>
  BY DEF RemoveTake, Goto
<1>2. /\ Cardinality(Claiming') = Cardinality(Claiming) - 1
      /\ Cardinality(Releasing') = Cardinality(Releasing) + 1
      /\ Waiting' = Waiting /\ Reserving' = Reserving /\ Announcing' = Announcing
  BY <1>1, ConsumerCounts DEF IInv
<1>3. Locked' = Locked
  BY <1>1, NotLocked DEF IInv, Threads
<1>4. reg[c] = front + 1 /\ front < rear /\ front \in Nat
  BY <1>1, RemoveIncr DEF IInv, RegOK, CountersOK
<1>5. Accounting' /\ CountersOK'
  BY <1>1, <1>2, <1>4, CountsNat, SbufAssumption
     DEF IInv, TypeOK, Accounting, CountersOK, Size
<1>6. MutualExclusion'
  BY <1>1, <1>3 DEF IInv, MutualExclusion
<1>7. TypeOK'
  <2>1. front' \in Ints
    BY <1>1 DEF IInv, TypeOK, Threads
  <2>2. buf[Slot(reg[c])] \in Items \cup {Zero}
    BY <1>4, SlotInRange DEF IInv, TypeOK
  <2>3. val' \in [Threads -> Items \cup {Zero}]
    BY <1>1, <2>2 DEF IInv, TypeOK
  <2>4. \A p \in Producers : pc'[p] # "idle" => val'[p] \in Items
    BY <1>1, SbufAssumption DEF IInv, TypeOK, Threads
  <2> QED BY <1>1, <2>1, <2>3, <2>4, SbufAssumption
          DEF IInv, TypeOK, Threads, ProducerPC, ConsumerPC
<1>8. RegOK'
  <2>1. ASSUME NEW d \in Consumers, pc'[d] = "take"
        PROVE  reg'[d] = front' + 1
    <3>1. d # c /\ pc[d] = "take"
      BY <1>1, <2>1 DEF IInv, TypeOK, Threads
    <3>2. d \in Locked /\ c \in Locked
      BY <1>1, <3>1 DEF Locked, At, Threads
    <3> QED BY <3>1, <3>2, OneLocked DEF IInv
  <2>2. \A p \in Producers : pc'[p] = "store" => reg'[p] = rear' + 1
    BY <1>1, SbufAssumption DEF IInv, TypeOK, RegOK, Threads
  <2> QED BY <2>1, <2>2 DEF RegOK
<1> QED BY <1>5, <1>6, <1>7, <1>8 DEF IInv

(* Lock and Unlock are one statement of both functions: the counts stay as  *)
(* they are whichever kind of thread takes the step.                        *)
LEMMA MutexCounts ==
    ASSUME TypeOK, NEW t \in Threads, NEW to, pc' = [pc EXCEPT ![t] = to],
           \/ pc[t] = "mutex" /\ to = "load"
           \/ pc[t] = "unlock" /\ to = "post"
    PROVE  /\ Cardinality(Waiting') = Cardinality(Waiting)
           /\ Cardinality(Reserving') = Cardinality(Reserving)
           /\ Cardinality(Announcing') = Cardinality(Announcing)
           /\ Cardinality(Claiming') = Cardinality(Claiming)
           /\ Cardinality(Releasing') = Cardinality(Releasing)
<1>1. CASE t \in Producers
  BY <1>1, ProducerCounts
<1>2. CASE t \in Consumers
  BY <1>2, ConsumerCounts
<1> QED BY <1>1, <1>2 DEF Threads

LEMMA LockInv ==
    ASSUME IInv, NEW t \in Threads, Lock(t)
    PROVE  IInv'
<1>1. /\ pc[t] = "mutex" /\ pc' = [pc EXCEPT ![t] = "load"]
      /\ mutex > 0 /\ mutex' = mutex - 1
      /\ UNCHANGED <<buf, front, rear, slots, items, val, reg, calls>>
  BY DEF Lock, Goto
<1>2. Accounting' /\ CountersOK'
  BY <1>1, MutexCounts DEF IInv, Accounting, CountersOK, Size
<1>3. mutex = 1 /\ mutex' = 0 /\ Locked = {}
  BY <1>1 DEF IInv, MutualExclusion
<1>4. Locked' = {t}
  BY <1>1, <1>3, LockedMove DEF IInv
<1>5. TypeOK'
  BY <1>1, <1>3, SbufAssumption DEF IInv, TypeOK, Threads, ProducerPC, ConsumerPC
<1>6. RegOK'
  BY <1>1, SbufAssumption DEF IInv, TypeOK, RegOK, Threads
<1> QED BY <1>2, <1>3, <1>4, <1>5, <1>6 DEF IInv, MutualExclusion

LEMMA UnlockInv ==
    ASSUME IInv, NEW t \in Threads, Unlock(t)
    PROVE  IInv'
<1>1. /\ pc[t] = "unlock" /\ pc' = [pc EXCEPT ![t] = "post"]
      /\ mutex' = mutex + 1
      /\ UNCHANGED <<buf, front, rear, slots, items, val, reg, calls>>
  BY DEF Unlock, Goto
<1>2. Accounting' /\ CountersOK'
  BY <1>1, MutexCounts DEF IInv, Accounting, CountersOK, Size
<1>3. t \in Locked
  BY <1>1 DEF Locked, At
<1>4. mutex = 0 /\ mutex' = 1 /\ Locked = {t}
  BY <1>1, <1>3 DEF IInv, MutualExclusion
<1>5. Locked' = Locked \ {t}
  BY <1>1, LockedMove DEF IInv
<1>6. TypeOK'
  BY <1>1, <1>4, SbufAssumption DEF IInv, TypeOK, Threads, ProducerPC, ConsumerPC
<1>7. RegOK'
  BY <1>1, SbufAssumption DEF IInv, TypeOK, RegOK, Threads
<1> QED BY <1>2, <1>4, <1>5, <1>6, <1>7 DEF IInv, MutualExclusion

LEMMA StutterInv ==
    ASSUME IInv, UNCHANGED vars
    PROVE  IInv'
BY DEF IInv, vars, TypeOK, MutualExclusion, Locked, Accounting, Reserving, Announcing,
       Claiming, Releasing, Size, RegOK, CountersOK, Waiting

LEMMA NextInv ==
    ASSUME IInv, MaxInserts <= IntMax, [Next]_vars
    PROVE  IInv'
<1>1. ASSUME NEW p \in Producers, CallInsert(p) \/ InsertStep(p)
      PROVE  IInv'
  BY <1>1, CallInsertInv, InsertWaitInv, LockInv, InsertLoadInv, InsertStoreInv,
     UnlockInv, InsertPostInv DEF InsertStep, Threads
<1>2. ASSUME NEW c \in Consumers, RemoveStep(c)
      PROVE  IInv'
  BY <1>2, CallRemoveInv, RemoveWaitInv, LockInv, RemoveLoadInv, RemoveTakeInv,
     UnlockInv, RemovePostInv DEF RemoveStep, Threads
<1> QED BY <1>1, <1>2, StutterInv DEF Next

(* The inductive invariant, for every run of up to INT_MAX insertions.      *)
THEOREM Invariance ==
    ASSUME MaxInserts <= IntMax
    PROVE  Spec => []IInv
<1>1. Init => IInv
  BY InitInv
<1>2. IInv /\ [Next]_vars => IInv'
  BY NextInv
<1> QED BY <1>1, <1>2, PTL DEF Spec

-----------------------------------------------------------------------------
(* What the invariant gives: the safety properties of Sbuf.                 *)

(* Two positions less than n apart are in different slots of the ring.      *)
LEMMA SlotsDiffer ==
    ASSUME NEW a \in Nat, NEW b \in Nat, a < b, b - a < N
    PROVE  Slot(a) # Slot(b)
<1> DEFINE q(x) == x \div N
<1>1. /\ a = N * q(a) + Slot(a) /\ q(a) \in Int
      /\ b = N * q(b) + Slot(b) /\ q(b) \in Int
      /\ N \in Int /\ N > 0
  BY SlotInRange, SbufAssumption
<1> HIDE DEF q
<1>2. ASSUME Slot(a) = Slot(b)
      PROVE  FALSE
  <2> DEFINE d == q(b) - q(a)
  <2>0. \A n, x, y \in Int : n * y - n * x = n * (y - x)
    OBVIOUS
  <2>1. d \in Int /\ b - a = N * d
    <3>1. b - a = N * q(b) - N * q(a)
      <4>1. Slot(a) \in Int /\ N * q(a) \in Int /\ N * q(b) \in Int
        BY <1>1, SlotInRange DEF Slots
      <4> QED BY <1>1, <1>2, <4>1
    <3> QED BY <1>1, <2>0, <3>1
  <2>2. d >= 1
    BY <2>1, <1>1
  <2>3. N * d >= N
    BY <2>1, <2>2, <1>1
  <2> QED BY <2>1, <2>3, <1>1
<1> QED BY <1>2

LEMMA StoreToFreeSlot ==
    ASSUME IInv, MaxInserts <= IntMax, NEW p \in Producers, pc[p] = "store"
    PROVE  /\ Slot(reg[p]) \in Slots
           /\ \A i \in 1 .. Size : Slot(front + i) # Slot(reg[p])
<1>1. reg[p] = rear + 1 /\ Size < N
  BY InsertIncr DEF IInv, RegOK
<1>2. front \in Nat /\ rear \in Nat /\ front <= rear
  BY DEF IInv, CountersOK
<1>3. ASSUME NEW i \in 1 .. Size
      PROVE  Slot(front + i) # Slot(reg[p])
  <2>1. /\ front + i \in Nat /\ rear + 1 \in Nat /\ front + i < rear + 1
        /\ (rear + 1) - (front + i) < N
    BY <1>1, <1>2, SbufAssumption DEF Size
  <2> QED BY <2>1, <1>1, SlotsDiffer
<1> QED BY <1>1, <1>2, <1>3, SlotInRange

LEMMA TakeFromFullSlot ==
    ASSUME IInv, MaxInserts <= IntMax, NEW c \in Consumers, pc[c] = "take"
    PROVE  Slot(reg[c]) \in Slots /\ reg[c] = front + 1 /\ 1 \in 1 .. Size
<1>1. reg[c] = front + 1 /\ front < rear
  BY RemoveIncr DEF IInv, RegOK
<1> QED BY <1>1, SlotInRange DEF IInv, CountersOK, Size

LEMMA IInvSafe ==
    ASSUME IInv, MaxInserts <= IntMax
    PROVE  NoOverwrite
BY StoreToFreeSlot, TakeFromFullSlot DEF NoOverwrite

(* sbuf.h: the counters, the semaphores and the threads keep their types.   *)
THEOREM TypeCorrect ==
    ASSUME MaxInserts <= IntMax
    PROVE  Spec => []TypeOK
<1>1. IInv => TypeOK
  BY DEF IInv
<1> QED BY <1>1, Invariance, PTL

(* sbuf.c:30-32, 43-45: one thread at a time is inside the lock.            *)
THEOREM Exclusion ==
    ASSUME MaxInserts <= IntMax
    PROVE  Spec => []MutualExclusion
<1>1. IInv => MutualExclusion
  BY DEF IInv
<1> QED BY <1>1, Invariance, PTL

(* sbuf.c:29-33, 42-46: no permit of slots or items is lost or invented.    *)
THEOREM PermitsBalance ==
    ASSUME MaxInserts <= IntMax
    PROVE  Spec => []Accounting
<1>1. IInv => Accounting
  BY DEF IInv
<1> QED BY <1>1, Invariance, PTL

(* sbuf.c:31, 44: a full slot is never written, an empty one never read.    *)
THEOREM SlotsRespected ==
    ASSUME MaxInserts <= IntMax
    PROVE  Spec => []NoOverwrite
<1>1. IInv => NoOverwrite
  BY IInvSafe
<1> QED BY <1>1, Invariance, PTL

-----------------------------------------------------------------------------
(* The buffer implements the queue: every step is a step of BoundedFifo or  *)
(* leaves the queue, the phases and the values as they are.                 *)

LEMMA ContentsSeq ==
    ASSUME IInv
    PROVE  /\ Contents \in Seq(Items \cup {Zero})
           /\ Len(Contents) = Size /\ Size \in Nat
           /\ \A i \in 1 .. Size : Contents[i] = buf[Slot(front + i)]
<1>1. Size \in Nat
  BY DEF IInv, CountersOK, Size
<1>2. \A i \in 1 .. Size : buf[Slot(front + i)] \in Items \cup {Zero}
  BY <1>1, SlotInRange DEF IInv, TypeOK, CountersOK
<1> QED BY <1>1, <1>2 DEF Contents

LEMMA PhaseType == Phase \in [Threads -> {"idle", "called", "done"}]
BY DEF Phase

LEMMA PhaseAt ==
    ASSUME NEW t \in Threads
    PROVE  /\ pc[t] = "idle" => Phase[t] = "idle"
           /\ pc[t] \in {"unlock", "post"} => Phase[t] = "done"
           /\ pc[t] \in {"store", "take"} => Phase[t] = "called"
BY DEF Phase

LEMMA PhaseStep ==
    ASSUME TypeOK, NEW t \in Threads, NEW to, pc' = [pc EXCEPT ![t] = to]
    PROVE  Phase' = [Phase EXCEPT ![t] =
                       IF to = "idle" THEN "idle"
                       ELSE IF to \in {"unlock", "post"} THEN "done" ELSE "called"]
BY DEF TypeOK, Phase

LEMMA SamePhase ==
    ASSUME TypeOK, NEW t \in Threads, NEW to, pc' = [pc EXCEPT ![t] = to],
           pc[t] = "idle" <=> to = "idle",
           pc[t] \in {"unlock", "post"} <=> to \in {"unlock", "post"}
    PROVE  Phase' = Phase
BY DEF TypeOK, Phase

LEMMA SameContents ==
    ASSUME UNCHANGED <<buf, front, rear>>
    PROVE  Contents' = Contents
BY DEF Contents, Size, Slot

LEMMA StoreAppends ==
    ASSUME IInv, IInv', MaxInserts <= IntMax, NEW p \in Producers, InsertStore(p)
    PROVE  /\ Len(Contents) < N
           /\ Contents' = Append(Contents, val[p])
<1>1. /\ pc[p] = "store" /\ rear' = reg[p] /\ front' = front
      /\ buf' = [buf EXCEPT ![Slot(reg[p])] = val[p]]
  BY DEF InsertStore, Goto
<1>2. reg[p] = rear + 1 /\ Size < N /\ front \in Nat /\ rear \in Nat
  BY <1>1, InsertIncr DEF IInv, RegOK, CountersOK
<1>3. val[p] \in Items \cup {Zero}
  BY <1>1 DEF IInv, TypeOK
<1>4. Size' = Size + 1
  BY <1>1, <1>2 DEF Size
<1>5. /\ Contents' \in Seq(Items \cup {Zero}) /\ Len(Contents') = Size'
      /\ \A i \in 1 .. Size' : Contents'[i] = buf'[Slot(front + i)]
  <2>1. Size' \in Nat
    BY <1>4, ContentsSeq
  <2>2. \A i \in 1 .. Size' : buf'[Slot(front' + i)] \in Items \cup {Zero}
    BY <1>1, <1>2, <2>1, SlotInRange DEF IInv, TypeOK
  <2>3. \A i \in 1 .. Size' : Contents'[i] = buf'[Slot(front' + i)]
    BY DEF Contents, Slot
  <2> QED BY <1>1, <2>1, <2>2, <2>3 DEF Contents
<1>6. Append(Contents, val[p]) \in Seq(Items \cup {Zero})
      /\ Len(Append(Contents, val[p])) = Size + 1
  BY <1>3, ContentsSeq
<1>7. ASSUME NEW i \in 1 .. Size + 1
      PROVE  Contents'[i] = Append(Contents, val[p])[i]
  <2>1. CASE i \in 1 .. Size
    <3>1. Slot(front + i) # Slot(reg[p]) /\ Slot(reg[p]) \in Slots
      BY <1>1, <2>1, StoreToFreeSlot
    <3>2. Slot(front + i) \in Slots
      BY <1>2, <2>1, SlotInRange
    <3>3. buf'[Slot(front + i)] = buf[Slot(front + i)]
      BY <1>1, <3>1, <3>2 DEF IInv, TypeOK
    <3>4. Append(Contents, val[p])[i] = Contents[i]
      BY <1>3, <2>1, ContentsSeq
    <3> QED BY <1>4, <1>5, <2>1, <3>3, <3>4, ContentsSeq
  <2>2. CASE i = Size + 1
    <3>1. front + i = reg[p]
      BY <1>2, <2>2 DEF Size
    <3>2. Slot(reg[p]) \in Slots
      BY <1>1, StoreToFreeSlot
    <3>3. buf'[Slot(front + i)] = val[p]
      BY <1>1, <3>1, <3>2 DEF IInv, TypeOK
    <3>4. Append(Contents, val[p])[i] = val[p]
      BY <1>3, <2>2, ContentsSeq
    <3> QED BY <1>4, <1>5, <2>2, <3>3, <3>4
  <2> QED BY <2>1, <2>2, ContentsSeq
<1>8. Contents' = Append(Contents, val[p])
  BY <1>4, <1>5, <1>6, <1>7, SeqEqual
<1> QED BY <1>2, <1>8, ContentsSeq

LEMMA TakeRemovesFirst ==
    ASSUME IInv, IInv', MaxInserts <= IntMax, NEW c \in Consumers, RemoveTake(c)
    PROVE  /\ Contents # <<>>
           /\ val' = [val EXCEPT ![c] = Head(Contents)]
           /\ Contents' = Tail(Contents)
<1>1. /\ pc[c] = "take" /\ front' = reg[c] /\ rear' = rear /\ buf' = buf
      /\ val' = [val EXCEPT ![c] = buf[Slot(reg[c])]]
  BY DEF RemoveTake, Goto
<1>2. reg[c] = front + 1 /\ 1 \in 1 .. Size /\ front \in Nat /\ rear \in Nat
  BY <1>1, TakeFromFullSlot DEF IInv, CountersOK
<1>3. Contents # <<>> /\ Head(Contents) = buf[Slot(reg[c])]
  BY <1>2, ContentsSeq
<1>4. Size' = Size - 1 /\ Size' \in Nat
  BY <1>1, <1>2 DEF Size
<1>5. /\ Contents' \in Seq(Items \cup {Zero}) /\ Len(Contents') = Size'
      /\ \A i \in 1 .. Size' : Contents'[i] = buf[Slot(front + 1 + i)]
  <2>1. \A i \in 1 .. Size' : buf[Slot(front + 1 + i)] \in Items \cup {Zero}
    BY <1>2, <1>4, SlotInRange DEF IInv, TypeOK
  <2>2. Contents' = [i \in 1 .. Size' |-> buf[Slot(front + 1 + i)]]
    BY <1>1, <1>2 DEF Contents, Slot
  <2> QED BY <1>4, <2>1, <2>2
<1>6. /\ Tail(Contents) \in Seq(Items \cup {Zero}) /\ Len(Tail(Contents)) = Size'
      /\ \A i \in 1 .. Size' : Tail(Contents)[i] = Contents[i + 1]
  BY <1>3, <1>4, ContentsSeq, HeadTailProperties
<1>7. ASSUME NEW i \in 1 .. Size'
      PROVE  Contents'[i] = Tail(Contents)[i]
  <2>1. i + 1 \in 1 .. Size /\ front + 1 + i = front + (i + 1)
    BY <1>2, <1>4, ContentsSeq
  <2> QED BY <1>5, <1>6, <2>1, ContentsSeq
<1>8. Contents' = Tail(Contents)
  BY <1>5, <1>6, <1>7, SeqEqual
<1> QED BY <1>1, <1>3, <1>8

LEMMA InitRefines ==
    ASSUME Init
    PROVE  Fifo!Init
<1>1. Contents = <<>>
  BY DEF Init, Contents, Size
<1>2. Phase = [t \in Threads |-> "idle"]
  BY DEF Init, Phase
<1> QED BY <1>1, <1>2 DEF Init, Fifo!Init, Fifo!Threads, Threads

LEMMA ProducerRefines ==
    ASSUME IInv, IInv', MaxInserts <= IntMax, NEW p \in Producers,
           CallInsert(p) \/ InsertStep(p)
    PROVE  Fifo!Next \/ UNCHANGED <<Contents, Phase, val>>
<1>0. TypeOK /\ p \in Threads /\ Phase \in [Threads -> {"idle", "called", "done"}]
  BY PhaseType DEF IInv, Threads
<1>1. CASE CallInsert(p)
  <2>1. PICK item \in Items : val' = [val EXCEPT ![p] = item]
    BY <1>1 DEF CallInsert
  <2>2. Contents' = Contents
    BY <1>1, SameContents DEF CallInsert
  <2>3. Phase[p] = "idle" /\ Phase' = [Phase EXCEPT ![p] = "called"]
    BY <1>0, <1>1, PhaseStep, PhaseAt DEF CallInsert, Goto
  <2>4. Fifo!BeginInsert(p, item)
    BY <2>1, <2>2, <2>3 DEF Fifo!BeginInsert
  <2> QED BY <2>4 DEF Fifo!Next
<1>2. CASE InsertWait(p) \/ Lock(p) \/ InsertLoad(p) \/ Unlock(p)
  <2>1. Contents' = Contents /\ val' = val
    BY <1>2, SameContents DEF InsertWait, Lock, InsertLoad, Unlock
  <2>2. Phase' = Phase
    BY <1>0, <1>2, SamePhase DEF InsertWait, Lock, InsertLoad, Unlock, Goto
  <2> QED BY <2>1, <2>2
<1>3. CASE InsertStore(p)
  <2>1. Len(Contents) < N /\ Contents' = Append(Contents, val[p]) /\ val' = val
    BY <1>3, StoreAppends DEF InsertStore
  <2>2. Phase[p] = "called" /\ Phase' = [Phase EXCEPT ![p] = "done"]
    BY <1>0, <1>3, PhaseStep, PhaseAt DEF InsertStore, Goto
  <2>3. Fifo!Insert(p)
    BY <2>1, <2>2 DEF Fifo!Insert
  <2> QED BY <2>3 DEF Fifo!Next
<1>4. CASE InsertPost(p)
  <2>1. Contents' = Contents /\ val' = val
    BY <1>4, SameContents DEF InsertPost
  <2>2. Phase[p] = "done" /\ Phase' = [Phase EXCEPT ![p] = "idle"]
    BY <1>0, <1>4, PhaseStep, PhaseAt DEF InsertPost, Goto
  <2>3. Fifo!Return(p)
    BY <2>1, <2>2 DEF Fifo!Return
  <2> QED BY <2>3 DEF Fifo!Next, Fifo!Threads
<1> QED BY <1>1, <1>2, <1>3, <1>4 DEF InsertStep

LEMMA ConsumerRefines ==
    ASSUME IInv, IInv', MaxInserts <= IntMax, NEW c \in Consumers, RemoveStep(c)
    PROVE  Fifo!Next \/ UNCHANGED <<Contents, Phase, val>>
<1>0. TypeOK /\ c \in Threads /\ Phase \in [Threads -> {"idle", "called", "done"}]
  BY PhaseType DEF IInv, Threads
<1>1. CASE CallRemove(c)
  <2>1. Contents' = Contents /\ val' = val
    BY <1>1, SameContents DEF CallRemove
  <2>2. Phase[c] = "idle" /\ Phase' = [Phase EXCEPT ![c] = "called"]
    BY <1>0, <1>1, PhaseStep, PhaseAt DEF CallRemove, Goto
  <2>3. Fifo!BeginRemove(c)
    BY <2>1, <2>2 DEF Fifo!BeginRemove
  <2> QED BY <2>3 DEF Fifo!Next
<1>2. CASE RemoveWait(c) \/ Lock(c) \/ RemoveLoad(c) \/ Unlock(c)
  <2>1. Contents' = Contents /\ val' = val
    BY <1>2, SameContents DEF RemoveWait, Lock, RemoveLoad, Unlock
  <2>2. Phase' = Phase
    BY <1>0, <1>2, SamePhase DEF RemoveWait, Lock, RemoveLoad, Unlock, Goto
  <2> QED BY <2>1, <2>2
<1>3. CASE RemoveTake(c)
  <2>1. /\ Contents # <<>> /\ Contents' = Tail(Contents)
        /\ val' = [val EXCEPT ![c] = Head(Contents)]
    BY <1>3, TakeRemovesFirst
  <2>2. Phase[c] = "called" /\ Phase' = [Phase EXCEPT ![c] = "done"]
    BY <1>0, <1>3, PhaseStep, PhaseAt DEF RemoveTake, Goto
  <2>3. Fifo!Remove(c)
    BY <2>1, <2>2 DEF Fifo!Remove
  <2> QED BY <2>3 DEF Fifo!Next
<1>4. CASE RemovePost(c)
  <2>1. Contents' = Contents /\ val' = val
    BY <1>4, SameContents DEF RemovePost
  <2>2. Phase[c] = "done" /\ Phase' = [Phase EXCEPT ![c] = "idle"]
    BY <1>0, <1>4, PhaseStep, PhaseAt DEF RemovePost, Goto
  <2>3. Fifo!Return(c)
    BY <2>1, <2>2 DEF Fifo!Return
  <2> QED BY <2>3 DEF Fifo!Next, Fifo!Threads
<1> QED BY <1>1, <1>2, <1>3, <1>4 DEF RemoveStep

(* sbuf.c implements the bounded FIFO queue of BoundedFifo: every insertion *)
(* and removal takes effect atomically, in order, within the capacity.      *)
THEOREM Refinement ==
    ASSUME MaxInserts <= IntMax
    PROVE  Spec => ImplementsFifo
<1>1. Init => Fifo!Init
  BY InitRefines
<1>2. IInv /\ IInv' /\ [Next]_vars => [Fifo!Next]_<<Contents, Phase, val>>
  <2>1. ASSUME IInv, IInv', Next
        PROVE  Fifo!Next \/ UNCHANGED <<Contents, Phase, val>>
    BY <2>1, ProducerRefines, ConsumerRefines DEF Next
  <2>2. UNCHANGED vars => UNCHANGED <<Contents, Phase, val>>
    BY DEF vars, Contents, Phase, Size, Slot
  <2> QED BY <2>1, <2>2
<1> QED BY <1>1, <1>2, Invariance, PTL
    DEF Spec, ImplementsFifo, Fifo!Spec, Fifo!fifoVars

=============================================================================
