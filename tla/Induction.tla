------------------------------ MODULE Induction ------------------------------
(***************************************************************************)
(* Induction over natural numbers and finite sets, for a set of those that *)
(* have a property.  The theorems of the library have the property as an   *)
(* operator, and cannot be used with the provers at hand; that the strict  *)
(* inclusion of finite sets is well founded can.  With it, what sums are.  *)
(***************************************************************************)
EXTENDS Integers, Functions, FiniteSetsExt, FiniteSetTheorems, WellFoundedInduction, TLAPS

(* A set that has 0 and with each number the next one has all of them.      *)
LEMMA NatSetInduction ==
    ASSUME NEW S, 0 \in S, \A n \in Nat : n \in S => n + 1 \in S
    PROVE  Nat \subseteq S
<1> SUFFICES ASSUME NEW m \in Nat, m \notin S PROVE FALSE
  OBVIOUS
<1> DEFINE T == {1 .. n : n \in Nat \ S}
           R == StrictSubsetOrdering(Nat)
<1>1. T \subseteq FiniteSubsetsOf(Nat) /\ T # {}
  <2>1. \A n \in Nat : IsFiniteSet(1 .. n) /\ 1 .. n \in SUBSET Nat
    BY FS_Interval
  <2>2. 1 .. m \in T
    OBVIOUS
  <2> QED BY <2>1, <2>2 DEF FiniteSubsetsOf
<1>2. PICK A \in T : \A B \in T : ~ (<<B, A>> \in R)
  <2> HIDE DEF T
  <2> QED BY <1>1, WFMin, FS_StrictSubsetOrderingWellFounded
<1>3. PICK x \in Nat \ S : A = 1 .. x
  OBVIOUS
<1>4. x - 1 \in Nat \ S
  BY x # 0
<1>5. 1 .. x - 1 \subseteq 1 .. x /\ 1 .. x - 1 # 1 .. x /\ 1 .. x \subseteq Nat
  <2>1. x \in 1 .. x /\ x \notin 1 .. x - 1
    BY <1>4
  <2> QED BY <2>1
<1>6. <<1 .. x - 1, A>> \in R /\ 1 .. x - 1 \in T
  BY <1>3, <1>4, <1>5 DEF StrictSubsetOrdering
<1> QED BY <1>2, <1>6

(* A nonempty set of naturals has a least element.                          *)
LEMMA LeastIn ==
    ASSUME NEW S, S \subseteq Nat, S # {}
    PROVE  Min(S) \in S /\ \A y \in S : Min(S) <= y
<1> SUFFICES ASSUME ~ \E x \in S : \A y \in S : x <= y PROVE FALSE
  BY DEF Min
<1> DEFINE G == {n \in Nat : \A x \in S : n <= x}
<1>1. 0 \in G
  OBVIOUS
<1>2. \A n \in Nat : n \in G => n + 1 \in G
  OBVIOUS
<1>3. Nat \subseteq G
  <2> HIDE DEF G
  <2> QED BY <1>1, <1>2, NatSetInduction
<1>4. PICK x \in S : TRUE
  OBVIOUS
<1> QED BY <1>3, <1>4

(* The smaller of two naturals.                                             *)
LEMMA LeastOfTwo ==
    ASSUME NEW m \in Nat, NEW n \in Nat
    PROVE  Min({m, n}) \in Nat /\ Min({m, n}) <= m /\ Min({m, n}) <= n
           /\ Min({m, n}) \in {m, n}
BY LeastIn

(* A collection that has the empty set and with each subset of S that with  *)
(* one more element has S itself.                                           *)
LEMMA FiniteSetInduction ==
    ASSUME NEW S, IsFiniteSet(S), NEW G, {} \in G,
           \A T \in SUBSET S : \A x \in S \ T : T \in G => T \cup {x} \in G
    PROVE  S \in G
<1> SUFFICES ASSUME S \notin G PROVE FALSE
  OBVIOUS
<1> DEFINE H == (SUBSET S) \ G
           R == StrictSubsetOrdering(S)
<1>1. H \subseteq FiniteSubsetsOf(S) /\ H # {}
  BY FS_FiniteSubsetsOfFinite
<1>2. PICK A \in H : \A B \in H : ~ (<<B, A>> \in R)
  <2> HIDE DEF H
  <2> QED BY <1>1, WFMin, FS_StrictSubsetOrderingWellFounded
<1>3. PICK x \in A : TRUE
  OBVIOUS
<1>4. A \ {x} \in SUBSET S /\ x \in S \ (A \ {x}) /\ (A \ {x}) \cup {x} = A
  OBVIOUS
<1>5. A \ {x} \in H
  BY <1>4
<1>6. <<A \ {x}, A>> \in R
  BY <1>4 DEF StrictSubsetOrdering
<1> QED BY <1>2, <1>5, <1>6

-----------------------------------------------------------------------------
(* The function that SumFunctionOnSet defines by recursion over the sets of *)
(* D, which takes some element first.                                       *)
Some(s) == CHOOSE x \in s : TRUE
Adds(f, D, h) ==
    h = [s \in D |-> IF s = {} THEN 0 ELSE f[Some(s)] + h[s \ {Some(s)}]]

(* What is taken is an element.                                             *)
LEMMA SomeIn == \A s : s # {} => Some(s) \in s
BY DEF Some

(* The sum is what the recursive function of SumFunctionOnSet says of S.    *)
LEMMA SumFunctionIs ==
    ASSUME NEW f, NEW S
    PROVE  SumFunctionOnSet(f, S) = (CHOOSE h : Adds(f, SUBSET S, h))[S]
BY DEF SumFunctionOnSet, FoldFunctionOnSet, MapThenFoldSet, Adds, Some

UpToSize(S, n) == {s \in SUBSET S : Cardinality(s) <= n}

(* Taking one element from a set.                                           *)
LEMMA OneLess ==
    ASSUME NEW S, IsFiniteSet(S), NEW s \in SUBSET S, NEW x \in s
    PROVE  /\ s \ {x} \in SUBSET S /\ x \notin s \ {x} /\ (s \ {x}) \cup {x} = s
           /\ Cardinality(s) \in Nat /\ Cardinality(s \ {x}) = Cardinality(s) - 1
<1>1. IsFiniteSet(s)
  BY FS_Subset
<1> QED BY <1>1, FS_RemoveElement, FS_CardinalityType

(* The function exists for the subsets of each size, and so for all.        *)
LEMMA AddsUpTo ==
    ASSUME NEW f, NEW S, IsFiniteSet(S)
    PROVE  \A n \in Nat : \E h : Adds(f, UpToSize(S, n), h)
<1> DEFINE G == {n \in Nat : \E h : Adds(f, UpToSize(S, n), h)}
<1>1. 0 \in G
  <2> DEFINE h == [s \in UpToSize(S, 0) |-> 0]
  <2>1. \A s \in UpToSize(S, 0) : s = {}
    BY FS_Subset, FS_EmptySet, FS_CardinalityType DEF UpToSize
  <2>2. Adds(f, UpToSize(S, 0), h)
    BY <2>1 DEF Adds
  <2> QED BY <2>2
<1>2. ASSUME NEW n \in Nat, n \in G PROVE n + 1 \in G
  <2>1. PICK h : Adds(f, UpToSize(S, n), h)
    BY <1>2
  <2> DEFINE k == [s \in UpToSize(S, n + 1) |->
                     IF s = {} THEN 0 ELSE f[Some(s)] + h[s \ {Some(s)}]]
  <2>2. \A s \in UpToSize(S, n + 1) : s # {} => s \ {Some(s)} \in UpToSize(S, n)
    <3> SUFFICES ASSUME NEW s \in UpToSize(S, n + 1), s # {}
                 PROVE  s \ {Some(s)} \in UpToSize(S, n)
      OBVIOUS
    <3>1. Some(s) \in s
      BY SomeIn
    <3> QED BY <3>1, OneLess DEF UpToSize
  <2>3. \A s \in UpToSize(S, n) : k[s] = h[s]
    <3>1. UpToSize(S, n) \subseteq UpToSize(S, n + 1)
      BY FS_Subset, FS_CardinalityType DEF UpToSize
    <3> QED BY <2>1, <3>1 DEF Adds
  <2>4. Adds(f, UpToSize(S, n + 1), k)
    <3>1. \A s \in UpToSize(S, n + 1) : s # {} => k[s \ {Some(s)}] = h[s \ {Some(s)}]
      BY <2>2, <2>3
    <3> DEFINE D == UpToSize(S, n + 1)
               v(s) == IF s = {} THEN 0 ELSE f[Some(s)] + h[s \ {Some(s)}]
               w(s) == IF s = {} THEN 0 ELSE f[Some(s)] + k[s \ {Some(s)}]
    <3>2. \A s \in D : v(s) = w(s)
      BY <3>1
    <3>3. k = [s \in D |-> v(s)]
      OBVIOUS
    <3>4. k = [s \in D |-> w(s)]
      <4> HIDE DEF k, v, w, D
      <4> QED BY <3>2, <3>3
    <3> HIDE DEF k
    <3> QED BY <3>4 DEF Adds
  <2> QED BY <2>4
<1>3. Nat \subseteq G
  <2> HIDE DEF G
  <2> QED BY <1>1, <1>2, NatSetInduction
<1> QED BY <1>3

(* It exists for all the subsets of a finite set.                           *)
LEMMA AddsExists ==
    ASSUME NEW f, NEW S, IsFiniteSet(S)
    PROVE  \E h : Adds(f, SUBSET S, h)
<1>1. Cardinality(S) \in Nat /\ UpToSize(S, Cardinality(S)) = SUBSET S
  BY FS_Subset, FS_CardinalityType DEF UpToSize
<1>2. \E h : Adds(f, UpToSize(S, Cardinality(S)), h)
  BY <1>1, AddsUpTo
<1> QED BY <1>1, <1>2

(* On each subset of S it is the sum over that set.                         *)
LEMMA AddsUnique ==
    ASSUME NEW f, NEW S, IsFiniteSet(S), NEW T \in SUBSET S,
           NEW h, Adds(f, SUBSET S, h), NEW k, Adds(f, SUBSET T, k)
    PROVE  h[T] = k[T]
<1> DEFINE G == {n \in Nat : \A s \in SUBSET T : Cardinality(s) = n => h[s] = k[s]}
<1>0. IsFiniteSet(T) /\ SUBSET T \subseteq SUBSET S
  BY FS_Subset
<1>h. \A s \in SUBSET T : h[s] = IF s = {} THEN 0 ELSE f[Some(s)] + h[s \ {Some(s)}]
  BY <1>0 DEF Adds
<1>k. \A s \in SUBSET T : k[s] = IF s = {} THEN 0 ELSE f[Some(s)] + k[s \ {Some(s)}]
  BY DEF Adds
<1>1. 0 \in G
  <2>1. \A s \in SUBSET T : Cardinality(s) = 0 => s = {}
    BY <1>0, FS_Subset, FS_EmptySet
  <2>2. h[{}] = 0 /\ k[{}] = 0
    BY <1>h, <1>k
  <2> QED BY <2>1, <2>2
<1>2. ASSUME NEW n \in Nat, n \in G PROVE n + 1 \in G
  <2> SUFFICES ASSUME NEW s \in SUBSET T, Cardinality(s) = n + 1 PROVE h[s] = k[s]
    OBVIOUS
  <2>1. s # {}
    BY FS_EmptySet
  <2>2. Some(s) \in s
    BY <2>1, SomeIn
  <2>3. s \ {Some(s)} \in SUBSET T /\ Cardinality(s \ {Some(s)}) = n
    BY <1>0, <2>2, OneLess
  <2>4. h[s \ {Some(s)}] = k[s \ {Some(s)}]
    BY <1>2, <2>3
  <2> QED BY <1>h, <1>k, <2>1, <2>4
<1>3. Nat \subseteq G
  <2> HIDE DEF G
  <2> QED BY <1>1, <1>2, NatSetInduction
<1> QED BY <1>0, <1>3, FS_CardinalityType

(* The sum over a subset is a value of the function for the whole set.      *)
LEMMA SumAdds ==
    ASSUME NEW f, NEW S, IsFiniteSet(S), NEW h, Adds(f, SUBSET S, h)
    PROVE  \A T \in SUBSET S : SumFunctionOnSet(f, T) = h[T]
<1> SUFFICES ASSUME NEW T \in SUBSET S PROVE SumFunctionOnSet(f, T) = h[T]
  OBVIOUS
<1>1. \E k : Adds(f, SUBSET T, k)
  BY FS_Subset, AddsExists
<1> DEFINE k == CHOOSE k : Adds(f, SUBSET T, k)
<1>2. Adds(f, SUBSET T, k)
  BY <1>1
<1> QED BY <1>2, AddsUnique, SumFunctionIs

(* The sum of no numbers.                                                   *)
LEMMA SumEmpty == ASSUME NEW f PROVE SumFunctionOnSet(f, {}) = 0
<1>1. PICK h : Adds(f, SUBSET {}, h)
  BY FS_EmptySet, AddsExists
<1>2. \A T \in SUBSET {} : SumFunctionOnSet(f, T) = h[T]
  <2>1. IsFiniteSet({})
    BY FS_EmptySet
  <2> QED BY <1>1, <2>1, SumAdds
<1> QED BY <1>1, <1>2 DEF Adds

(* One number more, whichever the recursion takes first.                    *)
LEMMA SumOneMore ==
    ASSUME NEW S, IsFiniteSet(S), NEW f, \A x \in S : f[x] \in Int
    PROVE  \A T \in SUBSET S :
              /\ SumFunctionOnSet(f, T) \in Int
              /\ \A x \in S \ T : SumFunctionOnSet(f, T \cup {x}) = SumFunctionOnSet(f, T) + f[x]
<1>1. PICK h : Adds(f, SUBSET S, h)
  BY AddsExists
<1>2. \A T \in SUBSET S : SumFunctionOnSet(f, T) = h[T]
  BY <1>1, SumAdds
<1>3. \A s \in SUBSET S : h[s] = IF s = {} THEN 0 ELSE f[Some(s)] + h[s \ {Some(s)}]
  BY <1>1 DEF Adds
<1> DEFINE Good(T) == h[T] \in Int /\ \A x \in S \ T : h[T \cup {x}] = h[T] + f[x]
           G == {n \in Nat : \A T \in SUBSET S : Cardinality(T) = n => Good(T)}
<1>4. 0 \in G
  <2> SUFFICES ASSUME NEW T \in SUBSET S, Cardinality(T) = 0 PROVE Good(T)
    OBVIOUS
  <2>1. T = {} /\ h[T] = 0
    BY <1>3, FS_Subset, FS_EmptySet
  <2>2. ASSUME NEW x \in S PROVE h[T \cup {x}] = f[x]
    <3>1. T \cup {x} = {x} /\ Some({x}) = x /\ {x} \ {x} = {} /\ {x} # {} /\ {x} \in SUBSET S
      BY <2>1 DEF Some
    <3>2. h[{x}] = f[x] + h[{}]
      BY <1>3, <3>1
    <3> QED BY <2>1, <3>1, <3>2
  <2> QED BY <2>1, <2>2
<1>5. ASSUME NEW n \in Nat, n \in G PROVE n + 1 \in G
  <2> SUFFICES ASSUME NEW T \in SUBSET S, Cardinality(T) = n + 1 PROVE Good(T)
    OBVIOUS
  <2> HIDE DEF Good
  <2>0. \A A \in SUBSET S : Cardinality(A) = n => Good(A)
    BY <1>5
  <2>1. T # {} /\ Some(T) \in T
    BY FS_EmptySet, SomeIn
  <2>2. h[T] \in Int
    <3>1. T \ {Some(T)} \in SUBSET S /\ Cardinality(T \ {Some(T)}) = n
      BY <2>1, OneLess
    <3>2. h[T \ {Some(T)}] \in Int
      BY <2>0, <3>1 DEF Good
    <3>3. h[T] = f[Some(T)] + h[T \ {Some(T)}] /\ f[Some(T)] \in Int
      BY <1>3, <2>1
    <3> QED BY <3>2, <3>3
  <2>3. ASSUME NEW x \in S \ T PROVE h[T \cup {x}] = h[T] + f[x]
    <3>1. PICK c \in T \cup {x} : h[T \cup {x}] = f[c] + h[(T \cup {x}) \ {c}]
      <4>1. T \cup {x} \in SUBSET S /\ Some(T \cup {x}) \in T \cup {x}
        BY SomeIn
      <4> QED BY <1>3, <4>1
    <3>2. CASE c = x
      <4>1. (T \cup {x}) \ {c} = T
        BY <3>2
      <4>2. f[x] \in Int
        OBVIOUS
      <4>3. h[T \cup {x}] = f[x] + h[T]
        BY <3>1, <3>2, <4>1
      <4> QED BY <2>2, <4>2, <4>3
    <3>3. CASE c # x
      <4>1. c \in T
        BY <3>3
      <4>2. PICK A \in SUBSET S : A = T \ {c}
        OBVIOUS
      <4>3. Cardinality(A) = n /\ A \cup {c} = T
        BY <4>1, <4>2, OneLess
      <4>4. c \in S \ A /\ x \in S \ A /\ (T \cup {x}) \ {c} = A \cup {x}
        BY <3>3, <4>1, <4>2
      <4>5. Good(A)
        BY <2>0, <4>3
      <4>6. h[T] = h[A] + f[c] /\ h[A \cup {x}] = h[A] + f[x] /\ h[A] \in Int
        BY <4>3, <4>4, <4>5 DEF Good
      <4>7. h[T \cup {x}] = f[c] + h[A \cup {x}] /\ f[c] \in Int /\ f[x] \in Int
        BY <3>1, <4>1, <4>4
      <4> QED BY <4>6, <4>7
    <3> QED BY <3>2, <3>3
  <2> QED BY <2>2, <2>3 DEF Good
<1>6. Nat \subseteq G
  <2> HIDE DEF G
  <2> QED BY <1>4, <1>5, NatSetInduction
<1>7. ASSUME NEW T \in SUBSET S PROVE Good(T)
  <2>1. Cardinality(T) \in Nat
    BY FS_Subset, FS_CardinalityType
  <2> QED BY <1>6, <2>1
<1>8. ASSUME NEW T \in SUBSET S, NEW x \in S \ T PROVE T \cup {x} \in SUBSET S
  OBVIOUS
<1> QED BY <1>2, <1>7, <1>8

(* The sum depends on the numbers that are added only, and changes as one   *)
(* of them does.                                                            *)
LEMMA SumSame ==
    ASSUME NEW S, IsFiniteSet(S), NEW f, NEW g, \A x \in S : f[x] = g[x] /\ f[x] \in Int
    PROVE  SumFunctionOnSet(f, S) = SumFunctionOnSet(g, S)
<1> DEFINE G == {T \in SUBSET S : SumFunctionOnSet(f, T) = SumFunctionOnSet(g, T)}
<1>1. {} \in G
  BY SumEmpty
<1>2. ASSUME NEW T \in SUBSET S, NEW x \in S \ T, T \in G PROVE T \cup {x} \in G
  <2>1. SumFunctionOnSet(f, T \cup {x}) = SumFunctionOnSet(f, T) + f[x]
    BY SumOneMore
  <2>2. SumFunctionOnSet(g, T \cup {x}) = SumFunctionOnSet(g, T) + g[x]
    BY SumOneMore
  <2> QED BY <1>2, <2>1, <2>2
<1>3. S \in G
  <2> HIDE DEF G
  <2> QED BY <1>1, <1>2, FiniteSetInduction
<1> QED BY <1>3

(* A sum of zeros.                                                          *)
LEMMA SumZeros ==
    ASSUME NEW S, IsFiniteSet(S), NEW f, \A x \in S : f[x] = 0
    PROVE  SumFunctionOnSet(f, S) = 0
<1> DEFINE G == {T \in SUBSET S : SumFunctionOnSet(f, T) = 0}
<1>1. {} \in G
  BY SumEmpty
<1>2. ASSUME NEW T \in SUBSET S, NEW x \in S \ T, T \in G PROVE T \cup {x} \in G
  <2>1. SumFunctionOnSet(f, T \cup {x}) = SumFunctionOnSet(f, T) + f[x]
    BY SumOneMore
  <2> QED BY <1>2, <2>1
<1>3. S \in G
  <2> HIDE DEF G
  <2> QED BY <1>1, <1>2, FiniteSetInduction
<1> QED BY <1>3

(* One element apart.                                                       *)
LEMMA SumWithout ==
    ASSUME NEW S, IsFiniteSet(S), NEW f, \A y \in S : f[y] \in Int, NEW x \in S
    PROVE  /\ SumFunctionOnSet(f, S \ {x}) \in Int
           /\ SumFunctionOnSet(f, S) = SumFunctionOnSet(f, S \ {x}) + f[x]
<1>1. PICK T \in SUBSET S : T = S \ {x}
  OBVIOUS
<1>2. x \in S \ T /\ T \cup {x} = S
  BY <1>1
<1>3. /\ SumFunctionOnSet(f, T) \in Int
      /\ SumFunctionOnSet(f, T \cup {x}) = SumFunctionOnSet(f, T) + f[x]
  BY <1>2, SumOneMore
<1> QED BY <1>1, <1>2, <1>3

(* A change of one number changes the sum by as much.                       *)
LEMMA SumChange ==
    ASSUME NEW S, IsFiniteSet(S), NEW x \in S,
           NEW f, \A y \in S : f[y] \in Int, NEW g, \A y \in S : g[y] \in Int,
           \A y \in S \ {x} : f[y] = g[y]
    PROVE  SumFunctionOnSet(g, S) = SumFunctionOnSet(f, S) + g[x] - f[x]
<1>1. IsFiniteSet(S \ {x}) /\ f[x] \in Int /\ g[x] \in Int
  BY FS_Subset
<1>2. SumFunctionOnSet(f, S \ {x}) = SumFunctionOnSet(g, S \ {x})
  BY <1>1, SumSame
<1>3. /\ SumFunctionOnSet(f, S \ {x}) \in Int
      /\ SumFunctionOnSet(f, S) = SumFunctionOnSet(f, S \ {x}) + f[x]
  BY SumWithout
<1>4. SumFunctionOnSet(g, S) = SumFunctionOnSet(g, S \ {x}) + g[x]
  BY SumWithout
<1> QED BY <1>1, <1>2, <1>3, <1>4

(* A sum of natural numbers is one.                                         *)
LEMMA SumNatural ==
    ASSUME NEW S, IsFiniteSet(S), NEW f, \A x \in S : f[x] \in Nat
    PROVE  SumFunctionOnSet(f, S) \in Nat
<1> DEFINE G == {T \in SUBSET S : SumFunctionOnSet(f, T) \in Nat}
<1>1. {} \in G
  BY SumEmpty
<1>2. ASSUME NEW T \in SUBSET S, NEW x \in S \ T, T \in G PROVE T \cup {x} \in G
  <2>1. SumFunctionOnSet(f, T \cup {x}) = SumFunctionOnSet(f, T) + f[x]
    BY SumOneMore
  <2> QED BY <1>2, <2>1
<1>3. S \in G
  <2> HIDE DEF G
  <2> QED BY <1>1, <1>2, FiniteSetInduction
<1> QED BY <1>3

(* The sum over two sets that have nothing in common.                       *)
LEMMA SumUnion ==
    ASSUME NEW A, NEW B, IsFiniteSet(A), IsFiniteSet(B), A \cap B = {},
           NEW f, \A x \in A \cup B : f[x] \in Int
    PROVE  SumFunctionOnSet(f, A \cup B) = SumFunctionOnSet(f, A) + SumFunctionOnSet(f, B)
<1> DEFINE G == {T \in SUBSET B :
                   SumFunctionOnSet(f, A \cup T) = SumFunctionOnSet(f, A) + SumFunctionOnSet(f, T)}
<1>0. IsFiniteSet(A \cup B) /\ A \in SUBSET (A \cup B)
  BY FS_Union
<1>1. {} \in G
  <2>1. SumFunctionOnSet(f, A) \in Int
    BY <1>0, SumOneMore
  <2> QED BY <2>1, SumEmpty
<1>2. ASSUME NEW T \in SUBSET B, NEW x \in B \ T, T \in G PROVE T \cup {x} \in G
  <2>1. PICK U : U = A \cup B
    OBVIOUS
  <2>2. PICK C : C = A \cup T
    OBVIOUS
  <2>3. PICK E : E = T \cup {x}
    OBVIOUS
  <2>4. /\ IsFiniteSet(U) /\ \A y \in U : f[y] \in Int
        /\ C \in SUBSET U /\ x \in U \ C /\ T \in SUBSET U /\ x \in U \ T
        /\ A \cup E = C \cup {x} /\ f[x] \in Int
    BY <1>0, <2>1, <2>2, <2>3
  <2>5. /\ SumFunctionOnSet(f, C) \in Int
        /\ SumFunctionOnSet(f, C \cup {x}) = SumFunctionOnSet(f, C) + f[x]
    BY <2>4, SumOneMore
  <2>6. /\ SumFunctionOnSet(f, T) \in Int
        /\ SumFunctionOnSet(f, E) = SumFunctionOnSet(f, T) + f[x]
    BY <2>3, <2>4, SumOneMore
  <2>7. SumFunctionOnSet(f, A) \in Int
    BY <1>0, SumOneMore
  <2>8. SumFunctionOnSet(f, C) = SumFunctionOnSet(f, A) + SumFunctionOnSet(f, T)
    BY <1>2, <2>2
  <2>9. SumFunctionOnSet(f, A \cup E) = SumFunctionOnSet(f, A) + SumFunctionOnSet(f, E)
    <3>1. SumFunctionOnSet(f, A \cup E) = SumFunctionOnSet(f, C \cup {x})
      BY <2>4
    <3>2. f[x] \in Int
      BY <2>4
    <3> QED BY <3>1, <3>2, <2>5, <2>6, <2>7, <2>8
  <2> QED BY <2>3, <2>9
<1>3. B \in G
  <2> HIDE DEF G
  <2> QED BY <1>1, <1>2, FiniteSetInduction
<1> QED BY <1>3

(* The numbers of S under other names, h.                                   *)
LEMMA SumRenamed ==
    ASSUME NEW S, IsFiniteSet(S), NEW T, IsFiniteSet(T), NEW h,
           \A x \in S : h[x] \in T, \A x, y \in S : h[x] = h[y] => x = y,
           \A y \in T : \E x \in S : h[x] = y,
           NEW f, \A x \in T : f[x] \in Int,
           NEW g, \A x \in S : g[x] = f[h[x]]
    PROVE  SumFunctionOnSet(g, S) = SumFunctionOnSet(f, T)
<1> DEFINE Image(A) == {h[x] : x \in A}
           G == {A \in SUBSET S : SumFunctionOnSet(g, A) = SumFunctionOnSet(f, Image(A))}
<1>1. {} \in G
  <2>1. Image({}) = {}
    OBVIOUS
  <2> QED BY <2>1, SumEmpty
<1>2. ASSUME NEW A \in SUBSET S, NEW x \in S \ A, A \in G PROVE A \cup {x} \in G
  <2>1. /\ Image(A) \in SUBSET T /\ h[x] \in T \ Image(A)
        /\ Image(A \cup {x}) = Image(A) \cup {h[x]}
    OBVIOUS
  <2> HIDE DEF Image
  <2>2. \A y \in S : g[y] \in Int
    OBVIOUS
  <2>3. SumFunctionOnSet(g, A \cup {x}) = SumFunctionOnSet(g, A) + g[x]
    BY <2>2, SumOneMore
  <2>4. SumFunctionOnSet(f, Image(A) \cup {h[x]}) = SumFunctionOnSet(f, Image(A)) + f[h[x]]
    BY <2>1, SumOneMore
  <2> QED BY <1>2, <2>1, <2>3, <2>4
<1>3. S \in G
  <2> HIDE DEF G
  <2> QED BY <1>1, <1>2, FiniteSetInduction
<1>4. Image(S) = T
  OBVIOUS
<1> QED BY <1>3, <1>4

(* A sum of ones counts.                                                    *)
LEMMA SumOnes ==
    ASSUME NEW S, IsFiniteSet(S), NEW f, \A x \in S : f[x] = 1
    PROVE  SumFunctionOnSet(f, S) = Cardinality(S)
<1> DEFINE G == {T \in SUBSET S : SumFunctionOnSet(f, T) = Cardinality(T)}
<1>1. {} \in G
  BY SumEmpty, FS_EmptySet
<1>2. ASSUME NEW T \in SUBSET S, NEW x \in S \ T, T \in G PROVE T \cup {x} \in G
  <2>1. SumFunctionOnSet(f, T \cup {x}) = SumFunctionOnSet(f, T) + f[x]
    BY SumOneMore
  <2>2. Cardinality(T \cup {x}) = Cardinality(T) + 1
    BY FS_Subset, FS_AddElement
  <2> QED BY <1>2, <2>1, <2>2
<1>3. S \in G
  <2> HIDE DEF G
  <2> QED BY <1>1, <1>2, FiniteSetInduction
<1> QED BY <1>3
=============================================================================
