--------------------------- MODULE SequenceLemmas ---------------------------
(***************************************************************************)
(* What the proofs of several components need of numbers and sequences:    *)
(* induction, and counting the elements of a sequence that lie in a set.   *)
(***************************************************************************)
EXTENDS Integers, Sequences, FiniteSets, FiniteSetTheorems, WellFoundedInduction, TLAPS

\* Where in q the elements of S are, and how many they are.
Where(q, S) == {i \in DOMAIN q : q[i] \in S}
Count(q, S) == Cardinality(Where(q, S))

\* n times x.
Times(n, x) == [i \in 1 .. n |-> x]

-----------------------------------------------------------------------------
\* A set of numbers that is not empty has a least one.
LEMMA LeastNumber ==
  ASSUME NEW T \in SUBSET Nat, T # {}
  PROVE \E m \in T : \A k \in T : m <= k
<1> DEFINE R == OpToRel(<, Nat)
<1>1. \E x \in T : \A y \in T : ~(<<y, x>> \in R)
  <2>1. IsWellFoundedOn(R, Nat)
    BY NatLessThanWellFounded
  <2> HIDE DEF R
  <2> QED
    BY <2>1, WFMin
<1>2. \A x, y \in Nat : <<y, x>> \in R <=> y < x
  BY DEF OpToRel
<1>3. PICK m \in T : \A y \in T : ~(<<y, m>> \in R)
  BY <1>1, Zenon
<1>4. \A k \in T : m <= k
  <2> SUFFICES ASSUME NEW k \in T PROVE m <= k
    OBVIOUS
  <2>1. ~(<<k, m>> \in R)
    BY <1>3, Zenon
  <2>2. k \in Nat /\ m \in Nat
    OBVIOUS
  <2>3. ~(k < m)
    BY <2>1, <2>2, <1>2, Zenon
  <2> HIDE DEF R
  <2> QED
    BY <2>2, <2>3
<1> QED
  BY <1>4, Zenon

\* Induction over the natural numbers, about a set in place of a predicate.
LEMMA Induction ==
  ASSUME NEW S, 0 \in S, \A n \in Nat : n \in S => n + 1 \in S
  PROVE Nat \subseteq S
<1> SUFFICES ASSUME ~(Nat \subseteq S) PROVE FALSE
  OBVIOUS
<1> DEFINE T == Nat \ S
<1>1. PICK m \in T : \A k \in T : m <= k
  <2>1. T \in SUBSET Nat /\ T # {}
    OBVIOUS
  <2> HIDE DEF T
  <2> QED
    BY <2>1, LeastNumber
<1>2. m # 0 /\ m \in Nat
  BY <1>1
<1>3. m - 1 \in Nat /\ m - 1 \notin T
  BY <1>1, <1>2
<1> QED
  BY <1>1, <1>2, <1>3

-----------------------------------------------------------------------------
\* Sets that have nothing in common are counted one after the other.
LEMMA CountDisjoint ==
  ASSUME NEW S, NEW T, IsFiniteSet(S), IsFiniteSet(T), S \cap T = {}
  PROVE /\ IsFiniteSet(S \cup T) /\ Cardinality(S) \in Nat /\ Cardinality(T) \in Nat
        /\ Cardinality(S \cup T) = Cardinality(S) + Cardinality(T)
<1>1. Cardinality(S) \in Nat /\ Cardinality(T) \in Nat
  BY FS_CardinalityType
<1>2. IsFiniteSet(S \cup T) /\ Cardinality(S \cup T) = Cardinality(S) + Cardinality(T) - 0
  BY FS_Union, FS_EmptySet
<1> QED
  BY <1>1, <1>2

\* n numbers from m + 1 on.
LEMMA CountInterval ==
  ASSUME NEW m \in Nat, NEW n \in Nat
  PROVE IsFiniteSet(m + 1 .. m + n) /\ Cardinality(m + 1 .. m + n) = n
<1>1. m + 1 \in Int /\ m + n \in Int
  OBVIOUS
<1>2. /\ IsFiniteSet(m + 1 .. m + n)
      /\ Cardinality(m + 1 .. m + n) = IF m + 1 > m + n THEN 0 ELSE (m + n) - (m + 1) + 1
  BY <1>1, FS_Interval
<1>3. (IF m + 1 > m + n THEN 0 ELSE (m + n) - (m + 1) + 1) = n
  OBVIOUS
<1> QED
  BY <1>2, <1>3

\* The places in a sequence are finitely many.
LEMMA WhereFinite ==
  ASSUME NEW A, NEW q \in Seq(A), NEW S
  PROVE IsFiniteSet(Where(q, S)) /\ Count(q, S) \in Nat
<1>1. IsFiniteSet(1 .. Len(q)) /\ Where(q, S) \in SUBSET (1 .. Len(q))
  BY FS_Interval DEF Where
<1>2. IsFiniteSet(Where(q, S))
  BY <1>1, FS_Subset
<1> QED
  BY <1>2, FS_CardinalityType DEF Count

\* What is in one of two sequences is in their concatenation, once.
LEMMA CountConcat ==
  ASSUME NEW A, NEW s \in Seq(A), NEW t \in Seq(A), NEW S
  PROVE Count(s \o t, S) = Count(s, S) + Count(t, S)
<1> DEFINE Moved == {i \in DOMAIN (s \o t) : i > Len(s) /\ (s \o t)[i] \in S}
           f == [i \in Where(t, S) |-> i + Len(s)]
<1>1. Where(s \o t, S) = Where(s, S) \cup Moved /\ Where(s, S) \cap Moved = {}
  BY DEF Where
<1>2. f \in Bijection(Where(t, S), Moved)
  <2>1. f \in [Where(t, S) -> Moved]
    BY DEF Where
  <2>2. \A i, j \in Where(t, S) : f[i] = f[j] => i = j
    BY DEF Where
  <2>3. \A m \in Moved : \E i \in Where(t, S) : f[i] = m
    <3> SUFFICES ASSUME NEW m \in Moved PROVE \E i \in Where(t, S) : f[i] = m
      OBVIOUS
    <3>1. m - Len(s) \in Where(t, S) /\ f[m - Len(s)] = m
      BY DEF Where
    <3> QED
      BY <3>1
  <2> HIDE DEF f, Moved
  <2> QED
    BY <2>1, <2>2, <2>3 DEF Bijection, Injection, Surjection, IsInjective
<1>3. IsFiniteSet(Where(s, S)) /\ IsFiniteSet(Where(t, S)) /\ Count(s, S) \in Nat /\ Count(t, S) \in Nat
  BY WhereFinite
<1>4. IsFiniteSet(Moved) /\ Cardinality(Moved) = Count(t, S)
  <2> HIDE DEF f, Moved
  <2> QED
    BY <1>2, <1>3, FS_Bijection DEF ExistsBijection, Count
<1> HIDE DEF Moved
<1>5. Cardinality(Where(s, S) \cup Moved) = Cardinality(Where(s, S)) + Cardinality(Moved) - 0
  BY <1>1, <1>3, <1>4, FS_Union, FS_EmptySet
<1> QED
  BY <1>1, <1>3, <1>4, <1>5 DEF Count

\* n times the same element.
LEMMA CountConstant ==
  ASSUME NEW x, NEW n \in Nat, NEW S
  PROVE Count(Times(n, x), S) = IF x \in S THEN n ELSE 0
<1>1. Where(Times(n, x), S) = IF x \in S THEN 1 .. n ELSE {}
  BY DEF Where, Times
<1>2. Cardinality(1 .. n) = n
  BY FS_Interval
<1>3. CASE x \in S
  BY <1>1, <1>2, <1>3 DEF Count
<1>4. CASE x \notin S
  BY <1>1, <1>4, FS_EmptySet DEF Count
<1> QED
  BY <1>3, <1>4

\* No element, and one element.
LEMMA CountSmall ==
  ASSUME NEW x, NEW S
  PROVE Count(<< >>, S) = 0 /\ Count(<<x>>, S) = IF x \in S THEN 1 ELSE 0
<1>1. Where(<< >>, S) = {}
  BY DEF Where
<1>2. Where(<<x>>, S) = IF x \in S THEN {1} ELSE {}
  BY DEF Where
<1> QED
  BY <1>1, <1>2, FS_EmptySet, FS_Singleton DEF Count

\* One more at the end.
LEMMA CountAppend ==
  ASSUME NEW A, NEW q \in Seq(A), NEW x \in A, NEW S
  PROVE Count(Append(q, x), S) = Count(q, S) + IF x \in S THEN 1 ELSE 0
<1>1. Append(q, x) = q \o <<x>> /\ <<x>> \in Seq(A)
  OBVIOUS
<1>2. Count(q \o <<x>>, S) = Count(q, S) + Count(<<x>>, S)
  BY <1>1, CountConcat
<1>3. Count(<<x>>, S) = IF x \in S THEN 1 ELSE 0
  BY CountSmall
<1> QED
  BY <1>1, <1>2, <1>3, Zenon

\* One less at the front.
LEMMA CountTail ==
  ASSUME NEW A, NEW q \in Seq(A), q # << >>, NEW S
  PROVE Count(Tail(q), S) = Count(q, S) - IF Head(q) \in S THEN 1 ELSE 0
<1>1. /\ q = <<Head(q)>> \o Tail(q)
      /\ <<Head(q)>> \in Seq(A) /\ Tail(q) \in Seq(A)
  OBVIOUS
<1>2. Count(<<Head(q)>> \o Tail(q), S) = Count(<<Head(q)>>, S) + Count(Tail(q), S)
  BY <1>1, CountConcat
<1>3. Count(<<Head(q)>>, S) = IF Head(q) \in S THEN 1 ELSE 0
  BY CountSmall
<1>4. Count(Tail(q), S) \in Nat
  BY <1>1, WhereFinite
<1>5. Count(q, S) = (IF Head(q) \in S THEN 1 ELSE 0) + Count(Tail(q), S)
  BY <1>1, <1>2, <1>3, Zenon
<1> QED
  BY <1>4, <1>5
=============================================================================
