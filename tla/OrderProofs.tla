----------------------------- MODULE OrderProofs -----------------------------
(***************************************************************************)
(* Sets of natural numbers in their order: the least element, on which the *)
(* searches for the first of several candidates stand, and the n-th one,   *)
(* on which what is left of a queue and the choice of frames do.           *)
(***************************************************************************)
EXTENDS Lists, FiniteSetsExt, FiniteSetTheorems, TLAPS

(* The least element of a set is in it and below all others. *)
LEMMA MinProperty ==
  ASSUME NEW S \in SUBSET Nat, S # {}
  PROVE  Min(S) \in S /\ \A y \in S : Min(S) <= y
<1> DEFINE R == OpToRel(<, Nat)
<1>1. \E x \in S : \A y \in S : ~ (<<y, x>> \in R)
  <2>1. IsWellFoundedOn(R, Nat)
    BY NatLessThanWellFounded
  <2> HIDE DEF R
  <2> QED BY <2>1, WFMin, Zenon
<1>2. PICK x \in S : \A y \in S : ~ (<<y, x>> \in R)
  BY <1>1
<1>3. \A y \in S : <<y, x>> \in R <=> y < x
  BY DEF OpToRel
<1> HIDE DEF R
<1>4. \A y \in S : ~ (y < x)
  BY <1>2, <1>3, Zenon
<1>5. \A y \in S : x <= y
  BY <1>4
<1> QED BY <1>5, Zenon DEF Min

-----------------------------------------------------------------------------
(* How many elements of S are below i. *)
Rank(S, i) == Cardinality({j \in S : j < i})

(* A larger element has more below it. *)
LEMMA RankGrows ==
  ASSUME NEW S \in SUBSET Nat, IsFiniteSet(S), NEW i \in S, NEW k \in S, i < k
  PROVE  Rank(S, i) < Rank(S, k)
<1> DEFINE A == {j \in S : j < i}
           B == {j \in S : j < k}
<1>0. ~ (i < i) /\ \A j \in S : j < i => j < k
  OBVIOUS
<1>1. A \subseteq B /\ i \in B /\ i \notin A /\ B \subseteq S
  BY <1>0, Zenon
<1> HIDE DEF A, B
<1>2. IsFiniteSet(B) /\ Cardinality(B) \in Nat
  BY <1>1, FS_Subset, FS_CardinalityType, Zenon
<1>3. IsFiniteSet(A) /\ Cardinality(A) \in Nat /\ Cardinality(A) <= Cardinality(B)
      /\ (Cardinality(B) = Cardinality(A) => B = A)
  BY <1>1, <1>2, FS_Subset, FS_CardinalityType, Zenon
<1>4. Cardinality(B) # Cardinality(A)
  BY <1>1, <1>3
<1> QED BY <1>2, <1>3, <1>4 DEF A, B, Rank

(* The ranks are the numbers below the size of the set. *)
LEMMA RankBound ==
  ASSUME NEW S \in SUBSET Nat, IsFiniteSet(S), NEW i \in S
  PROVE  Rank(S, i) \in 0 .. Cardinality(S) - 1
<1> DEFINE A == {j \in S : j < i}
<1>1. A \subseteq S /\ i \notin A
  OBVIOUS
<1> HIDE DEF A
<1>2. Cardinality(S) \in Nat /\ Cardinality(A) \in Nat /\ Cardinality(A) <= Cardinality(S)
      /\ (Cardinality(S) = Cardinality(A) => S = A)
  BY <1>1, FS_Subset, FS_CardinalityType, Zenon
<1>3. Cardinality(S) # Cardinality(A)
  BY <1>1, <1>2
<1> QED BY <1>2, <1>3 DEF A, Rank

(* And each of them is the rank of one element. *)
LEMMA RankMeets ==
  ASSUME NEW S \in SUBSET Nat, IsFiniteSet(S), NEW n \in 0 .. Cardinality(S) - 1
  PROVE  \E i \in S : Rank(S, i) = n
<1> SUFFICES ASSUME \A i \in S : Rank(S, i) # n PROVE FALSE
  OBVIOUS
<1> DEFINE c == Cardinality(S)
           T == (0 .. c - 1) \ {n}
           f == [i \in S |-> Rank(S, i)]
<1>1. c \in Nat
  BY FS_CardinalityType
<1>2. IsFiniteSet(0 .. c - 1) /\ Cardinality(0 .. c - 1) = c
  <2>1. c # 0
    BY <1>1
  <2> HIDE DEF c
  <2>2. 0 \in Int /\ c - 1 \in Int /\ ~ (0 > c - 1) /\ (c - 1) - 0 + 1 = c
    BY <1>1, <2>1
  <2> QED BY <2>2, FS_Interval
<1>3. IsFiniteSet(T) /\ Cardinality(T) = c - 1
  BY <1>2, FS_RemoveElement, Zenon
<1>4. f \in [S -> T]
  BY RankBound
<1>5. Cardinality(T) < Cardinality(S)
  BY <1>1, <1>3
<1> HIDE DEF T, c
<1>6. PICK x, y \in S : x # y /\ f[x] = f[y]
  <2> HIDE DEF f
  <2> QED BY <1>3, <1>4, <1>5, FS_PigeonHole, Zenon
<1>7. Rank(S, x) \in Int /\ Rank(S, y) \in Int /\ Rank(S, x) = Rank(S, y)
  BY <1>6, RankBound
<1>8. x < y \/ y < x
  BY <1>6
<1> QED BY <1>7, <1>8, RankGrows

(* The element of rank n: it is there, and no other has its rank. *)
Nth(S, n) == CHOOSE i \in S : Cardinality({j \in S : j < i}) = n

LEMMA NthProperty ==
  ASSUME NEW S \in SUBSET Nat, IsFiniteSet(S), NEW n \in 0 .. Cardinality(S) - 1
  PROVE  Nth(S, n) \in S /\ Rank(S, Nth(S, n)) = n
<1>1. \E i \in S : Cardinality({j \in S : j < i}) = n
  BY RankMeets DEF Rank
<1> QED BY <1>1, Zenon DEF Nth, Rank

LEMMA NthOfRank ==
  ASSUME NEW S \in SUBSET Nat, IsFiniteSet(S), NEW i \in S
  PROVE  Nth(S, Rank(S, i)) = i
<1> DEFINE n == Rank(S, i)
           x == Nth(S, n)
<1>1. n \in 0 .. Cardinality(S) - 1
  BY RankBound
<1> HIDE DEF n
<1>2. x \in S /\ Rank(S, x) = n
  BY <1>1, NthProperty
<1> HIDE DEF x
<1>3. Rank(S, x) \in Int /\ Rank(S, x) = Rank(S, i)
  BY <1>2, RankBound DEF n
<1>4. ~ (x < i) /\ ~ (i < x)
  BY <1>2, <1>3, RankGrows
<1>5. x = i
  BY <1>2, <1>4
<1> QED BY <1>5 DEF x, n

-----------------------------------------------------------------------------
(* A function on the first n numbers is a sequence. *)
LEMMA IsSequence ==
  ASSUME NEW S, NEW n \in Nat, NEW f \in [1 .. n -> S]
  PROVE  f \in Seq(S) /\ Len(f) = n
OBVIOUS

(* What is left of a queue without some of its elements: the others, and    *)
(* each as often as before.                                                 *)
LEMMA WithoutProperty ==
  ASSUME NEW S, NEW q \in Seq(S), NEW gone
  PROVE  /\ Without(q, gone) \in Seq(S)
         /\ Range(Without(q, gone)) = Range(q) \ gone
         /\ IsInjective(q) => IsInjective(Without(q, gone))
         /\ \A a, b \in DOMAIN Without(q, gone) : a < b =>
              \E i, j \in DOMAIN q : i < j /\ q[i] = Without(q, gone)[a]
                                           /\ q[j] = Without(q, gone)[b]
<1> DEFINE kept == {i \in DOMAIN q : q[i] \notin gone}
           n == Cardinality(kept)
           w == [k \in 1 .. n |-> q[Nth(kept, k - 1)]]
<1>1. DOMAIN q = 1 .. Len(q) /\ Len(q) \in Nat /\ \A i \in 1 .. Len(q) : q[i] \in S
  OBVIOUS
<1>2. kept \in SUBSET Nat /\ IsFiniteSet(kept) /\ n \in Nat
  <2>1. kept \subseteq 1 .. Len(q) /\ IsFiniteSet(1 .. Len(q))
    BY <1>1, FS_Interval
  <2> HIDE DEF kept
  <2>2. IsFiniteSet(kept)
    BY <2>1, FS_Subset, Zenon
  <2> QED BY <2>1, <2>2, <1>1, FS_CardinalityType
<1>3. Without(q, gone) = w
  BY DEF Without, Nth
<1>4. \A i : i \in kept <=> i \in 1 .. Len(q) /\ q[i] \notin gone
  BY <1>1
<1> HIDE DEF kept, n
<1>5. ASSUME NEW k \in 1 .. n
      PROVE  Nth(kept, k - 1) \in kept /\ Rank(kept, Nth(kept, k - 1)) = k - 1
  <2>1. k - 1 \in 0 .. Cardinality(kept) - 1
    BY <1>2 DEF n
  <2> QED BY <2>1, <1>2, NthProperty
<1>6. w \in [1 .. n -> S]
  BY <1>1, <1>4, <1>5
<1>7. w \in Seq(S)
  BY <1>2, <1>6, IsSequence
<1>8. Range(w) = Range(q) \ gone
  <2>1. ASSUME NEW k \in 1 .. n
        PROVE  w[k] \in Range(q) \ gone
    BY <1>1, <1>4, <1>5 DEF Range
  <2>2. ASSUME NEW e \in Range(q) \ gone
        PROVE  \E k \in 1 .. n : w[k] = e
    <3>1. PICK i \in 1 .. Len(q) : q[i] = e
      BY <1>1 DEF Range
    <3>2. i \in kept
      BY <3>1, <1>4
    <3>3. /\ Rank(kept, i) \in 0 .. Cardinality(kept) - 1
          /\ Nth(kept, Rank(kept, i)) = i
      BY <3>2, <1>2, RankBound, NthOfRank
    <3>4. Rank(kept, i) + 1 \in 1 .. n /\ (Rank(kept, i) + 1) - 1 = Rank(kept, i)
      BY <3>3, <1>2 DEF n
    <3>5. w[Rank(kept, i) + 1] = q[i]
      BY <3>3, <3>4
    <3> QED BY <3>1, <3>4, <3>5
  <2>3. DOMAIN w = 1 .. n
    OBVIOUS
  <2> HIDE DEF w
  <2> QED BY <2>1, <2>2, <2>3 DEF Range
<1>9. ASSUME IsInjective(q) PROVE IsInjective(w)
  <2> SUFFICES ASSUME NEW a \in 1 .. n, NEW b \in 1 .. n, w[a] = w[b]
               PROVE  a = b
    BY DEF IsInjective
  <2>1. Nth(kept, a - 1) = Nth(kept, b - 1)
    BY <1>1, <1>4, <1>5, <1>9 DEF IsInjective
  <2>2. a - 1 = b - 1
    BY <2>1, <1>5
  <2> QED BY <2>2, <1>2
<1>10. ASSUME NEW a \in 1 .. n, NEW b \in 1 .. n, a < b
       PROVE  \E i, j \in DOMAIN q : i < j /\ q[i] = w[a] /\ q[j] = w[b]
  <2> DEFINE i == Nth(kept, a - 1)
             j == Nth(kept, b - 1)
  <2>1. i \in kept /\ Rank(kept, i) = a - 1 /\ j \in kept /\ Rank(kept, j) = b - 1
    BY <1>5
  <2>2. w[a] = q[i] /\ w[b] = q[j]
    OBVIOUS
  <2> HIDE DEF i, j, w
  <2>3. i # j /\ ~(j < i)
    BY <2>1, <1>2, <1>10, RankGrows
  <2>4. i \in DOMAIN q /\ j \in DOMAIN q /\ i \in Nat /\ j \in Nat
    BY <2>1, <1>1, <1>4
  <2> QED BY <2>2, <2>3, <2>4
<1>11. DOMAIN w = 1 .. n
  OBVIOUS
<1> HIDE DEF w
<1> QED BY <1>3, <1>7, <1>8, <1>9, <1>10, <1>11

(* The head of a queue without doubles is not in the rest. *)
LEMMA TailProperty ==
  ASSUME NEW S, NEW q \in Seq(S), q # <<>>, IsInjective(q)
  PROVE  /\ Tail(q) \in Seq(S) /\ IsInjective(Tail(q)) /\ Head(q) \in S
         /\ Head(q) \in Range(q) /\ Range(Tail(q)) = Range(q) \ {Head(q)}
<1>1. Len(q) \in Nat /\ Len(q) > 0 /\ DOMAIN q = 1 .. Len(q) /\ Head(q) = q[1] /\ q[1] \in S
  OBVIOUS
<1>2. Tail(q) \in Seq(S) /\ DOMAIN Tail(q) = 1 .. Len(q) - 1
      /\ \A i \in 1 .. Len(q) - 1 : Tail(q)[i] = q[i + 1]
  BY <1>1
<1>3. IsInjective(Tail(q))
  BY <1>1, <1>2 DEF IsInjective
<1>4. Range(Tail(q)) \subseteq Range(q) \ {q[1]}
  BY <1>1, <1>2 DEF Range, IsInjective
<1>5. ASSUME NEW x \in Range(q), x # q[1] PROVE x \in Range(Tail(q))
  <2>1. PICK i \in 1 .. Len(q) : x = q[i]
    BY <1>1 DEF Range
  <2>2. i - 1 \in 1 .. Len(q) - 1 /\ (i - 1) + 1 = i
    BY <1>1, <1>5, <2>1
  <2> QED BY <1>2, <2>1, <2>2 DEF Range
<1>6. q[1] \in Range(q)
  BY <1>1 DEF Range
<1> QED BY <1>1, <1>2, <1>3, <1>4, <1>5, <1>6

(* One more at the end of a queue. *)
LEMMA AppendProperty ==
  ASSUME NEW S, NEW q \in Seq(S), NEW x \in S, x \notin Range(q), IsInjective(q)
  PROVE  /\ Append(q, x) \in Seq(S) /\ IsInjective(Append(q, x))
         /\ Range(Append(q, x)) = Range(q) \cup {x}
<1>1. Len(q) \in Nat /\ DOMAIN q = 1 .. Len(q)
      /\ Append(q, x) \in Seq(S) /\ DOMAIN Append(q, x) = 1 .. Len(q) + 1
      /\ (\A i \in 1 .. Len(q) : Append(q, x)[i] = q[i]) /\ Append(q, x)[Len(q) + 1] = x
  OBVIOUS
<1>2. \A i \in 1 .. Len(q) + 1 : i \in 1 .. Len(q) \/ i = Len(q) + 1
  BY <1>1
<1>3. \A i \in 1 .. Len(q) : q[i] # x
  BY <1>1 DEF Range
<1>4. IsInjective(Append(q, x))
  BY <1>1, <1>2, <1>3 DEF IsInjective
<1>5. \A y : y \in Range(Append(q, x)) => y \in Range(q) \cup {x}
  BY <1>1, <1>2 DEF Range
<1>6. 1 .. Len(q) \subseteq 1 .. Len(q) + 1 /\ Len(q) + 1 \in 1 .. Len(q) + 1
  BY <1>1
<1>7. \A y : y \in Range(q) \cup {x} => y \in Range(Append(q, x))
  BY <1>1, <1>6 DEF Range
<1> QED BY <1>1, <1>4, <1>5, <1>7
=============================================================================
