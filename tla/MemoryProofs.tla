---------------------------- MODULE MemoryProofs ----------------------------
(***************************************************************************)
(* Proofs about the kernel's memory, for every size of the heap and every  *)
(* number of tasks and frames.                                             *)
(*                                                                         *)
(* Kheap: the blocks fill the heap, each is a hole or a caller's, the      *)
(* holes are in order of size and none lie side by side; what callers get  *)
(* is theirs alone, which is to implement Allocator.                       *)
(*                                                                         *)
(* Paging: a mapped frame is reserved and has one owner, no frame is lost, *)
(* a page that is present has its table, and tasks do not see each other's *)
(* writes.                                                                 *)
(***************************************************************************)
EXTENDS Kheap, Paging, OrderProofs

(* The heap. *)

(* Arithmetic on pages. *)
LEMMA PageMultiple ==
  ASSUME NEW P \in Nat \ {0}, NEW q \in Int
  PROVE  (P * q) % P = 0
OBVIOUS

LEMMA PageQuotient ==
  ASSUME NEW P \in Nat \ {0}, NEW a \in Nat
  PROVE  /\ a % P \in 0 .. P - 1 /\ a \div P \in Nat
         /\ a = (P * (a \div P)) + (a % P)
OBVIOUS

LEMMA MaxProperty ==
  ASSUME NEW S \in SUBSET Nat, S # {}, NEW n \in Nat, \A x \in S : x <= n
  PROVE  Max(S) \in S /\ \A y \in S : y <= Max(S)
<1> DEFINE D == {n - x : x \in S}
<1>0. \A x \in S : n - x \in Nat
  OBVIOUS
<1>1. D \in SUBSET Nat /\ D # {}
  BY <1>0, Zenon
<1>2. Min(D) \in D /\ \A y \in D : Min(D) <= y
  <2> HIDE DEF D
  <2> QED BY <1>1, MinProperty, Zenon
<1>3. PICK x \in S : Min(D) = n - x
  BY <1>2, Zenon
<1>4. ASSUME NEW y \in S PROVE y <= x
  <2>1. n - y \in D
    BY Zenon
  <2>2. Min(D) <= n - y
    BY <2>1, <1>2, Zenon
  <2> HIDE DEF D
  <2> QED BY <2>2, <1>3
<1>5. \E m \in S : \A y \in S : m >= y
  BY <1>4, Zenon
<1>6. Max(S) \in S /\ \A y \in S : Max(S) >= y
  BY <1>5, Zenon DEF Max
<1> QED BY <1>6, Zenon

-----------------------------------------------------------------------------
(* An element put into a sequence at place i. *)
Inserted(q, i, b) == SubSeq(q, 1, i - 1) \o <<b>> \o SubSeq(q, i, Len(q))

LEMMA InsertProperty ==
  ASSUME NEW S, NEW q \in Seq(S), NEW b \in S, NEW i \in 1 .. Len(q) + 1
  PROVE  LET w == Inserted(q, i, b)
         IN /\ w \in Seq(S) /\ Len(w) = Len(q) + 1
            /\ \A j \in 1 .. Len(q) + 1 :
                 w[j] = IF j < i THEN q[j] ELSE IF j = i THEN b ELSE q[j - 1]
<1> DEFINE u == SubSeq(q, 1, i - 1)
           v == SubSeq(q, i, Len(q))
           w == u \o <<b>> \o v
<1>1. /\ u \in Seq(S) /\ Len(u) = i - 1 /\ \A j \in 1 .. i - 1 : u[j] = q[j]
  OBVIOUS
<1>2. /\ v \in Seq(S) /\ Len(v) = Len(q) + 1 - i
      /\ \A j \in 1 .. Len(q) + 1 - i : v[j] = q[j + i - 1]
  OBVIOUS
<1>3. u \o <<b>> \in Seq(S) /\ Len(u \o <<b>>) = i
      /\ \A j \in 1 .. i : (u \o <<b>>)[j] = IF j < i THEN q[j] ELSE b
  <2> HIDE DEF u, v
  <2> QED BY <1>1
<1>4. w \in Seq(S) /\ Len(w) = Len(q) + 1
  <2> HIDE DEF u, v
  <2> QED BY <1>2, <1>3
<1>5. ASSUME NEW j \in 1 .. Len(q) + 1
      PROVE  w[j] = IF j < i THEN q[j] ELSE IF j = i THEN b ELSE q[j - 1]
  <2>1. CASE j <= i
    <3> HIDE DEF u, v
    <3> QED BY <1>2, <1>3, <2>1
  <2>2. CASE j > i
    <3>1. j - i \in 1 .. Len(q) + 1 - i /\ (j - i) + i - 1 = j - 1
      BY <2>2
    <3>2. v[j - i] = q[j - 1]
      BY <3>1, <1>2, Zenon
    <3> HIDE DEF u, v
    <3>3. w[j] = v[j - i]
      BY <1>2, <1>3, <2>2
    <3>4. ~(j < i) /\ j # i
      BY <2>2
    <3> HIDE DEF w
    <3> QED BY <3>2, <3>3, <3>4, Zenon
  <2> HIDE DEF w
  <2>3. j <= i \/ j > i
    OBVIOUS
  <2> QED BY <2>1, <2>2, <2>3, Zenon
<1> QED BY <1>4, <1>5, Zenon DEF Inserted

-----------------------------------------------------------------------------
Holes(h) == Range(h.holes)
Used(h) == Blocks(h) \ Holes(h)

(* A heap is a record of its fields. *)
Shape(h) ==
  /\ h = [size |-> h.size, holes |-> h.holes, memend |-> h.memend]
  /\ h.size \in [Blocks(h) -> Nat] /\ Blocks(h) \subseteq Nat /\ h.memend \in Nat
  /\ h.holes \in Seq(Nat)

(* Its blocks fill it. *)
Filled(h) ==
  /\ \A b \in Blocks(h) :
       /\ h.size[b] >= KHEAP_OVHD
       /\ b + h.size[b] \in Blocks(h) \cup {h.memend}
       /\ b + h.size[b] <= h.memend
       /\ \A x \in Blocks(h) : ~(b < x /\ x < b + h.size[b])
  /\ h.memend # 0 => 0 \in Blocks(h)

(* Its list has each hole once, in the order of size. *)
Listed(h) ==
  /\ Holes(h) \subseteq Blocks(h) /\ IsInjective(h.holes)
  /\ \A i, j \in 1 .. Len(h.holes) : i < j => h.size[h.holes[i]] <= h.size[h.holes[j]]

(* No two holes lie side by side, those in X left aside. *)
Apart(h, X) == \A b \in Holes(h) \ X : b + h.size[b] \notin Holes(h) \ X

Sound(h) == Shape(h) /\ Filled(h) /\ Listed(h)

-----------------------------------------------------------------------------
LEMMA Overhead ==
  ASSUME KheapAssumption
  PROVE  /\ KHEAP_OVHD \in Nat /\ KHEAP_OVHD > 0 /\ KHEAP_OVHD < PAGE_SIZE
         /\ PAGE_SIZE \in Nat \ {0} /\ Header \in Nat /\ Footer \in Nat
         /\ memmax \in Nat \ {0} /\ Lengths \subseteq Nat /\ memmax % PAGE_SIZE = 0
BY DEF KheapAssumption, KHEAP_OVHD

(* Inserting into a list sorted by s, behind all smaller ones. *)
LEMMA SortedInsert ==
  ASSUME NEW S, NEW q \in Seq(S), NEW b \in S, NEW s, NEW i \in Nat, i >= 1, i <= Len(q) + 1,
         s[b] \in Nat, \A j \in 1 .. Len(q) : s[q[j]] \in Nat /\ q[j] # b,
         i <= Len(q) => s[q[i]] >= s[b],
         \A j \in 1 .. i - 1 : s[q[j]] < s[b],
         IsInjective(q),
         \A j, k \in 1 .. Len(q) : j < k => s[q[j]] <= s[q[k]]
  PROVE  LET w == Inserted(q, i, b)
         IN /\ w \in Seq(S) /\ Range(w) = Range(q) \cup {b} /\ IsInjective(w)
            /\ \A j, k \in 1 .. Len(w) : j < k => s[w[j]] <= s[w[k]]
<1> DEFINE w == Inserted(q, i, b)
           n == Len(q)
<1>0. Len(q) \in Nat /\ i \in 1 .. Len(q) + 1
  OBVIOUS
<1>1. w \in Seq(S) /\ Len(w) = n + 1
      /\ \A j \in 1 .. n + 1 :
            w[j] = IF j < i THEN q[j] ELSE IF j = i THEN b ELSE q[j - 1]
  <2>1. ASSUME NEW ii, ii \in 1 .. Len(q) + 1
        PROVE  Inserted(q, ii, b) \in Seq(S) /\ Len(Inserted(q, ii, b)) = Len(q) + 1
    BY <2>1, InsertProperty
  <2>2. w \in Seq(S) /\ Len(w) = n + 1
    BY <1>0, <2>1, Zenon
  <2>3. \A j \in 1 .. n + 1 :
            w[j] = IF j < i THEN q[j] ELSE IF j = i THEN b ELSE q[j - 1]
    BY <1>0, InsertProperty
  <2> QED BY <2>2, <2>3, Zenon
<1> HIDE DEF w
<1>2. n \in Nat /\ DOMAIN w = 1 .. n + 1 /\ DOMAIN q = 1 .. n /\ Len(w) = n + 1 /\ i <= n + 1
  BY <1>1
<1>3. \A j \in 1 .. n : j < i => j \in 1 .. n + 1 /\ w[j] = q[j]
  BY <1>1, <1>2
<1>4. i \in 1 .. n + 1 /\ w[i] = b
  BY <1>1, <1>2
<1>5. \A j \in 1 .. n : j >= i => j + 1 \in 1 .. n + 1 /\ w[j + 1] = q[j]
  <2> SUFFICES ASSUME NEW j \in 1 .. n, j >= i PROVE j + 1 \in 1 .. n + 1 /\ w[j + 1] = q[j]
    BY Zenon
  <2>1. j + 1 \in 1 .. n + 1 /\ ~(j + 1 < i) /\ j + 1 # i /\ (j + 1) - 1 = j
    BY <1>2
  <2> QED BY <1>1, <2>1, Zenon
<1>6. ASSUME NEW j \in 1 .. n + 1
      PROVE  \/ j = i
             \/ j < i /\ j \in 1 .. n
             \/ j > i /\ j - 1 \in 1 .. n /\ j - 1 >= i /\ w[j] = q[j - 1]
  <2> HIDE DEF n, w
  <2> QED BY <1>1, <1>2
<1>7. \A j \in 1 .. n : s[q[j]] \in Nat /\ q[j] # b
  BY Zenon
<1>8. \A j \in 1 .. n : j >= i => s[q[j]] >= s[b]
  <2> SUFFICES ASSUME NEW j \in 1 .. n, j >= i PROVE s[q[j]] >= s[b]
    BY Zenon
  <2>1. i \in 1 .. n /\ s[q[i]] >= s[b]
    BY <1>2
  <2>2. j = i \/ s[q[i]] <= s[q[j]]
    BY <2>1
  <2> QED BY <2>1, <2>2, <1>7
<1>9. \A j \in 1 .. n : j < i => s[q[j]] < s[b]
  OBVIOUS
<1>10. \A j, k \in 1 .. n : j < k => s[q[j]] <= s[q[k]]
  BY Zenon
<1>11. \A j, k \in 1 .. n : q[j] = q[k] => j = k
  BY <1>2, Zenon DEF IsInjective
<1> HIDE DEF n
<1>12. Range(w) = Range(q) \cup {b}
  <2>1. ASSUME NEW j \in 1 .. n + 1 PROVE w[j] = b \/ \E k \in 1 .. n : w[j] = q[k]
    BY <1>3, <1>4, <1>6, Zenon
  <2>2. ASSUME NEW k \in 1 .. n PROVE \E j \in 1 .. n + 1 : w[j] = q[k]
    BY <1>2, <1>3, <1>5
  <2>3. Range(w) = {w[j] : j \in 1 .. n + 1} /\ Range(q) = {q[k] : k \in 1 .. n}
    BY <1>2, Zenon DEF Range
  <2>4. \A y : y \in Range(w) <=> y \in Range(q) \/ y = b
    BY <2>1, <2>2, <2>3, <1>4, Zenon
  <2> QED BY <2>4, Zenon
<1>13. IsInjective(w)
  <2> SUFFICES ASSUME NEW j \in 1 .. n + 1, NEW k \in 1 .. n + 1, w[j] = w[k] PROVE j = k
    BY <1>2, Zenon DEF IsInjective
  <2>1. CASE j = i
    BY <2>1, <1>3, <1>4, <1>6, <1>7, Zenon
  <2>2. CASE k = i
    BY <2>2, <1>3, <1>4, <1>6, <1>7, Zenon
  <2>3. CASE j # i /\ k # i
    <3>0. ASSUME NEW x \in 1 .. n + 1, x # i
          PROVE  \E y \in 1 .. n : w[x] = q[y] /\ ((x = y /\ y < i) \/ (x = y + 1 /\ y >= i))
      <4>1. CASE x < i /\ x \in 1 .. n
        BY <4>1, <1>3, Zenon
      <4>2. CASE x > i /\ x - 1 \in 1 .. n /\ x - 1 >= i /\ w[x] = q[x - 1]
        <5>1. x = (x - 1) + 1
          OBVIOUS
        <5> QED BY <4>2, <5>1, Zenon
      <4> QED BY <3>0, <4>1, <4>2, <1>6, Zenon
    <3>1. PICK jj \in 1 .. n : w[j] = q[jj] /\ ((j = jj /\ jj < i) \/ (j = jj + 1 /\ jj >= i))
      BY <2>3, <3>0, Zenon
    <3>2. PICK kk \in 1 .. n : w[k] = q[kk] /\ ((k = kk /\ kk < i) \/ (k = kk + 1 /\ kk >= i))
      BY <2>3, <3>0, Zenon
    <3>3. jj = kk
      BY <3>1, <3>2, <1>11, Zenon
    <3> QED BY <3>1, <3>2, <3>3, <1>2
  <2> QED BY <2>1, <2>2, <2>3, Zenon
<1>14. ASSUME NEW j \in 1 .. n + 1, NEW k \in 1 .. n + 1, j < k PROVE s[w[j]] <= s[w[k]]
  <2>1. CASE j < i /\ k < i
    BY <2>1, <1>2, <1>3, <1>6, <1>10, <1>14
  <2>2. CASE j < i /\ k = i
    <3>1. w[j] = q[j] /\ w[k] = b /\ s[q[j]] < s[b] /\ s[q[j]] \in Nat
      BY <2>2, <1>3, <1>4, <1>6, <1>7, <1>9
    <3> QED BY <3>1
  <2>3. CASE j < i /\ k > i
    <3>1. w[j] = q[j] /\ w[k] = q[k - 1] /\ j \in 1 .. n /\ k - 1 \in 1 .. n /\ j < k - 1
      BY <2>3, <1>2, <1>3, <1>6
    <3> QED BY <3>1, <1>10, Zenon
  <2>4. CASE j = i /\ k > i
    BY <2>4, <1>4, <1>6, <1>7, <1>8
  <2>5. CASE j > i /\ k > i
    <3>1. w[j] = q[j - 1] /\ w[k] = q[k - 1] /\ j - 1 \in 1 .. n /\ k - 1 \in 1 .. n /\ j - 1 < k - 1
      BY <2>5, <1>2, <1>6, <1>14
    <3> QED BY <3>1, <1>10, Zenon
  <2> QED BY <2>1, <2>2, <2>3, <2>4, <2>5, <1>2, <1>14
<1> QED BY <1>1, <1>2, <1>12, <1>13, <1>14, Zenon DEF w, n

(* A block that becomes a hole takes its place in the list. *)
LEMMA AddHole ==
  ASSUME KheapAssumption, NEW h, Sound(h), NEW b \in Used(h)
  PROVE  LET g == heap_add_hole(h, b)
         IN Sound(g) /\ g.size = h.size /\ g.memend = h.memend /\ Holes(g) = Holes(h) \cup {b}
<1> DEFINE N == NotSmaller(h, b)
           i == Min(N)
           g == heap_add_hole(h, b)
<1>1. /\ h.holes \in Seq(Nat) /\ Len(h.holes) \in Nat /\ b \in Nat /\ b \in Blocks(h) /\ h.size[b] \in Nat
      /\ \A j \in 1 .. Len(h.holes) : h.holes[j] \in Blocks(h) /\ h.holes[j] # b /\ h.size[h.holes[j]] \in Nat
  BY DEF Sound, Shape, Listed, Used, Holes, Range
<1>2. N \in SUBSET Nat /\ Len(h.holes) + 1 \in N
  BY <1>1 DEF NotSmaller
<1>3. \A j : j \in N <=> j \in 1 .. Len(h.holes) + 1 /\ (j <= Len(h.holes) => h.size[h.holes[j]] >= h.size[b])
  BY Zenon DEF NotSmaller
<1> HIDE DEF N
<1>4. i \in N /\ \A y \in N : i <= y
  BY <1>2, MinProperty, Zenon
<1>5. g = [size |-> h.size,
           holes |-> Inserted(h.holes, i, b),
           memend |-> h.memend]
  <2>1. h = [size |-> h.size, holes |-> h.holes, memend |-> h.memend]
    BY Zenon DEF Sound, Shape
  <2>2. g = [h EXCEPT !.holes = Inserted(h.holes, i, b)]
    BY Zenon DEF heap_add_hole, N, Inserted
  <2> HIDE DEF g, i
  <2> QED BY <2>1, <2>2, Zenon
<1> HIDE DEF i, g
<1>6. i \in Nat /\ i >= 1 /\ i <= Len(h.holes) + 1 /\ (i <= Len(h.holes) => h.size[h.holes[i]] >= h.size[b])
  BY <1>1, <1>3, <1>4
<1>7. \A j \in 1 .. i - 1 : h.size[h.holes[j]] < h.size[b]
  <2> SUFFICES ASSUME NEW j \in 1 .. i - 1 PROVE h.size[h.holes[j]] < h.size[b]
    BY Zenon
  <2>1. j \notin N /\ j \in 1 .. Len(h.holes) /\ j \in 1 .. Len(h.holes) + 1
    BY <1>1, <1>2, <1>4, <1>6
  <2> QED BY <2>1, <1>1, <1>3
<1>8. IsInjective(h.holes) /\ \A j, k \in 1 .. Len(h.holes) : j < k => h.size[h.holes[j]] <= h.size[h.holes[k]]
  BY Zenon DEF Sound, Listed
<1> DEFINE w == Inserted(h.holes, i, b)
<1>9. /\ w \in Seq(Nat) /\ Range(w) = Range(h.holes) \cup {b} /\ IsInjective(w)
      /\ \A j, k \in 1 .. Len(w) : j < k => h.size[w[j]] <= h.size[w[k]]
  <2> DEFINE S == Nat
  <2>1. h.holes \in Seq(S) /\ b \in S
    BY <1>1, Zenon
  <2> HIDE DEF S
  <2>2. /\ w \in Seq(S) /\ Range(w) = Range(h.holes) \cup {b} /\ IsInjective(w)
        /\ \A j, k \in 1 .. Len(w) : j < k => h.size[w[j]] <= h.size[w[k]]
    BY <2>1, <1>1, <1>6, <1>7, <1>8, SortedInsert, Zenon
  <2> QED BY <2>2, Zenon DEF S
<1>10. g = [size |-> h.size, holes |-> w, memend |-> h.memend]
  BY <1>5, Zenon
<1> HIDE DEF w
<1>11. g.size = h.size /\ g.holes = w /\ g.memend = h.memend /\ Blocks(g) = Blocks(h)
  BY <1>10, Zenon DEF Blocks
<1>12. Shape(g)
  BY <1>9, <1>10, <1>11, Zenon DEF Sound, Shape, Blocks
<1>13. Filled(g)
  BY <1>11, Zenon DEF Sound, Filled
<1>14. Listed(g)
  BY <1>1, <1>9, <1>11, Zenon DEF Listed, Sound, Holes
<1> QED BY <1>9, <1>11, <1>12, <1>13, <1>14, Zenon DEF g, Sound, Holes

-----------------------------------------------------------------------------
(* Taking holes out of the list. *)
LEMMA WithoutHoles ==
  ASSUME NEW h, Sound(h), NEW X
  PROVE  LET w == Without(h.holes, X)
         IN /\ w \in Seq(Nat) /\ Range(w) = Holes(h) \ X /\ IsInjective(w)
            /\ \A i, j \in 1 .. Len(w) : i < j => h.size[w[i]] <= h.size[w[j]]
<1> DEFINE S == Nat
           w == Without(h.holes, X)
<1>1. h.holes \in Seq(S) /\ IsInjective(h.holes)
      /\ \A i, j \in 1 .. Len(h.holes) : i < j => h.size[h.holes[i]] <= h.size[h.holes[j]]
  BY Zenon DEF Sound, Shape, Listed
<1> HIDE DEF S
<1>2. /\ w \in Seq(S) /\ Range(w) = Range(h.holes) \ X /\ IsInjective(w)
      /\ \A a, b \in DOMAIN w : a < b =>
              \E i, j \in DOMAIN h.holes : i < j /\ h.holes[i] = w[a] /\ h.holes[j] = w[b]
  BY <1>1, WithoutProperty
<1> HIDE DEF w
<1>3. DOMAIN w = 1 .. Len(w) /\ DOMAIN h.holes = 1 .. Len(h.holes)
  BY <1>1, <1>2
<1>4. ASSUME NEW i \in 1 .. Len(w), NEW j \in 1 .. Len(w), i < j
      PROVE  h.size[w[i]] <= h.size[w[j]]
  <2>1. PICK k \in 1 .. Len(h.holes), m \in 1 .. Len(h.holes) :
          k < m /\ h.holes[k] = w[i] /\ h.holes[m] = w[j]
    BY <1>2, <1>3, <1>4
  <2>2. h.size[h.holes[k]] <= h.size[h.holes[m]]
    BY <1>1, <2>1, Zenon
  <2> QED BY <2>1, <2>2, Zenon
<1> QED BY <1>2, <1>4, Zenon DEF w, S, Holes

LEMMA RemHole ==
  ASSUME NEW h, Sound(h), NEW b
  PROVE  LET g == list_rem(h, b)
         IN Sound(g) /\ g.size = h.size /\ g.memend = h.memend /\ Holes(g) = Holes(h) \ {b}
<1> DEFINE g == list_rem(h, b)
           w == Without(h.holes, {b})
<1>1. h = [size |-> h.size, holes |-> h.holes, memend |-> h.memend]
  BY Zenon DEF Sound, Shape
<1>2. g = [h EXCEPT !.holes = w]
  BY Zenon DEF list_rem
<1>3. /\ w \in Seq(Nat) /\ Range(w) = Holes(h) \ {b} /\ IsInjective(w)
      /\ \A i, j \in 1 .. Len(w) : i < j => h.size[w[i]] <= h.size[w[j]]
  BY WithoutHoles, Zenon
<1> HIDE DEF w, g
<1>4. g = [size |-> h.size, holes |-> w, memend |-> h.memend]
  BY <1>1, <1>2, Zenon
<1>5. g.size = h.size /\ g.holes = w /\ g.memend = h.memend /\ Blocks(g) = Blocks(h)
  BY <1>4, Zenon DEF Blocks
<1>6. Shape(g)
  BY <1>3, <1>4, <1>5, Zenon DEF Sound, Shape, Blocks
<1>7. Filled(g)
  BY <1>5, Zenon DEF Sound, Filled
<1>8. Listed(g)
  BY <1>3, <1>5, Zenon DEF Listed, Sound, Holes
<1> QED BY <1>3, <1>5, <1>6, <1>7, <1>8, Zenon DEF g, Sound, Holes

(* The blocks in order: the one behind another begins where it ends. *)
LEMMA Behind ==
  ASSUME KheapAssumption, NEW h, Sound(h), NEW x \in Blocks(h), NEW y \in Blocks(h), x < y
  PROVE  /\ x \in Nat /\ y \in Nat /\ h.size[x] \in Nat /\ h.size[y] \in Nat /\ h.memend \in Nat
         /\ x + h.size[x] \in Blocks(h) /\ x + h.size[x] <= y /\ x < x + h.size[x]
<1>1. x \in Nat /\ y \in Nat /\ h.size[x] \in Nat /\ h.size[y] \in Nat /\ h.memend \in Nat
  BY Zenon DEF Sound, Shape
<1>2. KHEAP_OVHD \in Nat /\ KHEAP_OVHD > 0
  BY Overhead, Zenon
<1>3. h.size[x] >= KHEAP_OVHD /\ h.size[y] >= KHEAP_OVHD
      /\ x + h.size[x] \in Blocks(h) \cup {h.memend}
      /\ y + h.size[y] <= h.memend /\ ~(x < y /\ y < x + h.size[x])
  BY Zenon DEF Sound, Filled
<1>4. x + h.size[x] <= y /\ x + h.size[x] # h.memend /\ x < x + h.size[x]
  BY <1>1, <1>2, <1>3
<1> QED BY <1>1, <1>3, <1>4, Zenon

(* The run of a block: with the block at its place, all of it holes, and as *)
(* long as there are any.                                                   *)
LEMMA RunProperty ==
  ASSUME KheapAssumption, NEW h, Sound(h), NEW b \in Used(h)
  PROVE  LET R == Run(h, b)
             first == Min(R)
             last == Max(R)
             e == last + h.size[last]
         IN /\ R \subseteq Blocks(h) /\ b \in R /\ first \in R /\ last \in R
            /\ \A x \in R : first <= x /\ x <= last /\ (x = b \/ x \in Holes(h))
            /\ \A x \in Blocks(h) \ R : x < first \/ x >= e
            /\ e \notin Holes(h) /\ e \notin R
            /\ \A x \in Holes(h) \ R : x + h.size[x] # first
<1> DEFINE B == Blocks(h)
           R == Run(h, b)
           first == Min(R)
           last == Max(R)
           e == last + h.size[last]
<1>1. /\ B \subseteq Nat /\ b \in B /\ b \notin Holes(h) /\ h.memend \in Nat
      /\ \A x \in B : h.size[x] \in Nat /\ x <= h.memend /\ h.size[x] > 0
  <2>1. B \subseteq Nat /\ b \in B /\ b \notin Holes(h) /\ h.memend \in Nat
    BY Zenon DEF Sound, Shape, Used
  <2>2. ASSUME NEW x \in B PROVE h.size[x] \in Nat /\ x <= h.memend /\ h.size[x] > 0
    <3>1. h.size[x] \in Nat /\ x \in Nat
      BY <2>1, Zenon DEF Sound, Shape
    <3>2. x + h.size[x] <= h.memend /\ h.size[x] >= KHEAP_OVHD
      BY Zenon DEF Sound, Filled
    <3> QED BY <2>1, <3>1, <3>2, Overhead
  <2> QED BY <2>1, <2>2, Zenon
<1>2. \A x : x \in HolesBefore(h, b) <=>
              x \in B /\ x < b /\ \A y \in B : x <= y /\ y < b => y \in Holes(h)
  BY Zenon DEF HolesBefore, IsHole, Holes
<1>3. \A x : x \in HolesBehind(h, b) <=>
              x \in B /\ b < x /\ \A y \in B : b < y /\ y <= x => y \in Holes(h)
  BY Zenon DEF HolesBehind, IsHole, Holes
<1>4. \A x : x \in R <=> x \in HolesBefore(h, b) \/ x = b \/ x \in HolesBehind(h, b)
  BY Zenon DEF Run
<1>5. R \in SUBSET Nat /\ R \subseteq B /\ b \in R /\ R # {} /\ \A x \in R : x <= h.memend
  BY <1>1, <1>2, <1>3, <1>4, Zenon
<1> HIDE DEF R
<1>6. first \in R /\ \A x \in R : first <= x
  BY <1>5, MinProperty, Zenon
<1>7. last \in R /\ \A x \in R : x <= last
  BY <1>1, <1>5, MaxProperty, Zenon
<1> HIDE DEF first, last, B
<1>8. first \in Nat /\ last \in Nat /\ first <= b /\ b <= last /\ h.size[last] \in Nat /\ e \in Nat
      /\ first \in B /\ last \in B /\ last < e /\ b \in Nat
  <2>1. first \in B /\ last \in B /\ first <= b /\ b <= last
    BY <1>5, <1>6, <1>7, Zenon
  <2>2. first \in Nat /\ last \in Nat /\ b \in Nat /\ h.size[last] \in Nat /\ h.size[last] > 0
    BY <1>1, <2>1, Zenon
  <2>3. e \in Nat /\ last < e
    BY <2>2, SMTT(30)
  <2> QED BY <2>1, <2>2, <2>3, Zenon
<1>9. \A x \in R : x = b \/ x \in Holes(h)
  BY <1>1, <1>2, <1>3, <1>4, <1>5
<1>10. ASSUME NEW x \in B, first <= x, x <= last PROVE x \in R
  <2>0. x \in Nat
    BY <1>1, Zenon
  <2>1. CASE x < b
    <3>1. first < b /\ first # b
      BY <2>0, <2>1, <1>8, <1>10
    <3>2. first \in HolesBefore(h, b)
      BY <3>1, <1>3, <1>4, <1>6, <1>8
    <3>3. ASSUME NEW y \in B, x <= y, y < b PROVE y \in Holes(h)
      <4>0. y \in Nat /\ x \in Nat /\ first \in Nat /\ first <= x /\ x <= y
        BY <3>3, <2>0, <1>1, <1>8, <1>10, Zenon
      <4>1. first <= y
        BY <4>0, SMTT(30)
      <4> QED BY <4>1, <3>2, <3>3, <1>2, Zenon
    <3> QED BY <2>1, <3>3, <1>2, <1>4, Zenon
  <2>2. CASE x = b
    BY <2>2, <1>5, Zenon
  <2>3. CASE x > b
    <3>1. b < last /\ last # b
      BY <2>0, <2>3, <1>8, <1>10
    <3>2. last \in HolesBehind(h, b)
      BY <3>1, <1>2, <1>4, <1>7, <1>8
    <3>3. ASSUME NEW y \in B, b < y, y <= x PROVE y \in Holes(h)
      <4>0. y \in Nat /\ x \in Nat /\ last \in Nat /\ y <= x /\ x <= last
        BY <3>3, <2>0, <1>1, <1>8, <1>10, Zenon
      <4>1. y <= last
        BY <4>0, SMTT(30)
      <4> QED BY <4>1, <3>2, <3>3, <1>3, Zenon
    <3>4. b < x
      BY <2>3, <2>0, <1>8, Zenon
    <3> QED BY <3>4, <3>3, <1>3, <1>4, Zenon
  <2> QED BY <2>0, <2>1, <2>2, <2>3, <1>8
<1>11. ASSUME NEW x \in B, last < x PROVE e <= x
  BY <1>8, <1>11, Behind, Zenon DEF B
<1>12. ASSUME NEW x \in B \ R PROVE x < first \/ x >= e
  <2>1. x \in B /\ x \in Nat /\ first \in Nat /\ last \in Nat /\ e \in Nat
    BY <1>1, <1>8, Zenon
  <2>2. ~ (first <= x /\ x <= last)
    BY <1>10, <1>12, <2>1, Zenon
  <2>3. last < x => e <= x
    BY <1>11, <2>1, Zenon
  <2> HIDE DEF e
  <2> QED BY <2>1, <2>2, <2>3, SMTT(30)
<1>13. e \notin R
  BY <1>7, <1>8
<1>14. e \notin Holes(h)
  <2> SUFFICES ASSUME e \in Holes(h) PROVE FALSE
    BY Zenon
  <2>1. e \in B
    BY Zenon DEF Sound, Listed, B
  <2>2. ASSUME NEW y \in B, b < y, y <= e PROVE y \in Holes(h)
    <3>0. y \in Nat
      BY <1>1, Zenon
    <3>1. CASE y <= last
      <4>1. first <= y /\ y # b
        BY <2>2, <3>0, <1>8
      <4> QED BY <4>1, <3>1, <1>9, <1>10, Zenon
    <3>2. CASE last < y
      <4>1. y = e
        BY <3>0, <3>2, <2>2, <1>8, <1>11
      <4> QED BY <4>1, Zenon
    <3> QED BY <3>0, <3>1, <3>2, <1>8
  <2>3. b < e
    BY <1>8
  <2> QED BY <2>1, <2>2, <2>3, <1>3, <1>4, <1>13, Zenon
<1>15. ASSUME NEW x \in Holes(h) \ R, x + h.size[x] = first PROVE FALSE
  <2>1. x \in B /\ x \in Nat /\ h.size[x] \in Nat /\ h.size[x] > 0
    BY <1>1, Zenon DEF Sound, Listed, B
  <2>2. x < first /\ x < b
    BY <2>1, <1>8, <1>15
  <2>3. ASSUME NEW y \in B, x <= y, y < b PROVE y \in Holes(h)
    <3>0. y \in Nat
      BY <1>1, Zenon
    <3>1. CASE y = x
      BY <3>1, Zenon
    <3>2. CASE x < y
      <4>1. first <= y
        BY <3>2, <2>1, <1>15, Behind, Zenon DEF B
      <4>2. y \in R /\ y # b
        BY <4>1, <2>3, <3>0, <1>8, <1>10
      <4> QED BY <4>2, <1>9, Zenon
    <3> QED BY <2>1, <2>3, <3>0, <3>1, <3>2
  <2> QED BY <2>1, <2>2, <2>3, <1>2, <1>4, Zenon
<1> QED BY <1>5, <1>6, <1>7, <1>9, <1>12, <1>13, <1>14, <1>15, Zenon DEF R, first, last, B

(* The run as one block in no list. *)
LEMMA CombineProperty ==
  ASSUME KheapAssumption, NEW h, Sound(h), NEW b \in Used(h)
  PROVE  LET R == Run(h, b)
             first == Min(R)
             last == Max(R)
             g == Combined(h, b)
         IN /\ Sound(g) /\ g.memend = h.memend
            /\ Blocks(g) = (Blocks(h) \ R) \cup {first} /\ Holes(g) = Holes(h) \ R
            /\ g.size[first] = (last - first) + h.size[last]
            /\ \A x \in Blocks(g) \ {first} : g.size[x] = h.size[x]
<1> DEFINE R == Run(h, b)
           first == Min(R)
           last == Max(R)
           e == last + h.size[last]
           n == (last - first) + h.size[last]
           s == [x \in (Blocks(h) \ R) \cup {first} |-> IF x = first THEN n ELSE h.size[x]]
           w == Without(h.holes, R)
           g == Combined(h, b)
<1>1. /\ R \subseteq Blocks(h) /\ b \in R /\ first \in R /\ last \in R
      /\ \A x \in R : first <= x /\ x <= last /\ (x = b \/ x \in Holes(h))
      /\ \A x \in Blocks(h) \ R : x < first \/ x >= e
      /\ e \notin Holes(h) /\ e \notin R
  BY RunProperty, Zenon
<1>2. /\ w \in Seq(Nat) /\ Range(w) = Holes(h) \ R /\ IsInjective(w)
      /\ \A i, j \in 1 .. Len(w) : i < j => h.size[w[i]] <= h.size[w[j]]
  BY WithoutHoles, Zenon
<1>3. g = [h EXCEPT !.size = s, !.holes = w]
  BY Zenon DEF Combined
<1>4. h = [size |-> h.size, holes |-> h.holes, memend |-> h.memend]
      /\ h.memend \in Nat /\ Blocks(h) \subseteq Nat /\ h.size \in [Blocks(h) -> Nat]
  BY Zenon DEF Sound, Shape
<1>5. /\ first \in Nat /\ last \in Nat /\ first <= last /\ h.size[last] \in Nat /\ h.size[last] >= KHEAP_OVHD
      /\ e \in Blocks(h) \cup {h.memend} /\ e <= h.memend
  <2>1. first \in Blocks(h) /\ last \in Blocks(h) /\ first <= last
    BY <1>1, Zenon
  <2>2. h.size[last] >= KHEAP_OVHD /\ e \in Blocks(h) \cup {h.memend} /\ e <= h.memend
    BY <2>1, Zenon DEF Sound, Filled
  <2> QED BY <2>1, <2>2, <1>4, Zenon
<1> HIDE DEF R, first, last, w, g
<1>6. n \in Nat /\ n >= KHEAP_OVHD /\ first + n = e /\ e \in Nat /\ KHEAP_OVHD \in Nat /\ KHEAP_OVHD > 0
  BY <1>5, Overhead
<1> HIDE DEF n, e
<1>7. g = [size |-> s, holes |-> w, memend |-> h.memend]
  <2> HIDE DEF s
  <2> QED BY <1>3, <1>4, Zenon
<1>8. /\ g.size = s /\ g.holes = w /\ g.memend = h.memend
      /\ Blocks(g) = (Blocks(h) \ R) \cup {first} /\ Blocks(g) \subseteq Blocks(h)
  <2>1. g.size = s /\ g.holes = w /\ g.memend = h.memend
    <3> HIDE DEF s
    <3> QED BY <1>7, Zenon
  <2>2. DOMAIN s = (Blocks(h) \ R) \cup {first}
    BY Zenon
  <2> HIDE DEF s
  <2> QED BY <2>1, <2>2, <1>1, Zenon DEF Blocks
<1>9. /\ first \in Blocks(g) /\ g.size[first] = n
      /\ \A x \in Blocks(g) \ {first} : g.size[x] = h.size[x] /\ x \in Blocks(h) \ R
  BY <1>8, Zenon
<1>10. Shape(g)
  <2>1. \A x \in Blocks(g) : g.size[x] \in Nat
    BY <1>4, <1>6, <1>8, <1>9, Zenon
  <2>2. g.size = [x \in Blocks(g) |-> g.size[x]]
    BY <1>8, Zenon
  <2> HIDE DEF s
  <2>3. g.size \in [Blocks(g) -> Nat]
    BY <2>1, <2>2, Zenon
  <2> QED BY <2>3, <1>2, <1>4, <1>7, <1>8, Zenon DEF Shape
<1> HIDE DEF s
<1>11. Filled(g)
  <2>1. ASSUME NEW x \in Blocks(g)
        PROVE  /\ g.size[x] >= KHEAP_OVHD
               /\ x + g.size[x] \in Blocks(g) \cup {g.memend}
               /\ x + g.size[x] <= g.memend
               /\ \A y \in Blocks(g) : ~(x < y /\ y < x + g.size[x])
    <3>1. CASE x = first
      <4>1. x + g.size[x] = e
        BY <3>1, <1>6, <1>9, Zenon
      <4>2. \A y \in Blocks(g) : ~(x < y /\ y < e)
        BY <3>1, <1>1, <1>4, <1>5, <1>6, <1>8, <1>9
      <4> QED BY <3>1, <4>1, <4>2, <1>1, <1>5, <1>6, <1>8, <1>9
    <3>2. CASE x # first
      <4>1. x \in Blocks(h) \ R /\ g.size[x] = h.size[x] /\ x \in Nat /\ h.size[x] \in Nat
        BY <3>2, <1>4, <1>9, Zenon
      <4>2. /\ h.size[x] >= KHEAP_OVHD
            /\ x + h.size[x] \in Blocks(h) \cup {h.memend}
            /\ x + h.size[x] <= h.memend
            /\ \A y \in Blocks(h) : ~(x < y /\ y < x + h.size[x])
        BY <4>1, Zenon DEF Sound, Filled
      <4>3. ASSUME x + h.size[x] \in R PROVE x + h.size[x] = first
        <5>1. CASE x < first
          BY <5>1, <4>1, <4>3, <1>1, <1>5, Behind
        <5>2. CASE x >= e
          <6>1. last < e
            BY <1>5, <1>6 DEF e
          <6> QED BY <5>2, <6>1, <4>1, <4>3, <1>1, <1>5, <1>6
        <5> QED BY <5>1, <5>2, <4>1, <1>1, Zenon
      <4>4. x + h.size[x] \in Blocks(g) \cup {g.memend}
        BY <4>2, <4>3, <1>8, Zenon
      <4> QED BY <4>1, <4>2, <4>4, <1>8, Zenon
    <3> QED BY <3>1, <3>2, Zenon
  <2>2. ASSUME g.memend # 0 PROVE 0 \in Blocks(g)
    <3>1. 0 \in Blocks(h)
      BY <2>2, <1>8, Zenon DEF Sound, Filled
    <3>2. ASSUME 0 \in R PROVE 0 = first
      BY <3>2, <1>1, <1>5
    <3> QED BY <3>1, <3>2, <1>8, Zenon
  <2> QED BY <2>1, <2>2, Zenon DEF Filled
<1>12. Holes(g) = Holes(h) \ R /\ Holes(g) \subseteq Blocks(g) /\ first \notin Holes(g)
  <2>1. Holes(h) \subseteq Blocks(h)
    BY Zenon DEF Sound, Listed
  <2> QED BY <2>1, <1>1, <1>2, <1>8, Zenon DEF Holes
<1>13. Listed(g)
  <2>1. \A i \in 1 .. Len(w) : w[i] \in Holes(g)
    BY <1>2, <1>8 DEF Holes, Range
  <2>2. \A i \in 1 .. Len(w) : g.size[w[i]] = h.size[w[i]]
    BY <2>1, <1>9, <1>12, Zenon
  <2>3. ASSUME NEW i \in 1 .. Len(g.holes), NEW j \in 1 .. Len(g.holes), i < j
        PROVE  g.size[g.holes[i]] <= g.size[g.holes[j]]
    BY <2>2, <2>3, <1>2, <1>8
  <2> QED BY <2>3, <1>2, <1>8, <1>12, Zenon DEF Listed
<1> QED BY <1>8, <1>9, <1>10, <1>11, <1>12, <1>13, Zenon DEF Sound, g, R, first, last, n

(* A block freed: what is in use is left alone, and no two holes lie side   *)
(* by side when none did before.                                            *)
LEMMA FreeProperty ==
  ASSUME KheapAssumption, NEW h, Sound(h), NEW b \in Used(h)
  PROVE  LET g == heap_free_nolock(h, b)
         IN /\ Sound(g) /\ g.memend = h.memend /\ Used(g) = Used(h) \ {b}
            /\ \A x \in Used(g) : g.size[x] = h.size[x]
            /\ Apart(h, {}) => Apart(g, {})
<1> DEFINE R == Run(h, b)
           first == Min(R)
           last == Max(R)
           e == last + h.size[last]
           c == Combined(h, b)
           g == heap_free_nolock(h, b)
<1>1. /\ R \subseteq Blocks(h) /\ b \in R /\ first \in R /\ last \in R
      /\ \A x \in R : first <= x /\ x <= last /\ (x = b \/ x \in Holes(h))
      /\ \A x \in Blocks(h) \ R : x < first \/ x >= e
      /\ e \notin Holes(h) /\ e \notin R
      /\ \A x \in Holes(h) \ R : x + h.size[x] # first
  BY RunProperty, Zenon
<1>2. /\ Sound(c) /\ c.memend = h.memend
      /\ Blocks(c) = (Blocks(h) \ R) \cup {first} /\ Holes(c) = Holes(h) \ R
      /\ c.size[first] = (last - first) + h.size[last]
      /\ \A x \in Blocks(c) \ {first} : c.size[x] = h.size[x]
  BY CombineProperty, Zenon
<1>3. g = heap_add_hole(c, first)
  BY Zenon DEF heap_free_nolock
<1> HIDE DEF R, first, last, c, g
<1>4. first \in Used(c)
  BY <1>1, <1>2, Zenon DEF Used
<1>5. Sound(g) /\ g.size = c.size /\ g.memend = c.memend /\ Holes(g) = Holes(c) \cup {first}
  BY <1>2, <1>3, <1>4, AddHole, Zenon
<1>6. Blocks(g) = Blocks(c)
  BY <1>5, Zenon DEF Blocks
<1>7. Used(g) = Used(h) \ {b}
  <2>1. \A x : x \in Used(g) <=> x \in Blocks(h) /\ x \notin R /\ x \notin Holes(h)
    BY <1>1, <1>2, <1>5, <1>6, Zenon DEF Used
  <2>2. \A x : x \in Used(h) /\ x # b <=> x \in Blocks(h) /\ x \notin R /\ x \notin Holes(h)
    BY <1>1, Zenon DEF Used
  <2> QED BY <2>1, <2>2, Zenon
<1>8. ASSUME NEW x \in Used(g) PROVE g.size[x] = h.size[x]
  BY <1>2, <1>5, <1>6, Zenon DEF Used
<1>9. ASSUME Apart(h, {}) PROVE Apart(g, {})
  <2> SUFFICES ASSUME NEW x \in Holes(g), x + g.size[x] \in Holes(g) PROVE FALSE
    BY Zenon DEF Apart
  <2>1. first \in Nat /\ last \in Nat /\ first <= last /\ h.size[last] \in Nat
    BY <1>1, Zenon DEF Sound, Shape
  <2>2. CASE x = first
    <3>1. x + g.size[x] = e
      BY <2>1, <2>2, <1>2, <1>5
    <3> QED BY <3>1, <1>1, <1>2, <1>5, Zenon
  <2>3. CASE x # first
    <3>1. x \in Holes(h) \ R
      BY <2>3, <1>2, <1>5, Zenon
    <3>2. x \in Blocks(c) \ {first}
      BY <2>3, <1>2, <3>1, Zenon DEF Sound, Listed
    <3>3. g.size[x] = h.size[x]
      BY <3>2, <1>2, <1>5, Zenon
    <3>4. x + h.size[x] # first /\ x + h.size[x] \notin Holes(h)
      BY <3>1, <1>1, <1>9, Zenon DEF Apart
    <3> QED BY <3>3, <3>4, <1>2, <1>5, Zenon
  <2> QED BY <2>2, <2>3, Zenon
<1> QED BY <1>2, <1>5, <1>7, <1>8, <1>9, Zenon DEF g

(* A block in use cut in two at t. *)
Cut(h, b, t, n, m) == head_init(head_init(h, t, n), b, m)

LEMMA CutProperty ==
  ASSUME KheapAssumption, NEW h, Sound(h), NEW b \in Used(h), NEW t, NEW n, NEW m,
         m \in Nat, m >= KHEAP_OVHD, n \in Nat, n >= KHEAP_OVHD, t = b + m, h.size[b] = m + n
  PROVE  LET g == Cut(h, b, t, n, m)
         IN /\ Sound(g) /\ g.memend = h.memend /\ Holes(g) = Holes(h)
            /\ Used(g) = Used(h) \cup {t} /\ t \notin Blocks(h)
            /\ g.size[b] = m /\ g.size[t] = n
            /\ \A x \in Used(h) \ {b} : g.size[x] = h.size[x]
            /\ Apart(h, {}) => Apart(g, {})
<1> DEFINE g == Cut(h, b, t, n, m)
           s == [x \in Blocks(h) \cup {t} |-> IF x = b THEN m ELSE IF x = t THEN n ELSE h.size[x]]
<1>1. /\ h = [size |-> h.size, holes |-> h.holes, memend |-> h.memend]
      /\ h.memend \in Nat /\ Blocks(h) \subseteq Nat /\ h.size \in [Blocks(h) -> Nat]
      /\ b \in Blocks(h) /\ b \notin Holes(h) /\ Holes(h) \subseteq Blocks(h) /\ h.holes \in Seq(Nat)
  BY Zenon DEF Sound, Shape, Used, Listed
<1>2. KHEAP_OVHD \in Nat /\ KHEAP_OVHD > 0 /\ b \in Nat /\ t \in Nat /\ b < t /\ t < b + h.size[b]
      /\ t + n = b + h.size[b] /\ b # t
  BY <1>1, Overhead
<1>3. t \notin Blocks(h)
  BY <1>1, <1>2, Zenon DEF Sound, Filled
<1>4. g = [size |-> s, holes |-> h.holes, memend |-> h.memend]
  <2> DEFINE s1 == [x \in Blocks(h) \cup {t} |-> IF x = t THEN n ELSE h.size[x]]
             h1 == head_init(h, t, n)
  <2>1. h1 = [h EXCEPT !.size = s1]
    BY Zenon DEF head_init
  <2>2. h1 = [size |-> s1, holes |-> h.holes, memend |-> h.memend]
    <3> HIDE DEF s1, h1
    <3> QED BY <1>1, <2>1, Zenon
  <2>3. h1.size = s1 /\ Blocks(h1) = Blocks(h) \cup {t}
    <3>1. DOMAIN s1 = Blocks(h) \cup {t}
      BY Zenon
    <3> HIDE DEF s1, h1
    <3> QED BY <2>2, <3>1, Zenon DEF Blocks
  <2>4. \A x \in Blocks(h) \cup {t} : s1[x] = IF x = t THEN n ELSE h.size[x]
    BY Zenon
  <2>5. g = [h1 EXCEPT !.size = [x \in Blocks(h1) \cup {b} |-> IF x = b THEN m ELSE h1.size[x]]]
    BY Zenon DEF Cut, head_init
  <2> HIDE DEF s1, h1
  <2>6. [x \in Blocks(h1) \cup {b} |-> IF x = b THEN m ELSE h1.size[x]] = s
    <3>1. Blocks(h1) \cup {b} = Blocks(h) \cup {t}
      BY <2>3, <1>1, Zenon
    <3>2. \A x \in Blocks(h) \cup {t} : h1.size[x] = IF x = t THEN n ELSE h.size[x]
      BY <2>3, <2>4, Zenon
    <3> QED BY <3>1, <3>2, Zenon
  <2> HIDE DEF s, g
  <2>7. g = [h1 EXCEPT !.size = s]
    BY <2>5, <2>6, Zenon
  <2> QED BY <2>2, <2>7, Zenon
<1> HIDE DEF g
<1>5. /\ g.size = s /\ g.holes = h.holes /\ g.memend = h.memend /\ Holes(g) = Holes(h)
      /\ Blocks(g) = Blocks(h) \cup {t}
  <2>1. DOMAIN s = Blocks(h) \cup {t}
    BY Zenon
  <2> HIDE DEF s
  <2> QED BY <2>1, <1>4, Zenon DEF Blocks, Holes
<1>6. /\ g.size[b] = m /\ g.size[t] = n
      /\ \A x \in Blocks(h) \ {b} : g.size[x] = h.size[x]
  BY <1>1, <1>2, <1>3, <1>5, Zenon
<1>7. Shape(g)
  <2>1. \A x \in Blocks(g) : g.size[x] \in Nat
    BY <1>1, <1>2, <1>5, <1>6
  <2>2. g.size = [x \in Blocks(g) |-> g.size[x]]
    BY <1>5, Zenon
  <2> HIDE DEF s
  <2>3. g.size \in [Blocks(g) -> Nat]
    BY <2>1, <2>2, Zenon
  <2> QED BY <2>3, <1>1, <1>2, <1>4, <1>5, Zenon DEF Shape
<1> HIDE DEF s
<1>8. Filled(g)
  <2>1. ASSUME NEW x \in Blocks(g)
        PROVE  /\ g.size[x] >= KHEAP_OVHD
               /\ x + g.size[x] \in Blocks(g) \cup {g.memend}
               /\ x + g.size[x] <= g.memend
               /\ \A y \in Blocks(g) : ~(x < y /\ y < x + g.size[x])
    <3>0. /\ b + h.size[b] \in Blocks(h) \cup {h.memend} /\ b + h.size[b] <= h.memend
          /\ \A y \in Blocks(h) : ~(b < y /\ y < b + h.size[b])
      BY <1>1, Zenon DEF Sound, Filled
    <3>1. CASE x = b
      <4>1. x + g.size[x] = t
        BY <3>1, <1>6, Zenon
      <4>2. \A y \in Blocks(g) : ~(x < y /\ y < t)
        BY <3>0, <3>1, <1>1, <1>2, <1>5
      <4> QED BY <3>0, <3>1, <4>1, <4>2, <1>1, <1>2, <1>5, <1>6
    <3>2. CASE x = t
      <4>1. x + g.size[x] = b + h.size[b]
        BY <3>2, <1>2, <1>6, Zenon
      <4>2. \A y \in Blocks(g) : ~(x < y /\ y < b + h.size[b])
        BY <3>0, <3>2, <1>1, <1>2, <1>5
      <4> QED BY <3>0, <3>2, <4>1, <4>2, <1>5, <1>6, Zenon
    <3>3. CASE x # b /\ x # t
      <4>1. x \in Blocks(h) /\ g.size[x] = h.size[x] /\ x \in Nat /\ h.size[x] \in Nat
        BY <3>3, <1>1, <1>5, <1>6, Zenon
      <4>2. /\ h.size[x] >= KHEAP_OVHD
            /\ x + h.size[x] \in Blocks(h) \cup {h.memend}
            /\ x + h.size[x] <= h.memend
            /\ \A y \in Blocks(h) : ~(x < y /\ y < x + h.size[x])
        BY <4>1, Zenon DEF Sound, Filled
      <4>3. ~(x < t /\ t < x + h.size[x])
        <5>1. CASE x < b
          <6>1. x + h.size[x] <= b
            BY <5>1, <4>1, <1>1, Behind, Zenon
          <6> QED BY <6>1, <4>1, <1>2
        <5>2. CASE b < x
          <6>1. b + h.size[b] <= x
            BY <5>2, <4>1, <1>1, Behind, Zenon
          <6>2. h.size[b] \in Nat
            BY <1>1, Zenon
          <6> QED BY <6>1, <6>2, <4>1, <1>2
        <5> QED BY <5>1, <5>2, <3>3, <4>1, <1>2
      <4> QED BY <4>1, <4>2, <4>3, <1>5, Zenon
    <3> QED BY <3>1, <3>2, <3>3, Zenon
  <2>2. g.memend # 0 => 0 \in Blocks(g)
    BY <1>5, Zenon DEF Sound, Filled
  <2> QED BY <2>1, <2>2, Zenon DEF Filled
<1>9. Listed(g)
  <2>1. \A i \in 1 .. Len(h.holes) : h.holes[i] \in Holes(h)
    BY <1>1 DEF Holes, Range
  <2>2. \A i \in 1 .. Len(h.holes) : g.size[h.holes[i]] = h.size[h.holes[i]]
    BY <2>1, <1>1, <1>6, Zenon
  <2> QED BY <2>2, <1>5, Zenon DEF Listed, Sound
<1>10. Used(g) = Used(h) \cup {t}
  BY <1>1, <1>3, <1>5, Zenon DEF Used
<1>11. ASSUME Apart(h, {}) PROVE Apart(g, {})
  BY <1>1, <1>5, <1>6, <1>11, Zenon DEF Apart
<1>12. \A x \in Used(h) \ {b} : g.size[x] = h.size[x]
  BY <1>6, Zenon DEF Used
<1> QED BY <1>3, <1>5, <1>6, <1>7, <1>8, <1>9, <1>10, <1>11, <1>12 DEF Sound, g

(* A new block at the end, in no list yet. *)
LEMMA ExtendProperty ==
  ASSUME KheapAssumption, NEW h, Sound(h), NEW n \in Nat, n >= KHEAP_OVHD
  PROVE  LET g == [head_init(h, h.memend, n) EXCEPT !.memend = @ + n]
         IN /\ Sound(g) /\ g.memend = h.memend + n /\ Holes(g) = Holes(h)
            /\ Used(g) = Used(h) \cup {h.memend} /\ h.memend \notin Used(h)
            /\ \A x \in Used(h) : g.size[x] = h.size[x]
            /\ Apart(h, {}) => Apart(g, {})
<1> DEFINE g == [head_init(h, h.memend, n) EXCEPT !.memend = @ + n]
           t == h.memend
           s == [x \in Blocks(h) \cup {t} |-> IF x = t THEN n ELSE h.size[x]]
<1>1. /\ h = [size |-> h.size, holes |-> h.holes, memend |-> h.memend]
      /\ t \in Nat /\ Blocks(h) \subseteq Nat /\ h.size \in [Blocks(h) -> Nat]
      /\ Holes(h) \subseteq Blocks(h) /\ h.holes \in Seq(Nat)
  BY Zenon DEF Sound, Shape, Listed
<1>2. KHEAP_OVHD \in Nat /\ KHEAP_OVHD > 0
  BY Overhead, Zenon
<1>3. \A x \in Blocks(h) : /\ h.size[x] >= KHEAP_OVHD
                            /\ x + h.size[x] \in Blocks(h) \cup {t}
                            /\ x + h.size[x] <= t
                            /\ \A y \in Blocks(h) : ~(x < y /\ y < x + h.size[x])
  BY Zenon DEF Sound, Filled
<1>4. t \notin Blocks(h) /\ \A x \in Blocks(h) : x < t
  BY <1>1, <1>2, <1>3
<1>5. g = [size |-> s, holes |-> h.holes, memend |-> t + n]
  <2>1. g = [[h EXCEPT !.size = s] EXCEPT !.memend = @ + n]
    BY Zenon DEF head_init
  <2> HIDE DEF s, g
  <2> QED BY <1>1, <2>1, Zenon
<1> HIDE DEF g
<1>6. /\ g.size = s /\ g.holes = h.holes /\ g.memend = t + n /\ Holes(g) = Holes(h)
      /\ Blocks(g) = Blocks(h) \cup {t}
  <2>1. DOMAIN s = Blocks(h) \cup {t}
    BY Zenon
  <2> HIDE DEF s
  <2> QED BY <2>1, <1>5, Zenon DEF Blocks, Holes
<1>7. g.size[t] = n /\ \A x \in Blocks(h) : g.size[x] = h.size[x]
  BY <1>4, <1>6, Zenon
<1>8. Shape(g)
  <2>1. \A x \in Blocks(g) : g.size[x] \in Nat
    BY <1>1, <1>6, <1>7, Zenon
  <2>2. g.size = [x \in Blocks(g) |-> g.size[x]]
    BY <1>6, Zenon
  <2> HIDE DEF s
  <2>3. g.size \in [Blocks(g) -> Nat]
    BY <2>1, <2>2, Zenon
  <2> QED BY <2>3, <1>1, <1>5, <1>6 DEF Shape
<1> HIDE DEF s
<1>9. Filled(g)
  <2>1. ASSUME NEW x \in Blocks(g)
        PROVE  /\ g.size[x] >= KHEAP_OVHD
               /\ x + g.size[x] \in Blocks(g) \cup {g.memend}
               /\ x + g.size[x] <= g.memend
               /\ \A y \in Blocks(g) : ~(x < y /\ y < x + g.size[x])
    <3>1. CASE x = t
      BY <3>1, <1>1, <1>4, <1>6, <1>7
    <3>2. CASE x # t
      <4>1. x \in Blocks(h) /\ g.size[x] = h.size[x] /\ x \in Nat /\ h.size[x] \in Nat
        BY <3>2, <1>1, <1>6, <1>7, Zenon
      <4>2. x + h.size[x] <= t + n /\ ~(x < t /\ t < x + h.size[x])
        BY <4>1, <1>1, <1>3
      <4> QED BY <4>1, <4>2, <1>3, <1>6, Zenon
    <3> QED BY <3>1, <3>2, Zenon
  <2>2. g.memend # 0 => 0 \in Blocks(g)
    <3>1. t # 0 => 0 \in Blocks(h)
      BY Zenon DEF Sound, Filled
    <3> QED BY <3>1, <1>6, Zenon
  <2> QED BY <2>1, <2>2, Zenon DEF Filled
<1>10. Listed(g)
  <2>1. \A i \in 1 .. Len(h.holes) : h.holes[i] \in Blocks(h)
    BY <1>1 DEF Holes, Range
  <2>2. \A i \in 1 .. Len(h.holes) : g.size[h.holes[i]] = h.size[h.holes[i]]
    BY <2>1, <1>7, Zenon
  <2> QED BY <2>2, <1>6 DEF Listed, Sound
<1>11. Used(g) = Used(h) \cup {t} /\ t \notin Used(h)
  BY <1>1, <1>4, <1>6, Zenon DEF Used
<1>12. ASSUME Apart(h, {}) PROVE Apart(g, {})
  BY <1>1, <1>6, <1>7, <1>12, Zenon DEF Apart
<1>13. \A x \in Used(h) : g.size[x] = h.size[x]
  BY <1>7, Zenon DEF Used
<1> QED BY <1>6, <1>8, <1>9, <1>10, <1>11, <1>12, <1>13, Zenon DEF Sound, g

(* What heap_expand, heap_trim and heap_locate leave alone. *)
SameUse(h, g) == Used(g) = Used(h) /\ \A x \in Used(h) : g.size[x] = h.size[x]

LEMMA ExpandProperty ==
  ASSUME KheapAssumption, NEW h, Sound(h), Apart(h, {}), NEW n \in Nat, n >= KHEAP_OVHD
  PROVE  LET g == heap_expand(h, n)
         IN Sound(g) /\ Apart(g, {}) /\ g.memend = h.memend + n /\ SameUse(h, g)
<1> DEFINE c == [head_init(h, h.memend, n) EXCEPT !.memend = @ + n]
           g == heap_expand(h, n)
<1>1. /\ Sound(c) /\ c.memend = h.memend + n /\ Used(c) = Used(h) \cup {h.memend}
      /\ h.memend \notin Used(h) /\ \A x \in Used(h) : c.size[x] = h.size[x]
      /\ Apart(c, {})
  BY ExtendProperty, Zenon
<1>2. g = heap_free_nolock(c, h.memend)
  BY Zenon DEF heap_expand
<1> HIDE DEF c, g
<1>3. h.memend \in Used(c)
  BY <1>1, Zenon
<1>4. /\ Sound(g) /\ g.memend = c.memend /\ Used(g) = Used(c) \ {h.memend}
      /\ \A x \in Used(g) : g.size[x] = c.size[x]
      /\ Apart(g, {})
  BY <1>1, <1>2, <1>3, FreeProperty
<1> QED BY <1>1, <1>4, Zenon DEF SameUse, g

(* A hole cut in two: the back part is the one wanted, or the front part.   *)
Divides(h, b, t, n, m) ==
  /\ Sound(h) /\ b \in Holes(h) /\ Apart(h, {b})
  /\ m \in Nat /\ m >= KHEAP_OVHD /\ n \in Nat /\ n >= KHEAP_OVHD /\ t = b + m /\ h.size[b] = m + n
Divided(h, b, t, n, m, p, r) ==
  heap_add_hole(heap_free_nolock(Cut(list_rem(h, b), b, t, n, m), p), r)

LEMMA CutFreeProperty ==
  ASSUME KheapAssumption, NEW h, NEW b, NEW t, NEW n, NEW m, Divides(h, b, t, n, m),
         NEW p, NEW r, (p = b /\ r = t) \/ (p = t /\ r = b)
  PROVE  LET g == Divided(h, b, t, n, m, p, r)
         IN /\ Sound(g) /\ g.memend = h.memend /\ SameUse(h, g)
            /\ r \in Holes(g) /\ Apart(g, {r}) /\ g.size[r] = IF r = b THEN m ELSE n
<1> DEFINE a == list_rem(h, b)
           c == Cut(a, b, t, n, m)
           f == heap_free_nolock(c, p)
           g == heap_add_hole(f, r)
<1>0. /\ Sound(h) /\ b \in Holes(h) /\ Apart(h, {b}) /\ Holes(h) \subseteq Blocks(h)
      /\ m \in Nat /\ m >= KHEAP_OVHD /\ n \in Nat /\ n >= KHEAP_OVHD /\ t = b + m /\ h.size[b] = m + n
  BY Zenon DEF Sound, Listed, Divides
<1>1. Sound(a) /\ a.size = h.size /\ a.memend = h.memend /\ Holes(a) = Holes(h) \ {b}
  BY <1>0, RemHole, Zenon
<1> HIDE DEF a
<1>2. Blocks(a) = Blocks(h) /\ b \in Used(a) /\ Used(a) = Used(h) \cup {b} /\ b \notin Used(h)
  BY <1>0, <1>1, Zenon DEF Used, Blocks
<1>3. Apart(a, {})
  BY <1>0, <1>1, Zenon DEF Apart
<1>4. /\ Sound(c) /\ c.memend = a.memend /\ Holes(c) = Holes(a)
      /\ Used(c) = Used(a) \cup {t} /\ t \notin Blocks(a)
      /\ c.size[b] = m /\ c.size[t] = n
      /\ \A x \in Used(a) \ {b} : c.size[x] = a.size[x]
      /\ Apart(c, {})
  BY <1>0, <1>1, <1>2, <1>3, CutProperty
<1> HIDE DEF c
<1>5. p \in Used(c) /\ r \in Used(c) /\ t \notin Used(h) /\ b # t
  BY <1>0, <1>2, <1>4, Zenon DEF Used
<1>6. /\ Sound(f) /\ f.memend = c.memend /\ Used(f) = Used(c) \ {p}
      /\ \A x \in Used(f) : f.size[x] = c.size[x]
      /\ Apart(f, {})
  BY <1>4, <1>5, FreeProperty, Zenon
<1> HIDE DEF f
<1>7. r \in Used(f)
  BY <1>5, <1>6
<1>8. Sound(g) /\ g.size = f.size /\ g.memend = f.memend /\ Holes(g) = Holes(f) \cup {r}
  BY <1>6, <1>7, AddHole, Zenon
<1> HIDE DEF g
<1>9. Used(g) = Used(f) \ {r}
  BY <1>8, Zenon DEF Used, Blocks
<1>10. Used(g) = Used(h)
  BY <1>2, <1>4, <1>5, <1>6, <1>9
<1>11. ASSUME NEW x \in Used(h) PROVE g.size[x] = h.size[x]
  <2>1. x \in Used(f) /\ x \in Used(a) \ {b}
    BY <1>2, <1>9, <1>10, Zenon
  <2> QED BY <2>1, <1>1, <1>4, <1>6, <1>8, Zenon
<1>12. g.size[r] = IF r = b THEN m ELSE n
  BY <1>4, <1>6, <1>7, <1>8, Zenon
<1>13. Apart(g, {r})
  BY <1>6, <1>7, <1>8, Zenon DEF Apart, Used
<1> QED BY <1>1, <1>4, <1>6, <1>8, <1>10, <1>11, <1>12, <1>13, Zenon DEF SameUse, g, f, c, a, Divided

-----------------------------------------------------------------------------
(* The hole that heap_trim has in hand, b, for reqd bytes. *)
InHand(h, b, reqd) ==
  /\ Sound(h) /\ b \in Holes(h) /\ Apart(h, {b}) /\ h.size[b] >= reqd + KHEAP_OVHD

LEMMA SplitProperty ==
  ASSUME KheapAssumption, NEW h, NEW b, NEW reqd \in Nat, InHand(h, b, reqd)
  PROVE  LET g == Split(h, b, reqd)
         IN InHand(g, b, reqd) /\ g.memend = h.memend /\ SameUse(h, g)
<1> DEFINE t == b + reqd + KHEAP_OVHD
           m == reqd + KHEAP_OVHD
           n == h.size[b] - reqd - KHEAP_OVHD
           g == Split(h, b, reqd)
<1>1. b \in Blocks(h) /\ b \in Nat /\ h.size[b] \in Nat /\ h.size[b] >= reqd + KHEAP_OVHD /\ b \in Holes(h)
  BY Zenon DEF InHand, Sound, Listed, Shape
<1>2. CASE h.size[b] < reqd + 2 * KHEAP_OVHD
  <2>1. g = h
    BY <1>2, Zenon DEF Split
  <2> QED BY <2>1, Zenon DEF SameUse, Split
<1>3. CASE ~(h.size[b] < reqd + 2 * KHEAP_OVHD)
  <2>1. KHEAP_OVHD \in Nat
    BY Overhead, Zenon
  <2>2. /\ m \in Nat /\ m >= KHEAP_OVHD /\ n \in Nat /\ n >= KHEAP_OVHD /\ t = b + m
        /\ h.size[b] = m + n
    BY <2>1, <1>1, <1>3
  <2>2a. b # t
    BY <1>1, <2>1, Overhead
  <2>3. g = heap_add_hole(heap_free_nolock(Cut(list_rem(h, b), b, t, n, m), t), b)
    BY <1>3, Zenon DEF Split, Cut
  <2> HIDE DEF t, m, n
  <2>4. /\ Sound(g) /\ g.memend = h.memend /\ SameUse(h, g)
        /\ b \in Holes(g) /\ Apart(g, {b}) /\ g.size[b] = m
    <3> DEFINE gg == Divided(h, b, t, n, m, t, b)
    <3>0. Divides(h, b, t, n, m)
      BY <1>1, <2>2, Zenon DEF InHand, Divides
    <3>1. /\ Sound(gg) /\ gg.memend = h.memend /\ SameUse(h, gg)
          /\ b \in Holes(gg) /\ Apart(gg, {b}) /\ gg.size[b] = IF b = b THEN m ELSE n
      BY <3>0, CutFreeProperty
    <3> HIDE DEF gg, g
    <3>2. g = gg
      BY <2>3, Zenon DEF gg, Divided
    <3> QED BY <3>1, <3>2, Zenon
  <2> HIDE DEF g
  <2>5. g.size[b] >= reqd + KHEAP_OVHD
    BY <2>1, <2>4 DEF m
  <2> QED BY <2>4, <2>5, Zenon DEF InHand, g
<1> QED BY <1>2, <1>3, Zenon

LEMMA AlignProperty ==
  ASSUME KheapAssumption, NEW h, NEW b, NEW reqd \in Nat, InHand(h, b, reqd), CanAlign(h, b, reqd)
  PROVE  LET g == Align(h, b)
             a == AlignedHead(h, b)
         IN InHand(g, a, reqd) /\ g.memend = h.memend /\ SameUse(h, g) /\ heap_addr(a) % PAGE_SIZE = 0
<1> DEFINE t == NextAligned(b)
           m == t - b
           n == h.size[b] - (t - b)
           g == Align(h, b)
           a == AlignedHead(h, b)
<1>1. b \in Blocks(h) /\ b \in Nat /\ h.size[b] \in Nat /\ b \in Holes(h) /\ Sound(h) /\ Apart(h, {b})
  BY Zenon DEF InHand, Sound, Listed, Shape
<1>2. CASE Aligned(h, b)
  <2>1. g = h /\ a = b
    BY <1>2, Zenon DEF Align, AlignedHead
  <2>2. heap_addr(b) % PAGE_SIZE = 0
    BY <1>2, Zenon DEF Aligned
  <2> HIDE DEF g, a
  <2> QED BY <2>1, <2>2, Zenon DEF SameUse, g, a
<1>3. CASE ~Aligned(h, b)
  <2>1. m > KHEAP_OVHD /\ n >= reqd + KHEAP_OVHD
    BY <1>3, Zenon DEF CanAlign
  <2>2. t \in Int /\ heap_addr(t) % PAGE_SIZE = 0
    <3> DEFINE k == (b \div PAGE_SIZE) + 1
    <3>1. PAGE_SIZE \in Nat \ {0} /\ Header \in Nat
      BY Overhead, Zenon
    <3>2. b % PAGE_SIZE \in Nat /\ b \div PAGE_SIZE \in Nat
          /\ b = (PAGE_SIZE * (b \div PAGE_SIZE)) + (b % PAGE_SIZE)
      <4>1. b % PAGE_SIZE \in 0 .. PAGE_SIZE - 1 /\ b \div PAGE_SIZE \in Nat
            /\ b = (PAGE_SIZE * (b \div PAGE_SIZE)) + (b % PAGE_SIZE)
        BY <1>1, <3>1, PageQuotient, Zenon
      <4>2. \A x \in 0 .. PAGE_SIZE - 1 : x \in Nat
        BY <3>1
      <4> QED BY <4>1, <4>2, Zenon
    <3>3. k \in Int /\ PAGE_SIZE * k = (PAGE_SIZE * (b \div PAGE_SIZE)) + PAGE_SIZE
      BY <3>1, <3>2
    <3> HIDE DEF k
    <3>4. t \in Int /\ heap_addr(t) = PAGE_SIZE * k
      BY <1>1, <3>1, <3>2, <3>3 DEF NextAligned, PAGE_ALIGN, heap_addr
    <3>5. (PAGE_SIZE * k) % PAGE_SIZE = 0
      BY <3>1, <3>3, PageMultiple, Zenon
    <3> QED BY <3>4, <3>5, Zenon
  <2>3. KHEAP_OVHD \in Nat
    BY Overhead, Zenon
  <2>4. g = heap_add_hole(heap_free_nolock(Cut(list_rem(h, b), b, t, n, m), b), t) /\ a = t
    BY <1>3, Zenon DEF Align, AlignedHead, Cut
  <2> HIDE DEF t, g, a
  <2>5. /\ m \in Nat /\ m >= KHEAP_OVHD /\ n \in Nat /\ n >= KHEAP_OVHD /\ t = b + m
        /\ h.size[b] = m + n /\ b # t
    BY <1>1, <2>1, <2>2, <2>3
  <2>5a. n >= reqd + KHEAP_OVHD
    BY <2>1, Zenon
  <2> HIDE DEF n, m
  <2>6. /\ Sound(g) /\ g.memend = h.memend /\ SameUse(h, g)
        /\ t \in Holes(g) /\ Apart(g, {t}) /\ g.size[t] = n
    <3> DEFINE gg == Divided(h, b, t, n, m, b, t)
    <3>0. Divides(h, b, t, n, m)
      BY <1>1, <2>5, Zenon DEF InHand, Divides
    <3>1. /\ Sound(gg) /\ gg.memend = h.memend /\ SameUse(h, gg)
          /\ t \in Holes(gg) /\ Apart(gg, {t}) /\ gg.size[t] = IF t = b THEN m ELSE n
      BY <3>0, CutFreeProperty
    <3> HIDE DEF gg
    <3>2. g = gg
      BY <2>4, Zenon DEF gg, Divided
    <3> QED BY <3>1, <3>2, <2>5, Zenon
  <2>7. InHand(g, a, reqd)
    BY <2>4, <2>5a, <2>6, Zenon DEF InHand
  <2>8. heap_addr(a) % PAGE_SIZE = 0
    BY <2>2, <2>4, Zenon
  <2> QED BY <2>6, <2>7, <2>8, Zenon DEF g, a
<1> QED BY <1>2, <1>3, Zenon

(* heap_trim ends with a hole in hand that is as asked for. *)
LEMMA TrimProperty ==
  ASSUME KheapAssumption, NEW h, NEW b, NEW reqd \in Nat, NEW align \in BOOLEAN,
         InHand(h, b, reqd), align => CanAlign(h, b, reqd)
  PROVE  LET r == heap_trim(h, b, reqd, align)
         IN /\ InHand(r.h, r.head, reqd) /\ r.h.memend = h.memend /\ SameUse(h, r.h)
            /\ align => heap_addr(r.head) % PAGE_SIZE = 0
<1> DEFINE r == heap_trim(h, b, reqd, align)
<1>1. CASE ~align /\ h.size[b] <= reqd + 2 * KHEAP_OVHD
  <2>1. r = [h |-> h, head |-> b]
    BY <1>1, Zenon DEF heap_trim
  <2> HIDE DEF r
  <2> QED BY <1>1, <2>1 DEF SameUse, r
<1>2. CASE ~align /\ ~(h.size[b] <= reqd + 2 * KHEAP_OVHD)
  <2>1. r = [h |-> Split(h, b, reqd), head |-> b]
    BY <1>2, Zenon DEF heap_trim
  <2> HIDE DEF r
  <2> QED BY <1>2, <2>1, SplitProperty DEF r
<1>3. CASE align
  <2> DEFINE a == AlignedHead(h, b)
             c == Align(h, b)
  <2>1. r = [h |-> Split(c, a, reqd), head |-> a]
    BY <1>3, Zenon DEF heap_trim
  <2>2. InHand(c, a, reqd) /\ c.memend = h.memend /\ SameUse(h, c) /\ heap_addr(a) % PAGE_SIZE = 0
    BY <1>3, AlignProperty, Zenon
  <2> HIDE DEF a, c, r
  <2>3. LET g == Split(c, a, reqd)
        IN InHand(g, a, reqd) /\ g.memend = c.memend /\ SameUse(c, g)
    BY <2>2, SplitProperty, Zenon
  <2> QED BY <2>1, <2>2, <2>3 DEF r, SameUse
<1> QED BY <1>1, <1>2, <1>3, Zenon

-----------------------------------------------------------------------------
LEMMA PagesAdd ==
  ASSUME NEW P \in Nat \ {0}, NEW a \in Nat, NEW b \in Nat, a % P = 0, b % P = 0
  PROVE  (a + b) % P = 0
<1>1. a \div P \in Nat /\ a = (P * (a \div P)) + (a % P) /\ b \div P \in Nat /\ b = (P * (b \div P)) + (b % P)
  BY PageQuotient, Zenon
<1> DEFINE x == a \div P
           y == b \div P
<1>2. x \in Nat /\ y \in Nat /\ a = P * x /\ b = P * y
  BY <1>1
<1> HIDE DEF x, y
<1>3. a + b = P * (x + y) /\ x + y \in Int
  BY <1>2
<1>4. (P * (x + y)) % P = 0
  BY <1>3, PageMultiple, Zenon
<1> QED BY <1>3, <1>4, Zenon

LEMMA PagesTimes ==
  ASSUME NEW P \in Nat \ {0}, NEW a \in Nat, NEW k \in Nat, a % P = 0
  PROVE  k * a \in Nat /\ (k * a) % P = 0 /\ (k > 0 => k * a >= a)
<1>1. a \div P \in Nat /\ a = (P * (a \div P)) + (a % P)
  BY PageQuotient, Zenon
<1> DEFINE x == a \div P
<1>2. x \in Nat /\ a = P * x
  BY <1>1
<1> HIDE DEF x
<1>3. k * a = P * (k * x) /\ k * x \in Int
  BY <1>2
<1>4. (P * (k * x)) % P = 0
  BY <1>3, PageMultiple, Zenon
<1>5. k * a \in Nat
  OBVIOUS
<1>6. ASSUME k > 0 PROVE k * a >= a
  <2>1. (k - 1) * a \in Nat
    BY <1>6
  <2>2. k * a = a + ((k - 1) * a)
    BY <1>6
  <2> QED BY <2>1, <2>2
<1> QED BY <1>3, <1>4, <1>5, <1>6, Zenon

LEMMA ExpansionProperty ==
  ASSUME KheapAssumption, NEW need \in Nat, need > 0
  PROVE  LET n == Expansion(need)
         IN n \in Nat /\ n >= KHEAP_OVHD /\ n > 0 /\ n % PAGE_SIZE = 0
<1>1. /\ PAGE_SIZE \in Nat \ {0} /\ KHEAP_OVHD \in Nat /\ KHEAP_OVHD > 0 /\ KHEAP_OVHD < PAGE_SIZE
      /\ memmax \in Nat /\ memmax > 0 /\ memmax % PAGE_SIZE = 0
  BY Overhead
<1>2. ASSUME NEW a \in Nat, a > 0, a % PAGE_SIZE = 0 PROVE a >= PAGE_SIZE
  BY <1>1, <1>2
<1>3. CASE need % PAGE_SIZE # 0
  <2> DEFINE a == PAGE_ALIGN(need)
  <2>1. a \in Nat /\ a % PAGE_SIZE = 0
    <3>1. /\ need % PAGE_SIZE \in 0 .. PAGE_SIZE - 1 /\ need \div PAGE_SIZE \in Nat
          /\ need = (PAGE_SIZE * (need \div PAGE_SIZE)) + (need % PAGE_SIZE)
      BY <1>1, PageQuotient, Zenon
    <3>2. a = PAGE_SIZE * (need \div PAGE_SIZE)
      BY <1>1, <3>1 DEF PAGE_ALIGN
    <3>3. (PAGE_SIZE * (need \div PAGE_SIZE)) % PAGE_SIZE = 0
      <4>1. need \div PAGE_SIZE \in Int
        BY <3>1
      <4> QED BY <1>1, <4>1, PageMultiple, Zenon
    <3>4. PAGE_SIZE * (need \div PAGE_SIZE) \in Nat
      BY <1>1, <3>1
    <3> QED BY <3>2, <3>3, <3>4, Zenon
  <2> DEFINE m == a + PAGE_SIZE
  <2>2. Expansion(need) = IF m > memmax THEN memmax ELSE m
    BY <1>3, Zenon DEF Expansion
  <2> HIDE DEF a
  <2>3. PAGE_SIZE % PAGE_SIZE = 0
    BY <1>1
  <2>4. m % PAGE_SIZE = 0
    BY <1>1, <2>1, <2>3, PagesAdd, Zenon
  <2>5. m \in Nat /\ m >= PAGE_SIZE
    BY <1>1, <2>1
  <2> HIDE DEF m
  <2>6. memmax >= PAGE_SIZE
    BY <1>1, <1>2, Zenon
  <2>7. Expansion(need) \in {m, memmax}
    BY <2>2, Zenon
  <2> QED BY <1>1, <2>4, <2>5, <2>6, <2>7
<1>4. CASE need % PAGE_SIZE = 0
  <2>1. Expansion(need) \in {need, memmax}
    BY <1>4, Zenon DEF Expansion
  <2>2. need >= PAGE_SIZE /\ memmax >= PAGE_SIZE
    BY <1>1, <1>2, <1>4, Zenon
  <2> QED BY <1>1, <1>4, <2>1, <2>2
<1> QED BY <1>3, <1>4, Zenon

(* The heap between two calls, for what heap_locate does. *)
Ready(h) == Sound(h) /\ Apart(h, {}) /\ h.memend % PAGE_SIZE = 0

LEMMA ExpandedProperty ==
  ASSUME KheapAssumption, NEW h, Ready(h), NEW k \in Nat, NEW reqd \in Nat
  PROVE  LET g == Expanded(h, k, reqd)
         IN Ready(g) /\ g.memend = h.memend + (k * Expansion(reqd + KHEAP_OVHD)) /\ SameUse(h, g)
<1> DEFINE n == Expansion(reqd + KHEAP_OVHD)
           g == Expanded(h, k, reqd)
<1>1. h.memend \in Nat /\ h.memend % PAGE_SIZE = 0 /\ Sound(h) /\ Apart(h, {})
  BY Zenon DEF Ready, Sound, Shape
<1>2. n \in Nat /\ n >= KHEAP_OVHD /\ n > 0 /\ n % PAGE_SIZE = 0 /\ PAGE_SIZE \in Nat \ {0} /\ KHEAP_OVHD \in Nat
  <2>1. KHEAP_OVHD \in Nat /\ KHEAP_OVHD > 0 /\ PAGE_SIZE \in Nat \ {0}
    BY Overhead, Zenon
  <2>2. reqd + KHEAP_OVHD \in Nat /\ reqd + KHEAP_OVHD > 0
    BY <2>1
  <2> QED BY <2>1, <2>2, ExpansionProperty, Zenon
<1>3. CASE k = 0
  <2>1. g = h
    BY <1>3, Zenon DEF Expanded
  <2> HIDE DEF g, n
  <2>2. h.memend = h.memend + (k * n)
    BY <1>1, <1>2, <1>3
  <2> QED BY <2>1, <2>2, <1>1, Zenon DEF SameUse, g, n
<1>4. CASE k # 0
  <2>1. g = heap_expand(h, k * n)
    BY <1>4, Zenon DEF Expanded
  <2> HIDE DEF n, g
  <2>2. k * n \in Nat /\ (k * n) % PAGE_SIZE = 0 /\ k * n >= n
    <3>1. k > 0
      BY <1>4
    <3> QED BY <1>2, <3>1, PagesTimes, Zenon
  <2> DEFINE z == k * n
  <2>3. z \in Nat /\ z >= KHEAP_OVHD /\ z % PAGE_SIZE = 0
    BY <1>2, <2>2
  <2>4. g = heap_expand(h, z)
    BY <2>1, Zenon
  <2> HIDE DEF z
  <2>5. Sound(g) /\ Apart(g, {}) /\ g.memend = h.memend + z /\ SameUse(h, g)
    BY <1>1, <2>3, <2>4, ExpandProperty, Zenon
  <2>6. g.memend % PAGE_SIZE = 0
    BY <1>1, <1>2, <2>3, <2>5, PagesAdd
  <2> QED BY <2>5, <2>6, Zenon DEF Ready, g, n, z
<1> QED BY <1>3, <1>4, Zenon

(* heap_locate ends: after memmax expansions the heap is beyond its limit.  *)
LEMMA LocateEnds ==
  ASSUME KheapAssumption, NEW h, Ready(h), NEW reqd \in Nat, NEW align \in BOOLEAN
  PROVE  \E i \in 0 .. memmax :
           /\ Ends(Expanded(h, i, reqd), reqd, align)
           /\ \A j \in 0 .. i - 1 : ~Ends(Expanded(h, j, reqd), reqd, align)
<1> DEFINE W == {i \in 0 .. memmax : Ends(Expanded(h, i, reqd), reqd, align)}
           n == Expansion(reqd + KHEAP_OVHD)
           g == Expanded(h, memmax, reqd)
<1>1. memmax \in Nat /\ memmax > 0 /\ PAGE_SIZE \in Nat \ {0} /\ memmax % PAGE_SIZE = 0
      /\ reqd + KHEAP_OVHD \in Nat /\ reqd + KHEAP_OVHD > 0
  BY Overhead
<1>2. n \in Nat /\ n > 0 /\ n % PAGE_SIZE = 0
  BY <1>1, ExpansionProperty, Zenon
<1>3. g.memend = h.memend + (memmax * n) /\ h.memend \in Nat
  BY <1>1, ExpandedProperty DEF Ready, Sound, Shape
<1> HIDE DEF g
<1>4. g.memend + n > memmax
  <2> HIDE DEF n
  <2>1. memmax * n \in Nat /\ memmax * n >= memmax
    <3>1. memmax * (n - 1) \in Nat /\ memmax * n = memmax + (memmax * (n - 1))
      BY <1>1, <1>2
    <3> QED BY <1>1, <1>2, <3>1
  <2> DEFINE z == memmax * n
  <2>2. z \in Nat /\ z >= memmax /\ g.memend = h.memend + z
    BY <2>1, <1>3, Zenon
  <2> HIDE DEF z
  <2> QED BY <1>1, <1>2, <1>3, <2>2
<1>5. memmax \in W
  BY <1>1, <1>4 DEF Ends, g
<1>6. W \in SUBSET Nat /\ W # {}
  BY <1>1, <1>5
<1>7. \A i : i \in W <=> i \in 0 .. memmax /\ Ends(Expanded(h, i, reqd), reqd, align)
  BY Zenon
<1> HIDE DEF W
<1>8. Min(W) \in W /\ \A y \in W : Min(W) <= y
  BY <1>6, MinProperty, Zenon
<1>9. ASSUME NEW j \in 0 .. Min(W) - 1 PROVE ~Ends(Expanded(h, j, reqd), reqd, align)
  <2>1. Min(W) \in 0 .. memmax
    BY <1>7, <1>8, Zenon
  <2>2. j \in 0 .. memmax /\ ~(Min(W) <= j)
    BY <2>1, <1>1
  <2> QED BY <2>2, <1>7, <1>8, Zenon
<1> QED BY <1>7, <1>8, <1>9, Zenon

(* heap_locate finds a hole that is as asked for, or has no memory, or      *)
(* takes memory it does not have.                                           *)
Found(h, r, reqd, align) ==
  \/ r.head = NoTables
  \/ r.head = None /\ Ready(r.h) /\ SameUse(h, r.h) /\ r.h.memend >= h.memend
  \/ /\ InHand(r.h, r.head, reqd) /\ SameUse(h, r.h) /\ r.h.memend >= h.memend
     /\ r.h.memend % PAGE_SIZE = 0
     /\ align => heap_addr(r.head) % PAGE_SIZE = 0

LEMMA LocateProperty ==
  ASSUME KheapAssumption, NEW h, Ready(h), NEW reqd \in Nat, NEW align \in BOOLEAN
  PROVE  Found(h, heap_locate(h, reqd, align), reqd, align)
<1> DEFINE n == Expansion(reqd + KHEAP_OVHD)
           k == CHOOSE i \in 0 .. memmax :
                  /\ Ends(Expanded(h, i, reqd), reqd, align)
                  /\ \A j \in 0 .. i - 1 : ~Ends(Expanded(h, j, reqd), reqd, align)
           g == Expanded(h, k, reqd)
           F == Fits(g, reqd, align)
           r == heap_locate(h, reqd, align)
<1>1. k \in 0 .. memmax
  BY LocateEnds, SMTT(30), ZenonT(30)
<1>2. r = IF F # {} THEN heap_trim(g, g.holes[Min(F)], reqd, align)
          ELSE IF g.memend = memmax THEN [h |-> g, head |-> None]
          ELSE IF g.memend + n > memmax THEN [h |-> g, head |-> NoTables]
          ELSE [h |-> heap_expand(g, n), head |-> None]
  BY Zenon DEF heap_locate
<1> HIDE DEF k, F, r
<1>3. k \in Nat /\ KHEAP_OVHD \in Nat /\ reqd + KHEAP_OVHD \in Nat /\ reqd + KHEAP_OVHD > 0 /\ PAGE_SIZE \in Nat \ {0}
  BY <1>1, Overhead
<1>4. n \in Nat /\ n >= KHEAP_OVHD /\ n > 0 /\ n % PAGE_SIZE = 0
  BY <1>3, ExpansionProperty, Zenon
<1>5. Ready(g) /\ g.memend = h.memend + (k * n) /\ SameUse(h, g)
  BY <1>3, ExpandedProperty, Zenon
<1> HIDE DEF g, n
<1>6. g.memend \in Nat /\ h.memend \in Nat /\ g.memend >= h.memend
  <2>1. k * n \in Nat
    BY <1>3, <1>4
  <2>2. g.memend \in Nat /\ h.memend \in Nat
    BY <1>5, Zenon DEF Ready, Sound, Shape
  <2> DEFINE z == k * n
  <2>3. z \in Nat /\ g.memend = h.memend + z
    BY <1>5, <2>1, Zenon
  <2> HIDE DEF z
  <2> QED BY <2>2, <2>3
<1>7. CASE F # {}
  <2> DEFINE b == g.holes[Min(F)]
             c == heap_trim(g, b, reqd, align)
  <2>1. F \in SUBSET Nat
    BY <1>5 DEF F, Fits, Ready, Sound, Shape
  <2>2. Min(F) \in F
    BY <2>1, <1>7, MinProperty, Zenon
  <2>3. /\ b \in Holes(g) /\ g.size[b] >= reqd + KHEAP_OVHD
        /\ align => CanAlign(g, b, reqd)
    BY <2>2, Zenon DEF F, Fits, Holes, Range
  <2> HIDE DEF b
  <2>4. InHand(g, b, reqd)
    BY <2>3, <1>5, Zenon DEF InHand, Ready, Apart
  <2>5. /\ InHand(c.h, c.head, reqd) /\ c.h.memend = g.memend /\ SameUse(g, c.h)
        /\ align => heap_addr(c.head) % PAGE_SIZE = 0
    BY <2>3, <2>4, TrimProperty, Zenon
  <2>6. r = c
    BY <1>2, <1>7, Zenon DEF b
  <2> HIDE DEF c
  <2>7. r.h.memend % PAGE_SIZE = 0 /\ r.h.memend >= h.memend /\ SameUse(h, r.h)
    BY <2>5, <2>6, <1>5, <1>6 DEF Ready, SameUse
  <2> QED BY <2>5, <2>6, <2>7, Zenon DEF Found, r
<1>8. CASE F = {} /\ g.memend = memmax
  <2>1. r = [h |-> g, head |-> None]
    BY <1>2, <1>8, Zenon
  <2> QED BY <2>1, <1>5, <1>6 DEF Found, r
<1>9. CASE F = {} /\ g.memend # memmax /\ g.memend + n > memmax
  <2>1. r = [h |-> g, head |-> NoTables]
    BY <1>2, <1>9, Zenon
  <2> QED BY <2>1 DEF Found, r
<1>10. CASE F = {} /\ g.memend # memmax /\ ~(g.memend + n > memmax)
  <2> DEFINE c == heap_expand(g, n)
  <2>1. r = [h |-> c, head |-> None]
    BY <1>2, <1>10, Zenon
  <2>2. Sound(g) /\ Apart(g, {}) /\ g.memend % PAGE_SIZE = 0
    BY <1>5, Zenon DEF Ready
  <2>3. Sound(c) /\ Apart(c, {}) /\ c.memend = g.memend + n /\ SameUse(g, c)
    BY <2>2, <1>4, ExpandProperty, Zenon
  <2> HIDE DEF c
  <2>4. c.memend % PAGE_SIZE = 0
    BY <2>2, <2>3, <1>3, <1>4, <1>6, PagesAdd
  <2>5. Ready(c) /\ SameUse(h, c) /\ c.memend >= h.memend
    BY <2>3, <2>4, <1>4, <1>5, <1>6 DEF Ready, SameUse
  <2> QED BY <2>1, <2>5 DEF Found, r
<1> QED BY <1>7, <1>8, <1>9, <1>10, Zenon

-----------------------------------------------------------------------------
(* The inductive invariant: what is in use is what callers have, and each   *)
(* has what it asked for.                                                   *)
Right(h, g) ==
  /\ g.addr \in Nat /\ g.len \in Lengths /\ g.align \in BOOLEAN
  /\ heap_head(g.addr) \in Used(h) /\ h.size[heap_head(g.addr)] >= g.len + KHEAP_OVHD
  /\ g.align => g.addr % PAGE_SIZE = 0
HeapInv ==
  /\ Ready(heap) /\ heap.memend > 0
  /\ \A b \in Used(heap) : \E g \in given : b = heap_head(g.addr)
  /\ \A g \in given : Right(heap, g)
  /\ \A f, g \in given : f.addr = g.addr => f = g
  /\ heapcpu \in {"ok", "spins", "wild"} /\ ret \in Lengths \cup {-1}

LEMMA HeapStarts == ASSUME KheapAssumption, HeapInit PROVE HeapInv
<1> DEFINE h == [size |-> <<>>, holes |-> <<>>, memend |-> 0]
           n == Expansion(1)
<1>1. h.size = <<>> /\ h.holes = <<>> /\ h.memend = 0 /\ Blocks(h) = {} /\ Holes(h) = {}
  BY DEF Blocks, Holes, Range
<1>2. Sound(h) /\ Apart(h, {})
  BY <1>1 DEF Sound, Shape, Filled, Listed, Apart, IsInjective
<1>3. n \in Nat /\ n >= KHEAP_OVHD /\ n > 0 /\ n % PAGE_SIZE = 0
  BY ExpansionProperty
<1>4. heap = heap_expand(h, n) /\ given = {} /\ heapcpu = "ok" /\ ret = -1
  BY Zenon DEF HeapInit
<1> HIDE DEF h, n
<1>5. Sound(heap) /\ Apart(heap, {}) /\ heap.memend = h.memend + n /\ SameUse(h, heap)
  BY <1>2, <1>3, <1>4, ExpandProperty, Zenon
<1>6. heap.memend = n /\ Used(heap) = {}
  BY <1>1, <1>3, <1>5 DEF SameUse, Used
<1> QED BY <1>3, <1>4, <1>5, <1>6, Zenon DEF HeapInv, Ready

(* What Right says is about the blocks in use. *)
LEMMA RightKept ==
  ASSUME NEW h, NEW k, NEW g, Right(h, g), heap_head(g.addr) \in Used(k),
         k.size[heap_head(g.addr)] = h.size[heap_head(g.addr)]
  PROVE  Right(k, g)
BY Zenon DEF Right

LEMMA HeapAlloc ==
  ASSUME KheapAssumption, HeapInv, NEW reqd \in Lengths, NEW align \in BOOLEAN, heap_alloc(reqd, align)
  PROVE  HeapInv' /\ (Memory!Malloc \/ UNCHANGED given)
<1> DEFINE found == heap_locate(heap, reqd, align)
           b == found.head
           k == found.h
           new == [addr |-> heap_addr(b), len |-> reqd, align |-> align]
<1>1. Lengths \subseteq Nat /\ reqd \in Nat /\ Header \in Nat /\ Footer \in Nat
      /\ KHEAP_OVHD \in Nat /\ KHEAP_OVHD = Header + Footer
  BY Overhead, Zenon DEF KHEAP_OVHD
<1>2. Ready(heap) /\ heap.memend > 0 /\ heap.memend \in Nat
  BY Zenon DEF HeapInv, Ready, Sound, Shape
<1>3. Found(heap, found, reqd, align)
  BY <1>1, <1>2, LocateProperty, Zenon
<1>4. \/ b = NoTables /\ heapcpu' = "wild" /\ UNCHANGED <<heap, given, ret>>
      \/ b = None /\ heapcpu' = "spins" /\ ret' = reqd /\ heap' = k /\ UNCHANGED given
      \/ /\ b >= 0 /\ heap' = list_rem(k, b) /\ given' = given \cup {new}
         /\ ret' = -1 /\ UNCHANGED heapcpu
  BY Zenon DEF heap_alloc
<1> HIDE DEF found, new
<1>5. CASE b = NoTables /\ heapcpu' = "wild" /\ UNCHANGED <<heap, given, ret>>
  BY <1>5, Zenon DEF HeapInv, Ready, Sound, Shape, Filled, Listed, Apart, Right, Used, Holes, Blocks
<1>6. CASE b = None /\ heapcpu' = "spins" /\ ret' = reqd /\ heap' = k /\ UNCHANGED given
  <2>0. b # NoTables /\ b \notin Nat
    BY <1>6 DEF None, NoTables
  <2>1. Ready(k) /\ SameUse(heap, k) /\ k.memend >= heap.memend
    <3>1. ASSUME InHand(k, b, reqd) PROVE b \in Nat
      BY <3>1, Zenon DEF InHand, Sound, Listed, Shape
    <3> QED BY <2>0, <3>1, <1>3, Zenon DEF Found
  <2> HIDE DEF k, b
  <2>2. Ready(heap') /\ heap'.memend > 0
    <3>1. k.memend > 0
      BY <2>1, <1>2 DEF Ready, Sound, Shape
    <3> QED BY <3>1, <2>1, <1>6, Zenon
  <2>3. Used(heap') = Used(heap) /\ \A x \in Used(heap) : heap'.size[x] = heap.size[x]
    BY <2>1, <1>6, Zenon DEF SameUse
  <2>4. \A g \in given' : Right(heap', g)
    <3> SUFFICES ASSUME NEW g \in given PROVE Right(heap', g)
      BY <1>6, Zenon
    <3>1. Right(heap, g) /\ heap_head(g.addr) \in Used(heap)
      BY Zenon DEF HeapInv, Right
    <3> QED BY <3>1, <2>3, RightKept, Zenon
  <2>5. \A x \in Used(heap') : \E g \in given' : x = heap_head(g.addr)
    BY <2>3, <1>6, Zenon DEF HeapInv
  <2> QED BY <2>2, <2>4, <2>5, <1>6, Zenon DEF HeapInv, Ready
<1>7. CASE /\ b >= 0 /\ heap' = list_rem(k, b) /\ given' = given \cup {new}
           /\ ret' = -1 /\ UNCHANGED heapcpu
  <2>1. /\ InHand(k, b, reqd) /\ SameUse(heap, k) /\ k.memend >= heap.memend
        /\ k.memend % PAGE_SIZE = 0
        /\ align => heap_addr(b) % PAGE_SIZE = 0
    BY <1>3, <1>7 DEF Found, None, NoTables
  <2> HIDE DEF k, b
  <2>2. /\ Sound(k) /\ b \in Holes(k) /\ b \in Blocks(k) /\ b \in Nat /\ Apart(k, {b}) /\ k.size[b] >= reqd + KHEAP_OVHD
        /\ k.memend \in Nat
    BY <2>1, Zenon DEF InHand, Sound, Listed, Shape
  <2>3. Sound(heap') /\ heap'.size = k.size /\ heap'.memend = k.memend /\ Holes(heap') = Holes(k) \ {b}
    BY <2>2, <1>7, RemHole, Zenon
  <2>4. Used(heap') = Used(heap) \cup {b} /\ b \notin Used(heap)
    <3>1. Used(heap) = Used(k) /\ Blocks(heap') = Blocks(k)
      BY <2>1, <2>3, Zenon DEF SameUse, Blocks
    <3> QED BY <3>1, <2>2, <2>3, Zenon DEF Used
  <2>5. \A x \in Used(heap) : heap'.size[x] = heap.size[x]
    BY <2>1, <2>3, Zenon DEF SameUse
  <2>6. Ready(heap') /\ heap'.memend > 0
    <3>1. Apart(heap', {})
      BY <2>2, <2>3, Zenon DEF Apart
    <3>2. heap'.memend > 0 /\ heap'.memend % PAGE_SIZE = 0
      BY <2>1, <2>2, <2>3, <1>2
    <3> QED BY <3>1, <3>2, <2>3, Zenon DEF Ready
  <2>7. new.addr = b + Header /\ new.len = reqd /\ new.align = align /\ heap_head(new.addr) = b
        /\ new.addr \in Nat
    BY <2>2, <1>1 DEF new, heap_addr, heap_head
  <2>8. Right(heap', new)
    <3>1. new.align => new.addr % PAGE_SIZE = 0
      BY <2>1, <2>7, Zenon DEF heap_addr
    <3>2. heap_head(new.addr) \in Used(heap') /\ heap'.size[heap_head(new.addr)] >= new.len + KHEAP_OVHD
      BY <2>2, <2>3, <2>4, <2>7
    <3> QED BY <3>1, <3>2, <2>7, Zenon DEF Right
  <2>9. ASSUME NEW g \in given
        PROVE  Right(heap', g) /\ heap_head(g.addr) # b /\ g.addr # new.addr /\ Memory!Disjoint(g, new)
    <3> DEFINE x == heap_head(g.addr)
    <3>1. Right(heap, g) /\ x \in Used(heap)
      BY Zenon DEF HeapInv, Right
    <3>2. x \in Used(heap') /\ heap'.size[x] = heap.size[x] /\ x # b
      BY <3>1, <2>4, <2>5, Zenon
    <3>3. Right(heap', g)
      BY <3>1, <3>2, RightKept, Zenon
    <3>4. /\ g.addr \in Nat /\ g.len \in Nat /\ g.addr = x + Header
          /\ x \in Blocks(heap') /\ x \in Nat /\ heap'.size[x] \in Nat /\ heap'.size[x] >= g.len + KHEAP_OVHD
      <4>1. x \in Blocks(heap') /\ x \in Nat /\ heap'.size[x] \in Nat
        BY <3>2, <2>3, Zenon DEF Used, Sound, Shape
      <4>2. g.addr \in Nat /\ g.len \in Lengths /\ heap'.size[x] >= g.len + KHEAP_OVHD
        BY <3>3, Zenon DEF Right
      <4>3. g.addr = x + Header
        BY <4>2, <1>1 DEF heap_head
      <4> QED BY <4>1, <4>2, <4>3, <1>1
    <3>5. b \in Blocks(heap') /\ heap'.size[b] \in Nat /\ heap'.size[b] >= reqd + KHEAP_OVHD
      <4>1. b \in Blocks(heap')
        BY <2>4, Zenon DEF Used
      <4> QED BY <4>1, <2>2, <2>3, Zenon DEF Sound, Shape
    <3> HIDE DEF x
    <3>6. g.addr # new.addr
      BY <3>2, <3>4, <2>2, <2>7, <1>1
    <3>7. x < b => x + heap'.size[x] <= b
      BY <3>4, <3>5, <2>3, Behind
    <3>8. b < x => b + heap'.size[b] <= x
      BY <3>4, <3>5, <2>3, Behind, Zenon
    <3>9. g.addr + g.len <= new.addr \/ new.addr + new.len <= g.addr
      BY <3>2, <3>4, <3>5, <3>7, <3>8, <2>2, <2>7, <1>1
    <3> QED BY <3>2, <3>3, <3>6, <3>9 DEF x, Memory!Disjoint
  <2>10. HeapInv'
    <3>1. \A x \in Used(heap') : \E g \in given' : x = heap_head(g.addr)
      BY <2>4, <2>7, <1>7, Zenon DEF HeapInv
    <3>2. \A g \in given' : Right(heap', g)
      BY <2>8, <2>9, <1>7
    <3>3. \A f, g \in given' : f.addr = g.addr => f = g
      BY <2>9, <1>7, Zenon DEF HeapInv
    <3> QED BY <3>1, <3>2, <3>3, <2>6, <1>7 DEF HeapInv
  <2>11. Memory!Malloc
    <3>1. new \notin given /\ new \in given' \ given
      BY <2>9, <1>7, Zenon
    <3>2. new.addr >= 0 /\ new.len \in Lengths /\ (new.align => new.addr % PAGE_SIZE = 0)
      BY <2>7, <2>8 DEF Right
    <3> QED BY <3>1, <3>2, <2>9, <1>7 DEF Memory!Malloc
  <2> QED BY <2>10, <2>11, Zenon
<1> QED BY <1>4, <1>5, <1>6, <1>7, Zenon

LEMMA HeapFree ==
  ASSUME KheapAssumption, HeapInv, NEW g \in given, heap_free(g)
  PROVE  HeapInv' /\ Memory!Free
<1> DEFINE b == heap_head(g.addr)
<1>1. heap' = heap_free_nolock(heap, b) /\ given' = given \ {g} /\ ret' = -1 /\ UNCHANGED heapcpu
  BY Zenon DEF heap_free
<1>2. Sound(heap) /\ Apart(heap, {}) /\ heap.memend % PAGE_SIZE = 0 /\ heap.memend > 0 /\ b \in Used(heap)
  BY Zenon DEF HeapInv, Ready, Right
<1>3. /\ Sound(heap') /\ heap'.memend = heap.memend /\ Used(heap') = Used(heap) \ {b}
      /\ \A x \in Used(heap') : heap'.size[x] = heap.size[x]
      /\ Apart(heap', {})
  BY <1>1, <1>2, FreeProperty
<1>4. Ready(heap') /\ heap'.memend > 0
  BY <1>2, <1>3, Zenon DEF Ready
<1>5. ASSUME NEW f \in given \ {g} PROVE Right(heap', f)
  <2>1. Right(heap, f) /\ Right(heap, g) /\ f.addr # g.addr
    BY <1>5, Zenon DEF HeapInv
  <2>2. heap_head(f.addr) # b /\ heap_head(f.addr) \in Used(heap)
    <3>1. f.addr \in Nat /\ g.addr \in Nat /\ Header \in Nat
      BY <2>1, Overhead, Zenon DEF Right
    <3>2. heap_head(f.addr) # b
      BY <3>1, <2>1 DEF heap_head
    <3> QED BY <3>2, <2>1, Zenon DEF Right
  <2> QED BY <2>1, <2>2, <1>3, RightKept, Zenon
<1>6. \A x \in Used(heap') : \E f \in given' : x = heap_head(f.addr)
  BY <1>1, <1>3, Zenon DEF HeapInv
<1>7. HeapInv'
  BY <1>1, <1>4, <1>5, <1>6, Zenon DEF HeapInv
<1> QED BY <1>1, <1>7, Zenon DEF Memory!Free

LEMMA HeapStep ==
  ASSUME KheapAssumption, HeapInv, [HeapNext]_heapVars
  PROVE  HeapInv' /\ [Memory!Next]_given
<1>1. ASSUME NEW n \in Lengths, NEW align \in BOOLEAN, heap_alloc(n, align)
      PROVE  HeapInv' /\ [Memory!Next]_given
  BY <1>1, HeapAlloc, Zenon DEF Memory!Next
<1>2. ASSUME NEW g \in given, heap_free(g) PROVE HeapInv' /\ [Memory!Next]_given
  BY <1>2, HeapFree, Zenon DEF Memory!Next
<1>3. CASE UNCHANGED heapVars
  <2>1. heap' = heap /\ given' = given /\ heapcpu' = heapcpu /\ ret' = ret
    BY <1>3, Zenon DEF heapVars
  <2>2. HeapInv'
    BY <2>1 DEF HeapInv, Ready, Sound, Shape, Filled, Listed, Apart, Right, Used, Holes, Blocks
  <2> QED BY <2>1, <2>2, Zenon
<1> QED BY <1>1, <1>2, <1>3, Zenon DEF HeapNext, HeapStopped

LEMMA HeapImplies ==
  ASSUME KheapAssumption, HeapInv
  PROVE  Tiles /\ HolesAreTheRest /\ BestFirst /\ Merged /\ HeapTypeOK
<1>1. Sound(heap) /\ Apart(heap, {}) /\ heap.memend % PAGE_SIZE = 0 /\ heap.memend > 0 /\ heap.memend \in Nat
  BY Zenon DEF HeapInv, Ready, Sound, Shape
<1>2. Tiles
  BY <1>1 DEF Tiles, Sound, Filled
<1>3. BestFirst /\ Merged
  BY <1>1, Zenon DEF BestFirst, Merged, Sound, Listed, Apart, Holes
<1>4. HolesAreTheRest
  <2>1. {heap_head(g.addr) : g \in given} = Used(heap)
    <3>1. \A g \in given : heap_head(g.addr) \in Used(heap)
      BY Zenon DEF HeapInv, Right
    <3>2. \A b \in Used(heap) : \E g \in given : b = heap_head(g.addr)
      BY Zenon DEF HeapInv
    <3> QED BY <3>1, <3>2, Zenon
  <2>2. Holes(heap) \subseteq Blocks(heap) /\ IsInjective(heap.holes)
    BY <1>1, Zenon DEF Sound, Listed
  <2> QED BY <2>1, <2>2, Zenon DEF HolesAreTheRest, Used, Holes
<1>5. HeapTypeOK
  BY <1>1, Zenon DEF HeapInv, Right, HeapTypeOK
<1> QED BY <1>2, <1>3, <1>4, <1>5, Zenon

(* Through every sequence of heap_alloc and heap_free the blocks fill the   *)
(* heap, each is a hole or a caller's, the holes are in order of size and   *)
(* no two lie side by side: heap_expand, heap_trim and heap_free_nolock     *)
(* lose no memory and invent none.                                          *)
THEOREM HeapRight ==
  ASSUME KheapAssumption
  PROVE  HeapSpec => [](Tiles /\ HolesAreTheRest /\ BestFirst /\ Merged /\ HeapTypeOK)
<1>1. HeapInit => HeapInv
  BY HeapStarts, Zenon
<1>2. HeapInv /\ [HeapNext]_heapVars => HeapInv'
  BY HeapStep, Zenon
<1>3. HeapInv => Tiles /\ HolesAreTheRest /\ BestFirst /\ Merged /\ HeapTypeOK
  BY HeapImplies, Zenon
<1> QED BY <1>1, <1>2, <1>3, PTL DEF HeapSpec

(* What heap_alloc gives to a caller overlaps nothing another one has, is   *)
(* as long as was asked for and aligned when that was asked for, until      *)
(* heap_free takes it back.                                                 *)
THEOREM HeapAllocates ==
  ASSUME KheapAssumption
  PROVE  HeapSpec => ImplementsAllocator
<1>1. HeapInit => HeapInv /\ Memory!Init
  BY HeapStarts, Zenon DEF HeapInit, Memory!Init
<1>2. HeapInv /\ [HeapNext]_heapVars => HeapInv' /\ [Memory!Next]_given
  BY HeapStep, Zenon
<1> QED BY <1>1, <1>2, PTL DEF HeapSpec, ImplementsAllocator, Memory!Spec

-----------------------------------------------------------------------------
(* Address spaces. *)

Dirs == [tables : SUBSET Tables, page : [Pages -> 0 .. NumFrames]]

(* The next facts are about the six pages as numbers. *)
LEMMA PagesAreNumbers == Pages \subseteq Nat /\ IsFiniteSet(Pages)
<1>1. TEMP \in Nat /\ \A p \in Pages : p \in Nat /\ p <= TEMP
  BY DEF Pages, PROG, DATA, STK, SIG, KST, TEMP
<1>2. Pages \subseteq 0 .. TEMP /\ IsFiniteSet(0 .. TEMP)
  BY <1>1, FS_Interval
<1> QED BY <1>1, <1>2, FS_Subset, Zenon

LEMMA PagesDiffer ==
  /\ PROG \in Pages \ {TEMP} /\ DATA \in Pages \ {TEMP} /\ STK \in Pages \ {TEMP}
  /\ SIG \in Pages \ {TEMP} /\ KST \in Pages \ {TEMP} /\ TEMP \in Pages
BY DEF Pages, PROG, DATA, STK, SIG, KST, TEMP

LEMMA TablesOfPages == \A p \in Pages : PAGE_TABLE(p) \in Tables
BY Zenon DEF Tables

LEMMA FramesAreFinite ==
  ASSUME PagingAssumption, NEW reserved
  PROVE  /\ Frames \ reserved \in SUBSET Nat /\ IsFiniteSet(Frames \ reserved)
         /\ Cardinality(Frames \ reserved) \in Nat
<1>1. IsFiniteSet(Frames) /\ Frames \subseteq Nat
  BY FS_Interval DEF Frames, PagingAssumption
<1>2. IsFiniteSet(Frames \ reserved)
  BY <1>1, FS_Subset, Zenon
<1> QED BY <1>1, <1>2, FS_CardinalityType, Zenon

(* find_free_frame and reserve_frame for several pages: every one gets a    *)
(* frame that was free, and no two the same.                                *)
LEMMA AllocFrames ==
  ASSUME PagingAssumption, NEW ps \in SUBSET Pages, NEW reserved, Enough(ps, reserved)
  PROVE  /\ \A p \in ps : alloc_frames(ps, reserved)[p] \in Frames \ reserved
         /\ \A p, q \in ps : alloc_frames(ps, reserved)[p] = alloc_frames(ps, reserved)[q]
                               => p = q
<1> DEFINE free == Frames \ reserved
<1>1. free \in SUBSET Nat /\ IsFiniteSet(free) /\ Cardinality(free) \in Nat
  BY FramesAreFinite, Zenon
<1>2. ps \in SUBSET Nat /\ IsFiniteSet(ps)
  BY PagesAreNumbers, FS_Subset, Zenon
<1>3. Cardinality(ps) \in Nat /\ Cardinality(free) >= Cardinality(ps)
  BY <1>2, FS_CardinalityType, Zenon DEF Enough
<1>4. \A p \in ps : alloc_frames(ps, reserved)[p] = Nth(free, Rank(ps, p))
  BY Zenon DEF alloc_frames, Nth, Rank
<1> HIDE DEF free
<1>5. ASSUME NEW p \in ps
      PROVE  /\ Nth(free, Rank(ps, p)) \in free
             /\ Rank(free, Nth(free, Rank(ps, p))) = Rank(ps, p)
             /\ Nth(ps, Rank(ps, p)) = p
  <2>1. Rank(ps, p) \in 0 .. Cardinality(ps) - 1
    BY <1>2, RankBound, Zenon
  <2>2. Rank(ps, p) \in 0 .. Cardinality(free) - 1
    BY <2>1, <1>1, <1>3
  <2>3. /\ Nth(free, Rank(ps, p)) \in free
        /\ Rank(free, Nth(free, Rank(ps, p))) = Rank(ps, p)
    BY <2>2, <1>1, NthProperty, Zenon
  <2>4. Nth(ps, Rank(ps, p)) = p
    BY <1>2, NthOfRank, Zenon
  <2> QED BY <2>3, <2>4, Zenon
<1>6. ASSUME NEW p \in ps, NEW q \in ps, Nth(free, Rank(ps, p)) = Nth(free, Rank(ps, q))
      PROVE  p = q
  BY <1>5, <1>6, Zenon
<1>7. \A p \in ps : Nth(free, Rank(ps, p)) \in Frames \ reserved
  BY <1>5, Zenon DEF free
<1> QED BY <1>4, <1>6, <1>7, Zenon

(* A directory by its parts. *)
LEMMA DirOfParts ==
  ASSUME NEW tables \in SUBSET Tables, NEW page \in [Pages -> 0 .. NumFrames]
  PROVE  /\ [tables |-> tables, page |-> page] \in Dirs
         /\ [tables |-> tables, page |-> page].tables = tables
         /\ [tables |-> tables, page |-> page].page = page
BY Zenon DEF Dirs

LEMMA PartsOfDir ==
  ASSUME NEW d \in Dirs
  PROVE  d.tables \subseteq Tables /\ d.page \in [Pages -> 0 .. NumFrames]
BY Zenon DEF Dirs

(* alloc_page leaves what is there and puts free frames where nothing is. *)
LEMMA AllocPage ==
  ASSUME PagingAssumption, NEW d \in Dirs, NEW ps \in SUBSET Pages, NEW reserved,
         Enough(ps \ Present(d), reserved)
  PROVE  LET n == alloc_page(d, ps, reserved) IN
         /\ n \in Dirs
         /\ n.tables = d.tables \cup {PAGE_TABLE(p) : p \in ps}
         /\ \A p \in ps \ Present(d) : n.page[p] \in Frames \ reserved
         /\ \A p \in Pages : p \notin ps \ Present(d) => n.page[p] = d.page[p]
         /\ \A p, q \in ps \ Present(d) : n.page[p] = n.page[q] => p = q
<1> DEFINE new == alloc_frames(ps \ Present(d), reserved)
           tables == d.tables \cup {PAGE_TABLE(p) : p \in ps}
           page == [p \in Pages |-> IF p \in ps \ Present(d) THEN new[p] ELSE d.page[p]]
<1>1. /\ \A p \in ps \ Present(d) : new[p] \in Frames \ reserved
      /\ \A p, q \in ps \ Present(d) : new[p] = new[q] => p = q
  <2>1. ps \ Present(d) \in SUBSET Pages
    BY Zenon
  <2> QED BY <2>1, AllocFrames, Zenon
<1> HIDE DEF new
<1>2. Frames \subseteq 0 .. NumFrames
  BY DEF Frames, PagingAssumption
<1>3. page \in [Pages -> 0 .. NumFrames]
  BY <1>1, <1>2, PartsOfDir, Zenon
<1>4. tables \in SUBSET Tables
  BY PartsOfDir, TablesOfPages, Zenon
<1>5. alloc_page(d, ps, reserved) = [tables |-> tables, page |-> page]
  BY Zenon DEF alloc_page, new
<1>6. \A p \in Pages : page[p] = IF p \in ps \ Present(d) THEN new[p] ELSE d.page[p]
  BY Zenon
<1> HIDE DEF page
<1>7. /\ alloc_page(d, ps, reserved) \in Dirs
      /\ alloc_page(d, ps, reserved).tables = tables
      /\ alloc_page(d, ps, reserved).page = page
  BY <1>3, <1>4, <1>5, DirOfParts
<1> QED BY <1>1, <1>6, <1>7, Zenon

(* copy_page_dir maps the same pages, all of them to frames of its own. *)
LEMMA CopyPageDir ==
  ASSUME PagingAssumption, NEW d \in Dirs, NEW reserved, Enough(Present(d), reserved)
  PROVE  LET n == copy_page_dir(d, reserved) IN
         /\ n \in Dirs /\ n.tables = d.tables /\ Present(n) = Present(d)
         /\ \A p \in Present(d) : n.page[p] \in Frames \ reserved
         /\ \A p, q \in Present(d) : n.page[p] = n.page[q] => p = q
<1> DEFINE new == alloc_frames(Present(d), reserved)
           page == [p \in Pages |-> IF p \in Present(d) THEN new[p] ELSE 0]
<1>0. Present(d) \in SUBSET Pages
  BY Zenon DEF Present
<1>1. /\ \A p \in Present(d) : new[p] \in Frames \ reserved
      /\ \A p, q \in Present(d) : new[p] = new[q] => p = q
  BY <1>0, AllocFrames, Zenon
<1> HIDE DEF new
<1>2. Frames \subseteq 0 .. NumFrames /\ 0 \notin Frames /\ 0 \in 0 .. NumFrames
  BY DEF Frames, PagingAssumption
<1>3. page \in [Pages -> 0 .. NumFrames]
  BY <1>1, <1>2, Zenon
<1>5. copy_page_dir(d, reserved) = [tables |-> d.tables, page |-> page]
  BY Zenon DEF copy_page_dir, new
<1>6. \A p \in Pages : page[p] = IF p \in Present(d) THEN new[p] ELSE 0
  BY Zenon
<1> HIDE DEF page
<1>7. /\ copy_page_dir(d, reserved) \in Dirs
      /\ copy_page_dir(d, reserved).tables = d.tables
      /\ copy_page_dir(d, reserved).page = page
  BY <1>3, <1>5, DirOfParts, PartsOfDir
<1>8. \A p \in Pages : p \in Present(d) <=> page[p] # 0
  BY <1>1, <1>2, <1>6, Zenon
<1>9. Present(copy_page_dir(d, reserved)) = Present(d)
  BY <1>0, <1>7, <1>8, Zenon DEF Present
<1> QED BY <1>0, <1>1, <1>6, <1>7, <1>9, Zenon

(* strip_page_dir takes pages away, and no table of a page it keeps. *)
LEMMA StripPageDir ==
  ASSUME PagingAssumption, NEW d \in Dirs
  PROVE  LET n == strip_page_dir(d) IN
         /\ n \in Dirs
         /\ \A p \in Pages : n.page[p] = IF Kept(p) THEN d.page[p] ELSE 0
         /\ \A p \in Pages : Kept(p) /\ PAGE_TABLE(p) \in d.tables
                               => PAGE_TABLE(p) \in n.tables
<1> DEFINE erased == {t \in d.tables \ KernTables :
                        \A p \in Pages : PAGE_TABLE(p) = t => ~Kept(p)}
           tables == d.tables \ erased
           page == [p \in Pages |-> IF Kept(p) THEN d.page[p] ELSE 0]
<1>1. page \in [Pages -> 0 .. NumFrames]
  BY PartsOfDir DEF PagingAssumption
<1>2. tables \in SUBSET Tables
  BY PartsOfDir, Zenon
<1>3. strip_page_dir(d) = [tables |-> tables, page |-> page]
  BY Zenon DEF strip_page_dir
<1>4. \A p \in Pages : Kept(p) /\ PAGE_TABLE(p) \in d.tables => PAGE_TABLE(p) \in tables
  BY Zenon
<1>5. \A p \in Pages : page[p] = IF Kept(p) THEN d.page[p] ELSE 0
  BY Zenon
<1> HIDE DEF tables, page
<1> QED BY <1>1, <1>2, <1>3, <1>4, <1>5, DirOfParts

LEMMA EmptyDir ==
  ASSUME PagingAssumption
  PROVE  /\ Empty \in Dirs /\ \A p \in Pages : Empty.page[p] = 0
         /\ Present(Empty) = {} /\ Mapped(Empty) = {}
<1>1. KernTables \in SUBSET Tables /\ [p \in Pages |-> 0] \in [Pages -> 0 .. NumFrames]
  BY DEF Tables, PagingAssumption
<1>2. Empty \in Dirs /\ Empty.page = [p \in Pages |-> 0]
  BY <1>1, DirOfParts, Zenon DEF Empty
<1> QED BY <1>2, Zenon DEF Present, Mapped

(* The frames a directory maps, page by page. *)
LEMMA MappedByPage ==
  ASSUME NEW d, NEW f
  PROVE  f \in Mapped(d) <=> \E p \in Pages : d.page[p] # 0 /\ d.page[p] = f
BY Zenon DEF Mapped, Present

-----------------------------------------------------------------------------
(* A task that does not exist has the kernel's tables and nothing else, and *)
(* the directory that is loaded is the running task's.                      *)
Unborn == \A t \in Processes : state[t] = "none" => dir[t] = Empty
Loaded == current = curdir /\ state[current] # "none"

(* The inductive invariant. *)
PagingInv == FramesOwned /\ dir \in [Processes -> Dirs] /\ Unborn /\ Loaded

(* OneOwner, page by page. *)
LEMMA Owner ==
  ASSUME OneOwner, pagecpu = "ok", NEW t \in Processes, NEW p \in Pages \ {TEMP},
         dir[t].page[p] # 0
  PROVE  /\ dir[t].page[p] \in physical_frame
         /\ \A u \in Processes, q \in Pages \ {TEMP} :
              dir[u].page[q] = dir[t].page[p] => u = t /\ q = p
BY Zenon DEF OneOwner, Present

(* A directory for task c in which no frame is mapped twice and none of the *)
(* others' is, so that with these frames reserved each has one owner.       *)
Separate(c, d, reserved) ==
  /\ \A t \in Processes \ {c}, p \in Pages \ {TEMP} :
       dir[t].page[p] # 0 => dir[t].page[p] \in reserved
  /\ \A p \in Pages \ {TEMP} : d.page[p] # 0 => d.page[p] \in reserved
  /\ \A t \in Processes \ {c}, p \in Pages \ {TEMP}, q \in Pages \ {TEMP} :
       d.page[p] # 0 => dir[t].page[q] # d.page[p]
  /\ \A p, q \in Pages \ {TEMP} : d.page[p] # 0 /\ d.page[p] = d.page[q] => p = q

(* One task gets another directory, and the frames change with it. *)
LEMMA OwnersOfReplaced ==
  ASSUME PagingInv, pagecpu = "ok", NEW c \in Processes, NEW d \in Dirs, dir' = [dir EXCEPT ![c] = d],
         Separate(c, d, physical_frame')
  PROVE  OneOwner'
<1>1. \A t \in Processes : dir'[t] = IF t = c THEN d ELSE dir[t]
  BY Zenon DEF PagingInv
<1>2. OneOwner
  BY Zenon DEF PagingInv, FramesOwned
<1> SUFFICES ASSUME NEW t \in Processes, NEW p \in Pages \ {TEMP}, dir'[t].page[p] # 0
             PROVE  /\ dir'[t].page[p] \in physical_frame'
                    /\ \A u \in Processes, q \in Pages \ {TEMP} :
                         dir'[u].page[q] = dir'[t].page[p] => u = t /\ q = p
  BY Zenon DEF OneOwner, Present
<1> USE DEF Separate
<1>3. CASE t = c
  BY <1>1, <1>3
<1>4. CASE t # c
  <2>1. dir'[t] = dir[t] /\ dir[t].page[p] \in physical_frame'
    BY <1>1, <1>4, Zenon
  <2>2. ASSUME NEW u \in Processes, NEW q \in Pages \ {TEMP}, dir'[u].page[q] = dir[t].page[p]
        PROVE  u = t /\ q = p
    <3>1. CASE u = c
      BY <1>1, <1>4, <2>1, <2>2, <3>1
    <3>2. CASE u # c
      BY <1>1, <1>2, <2>1, <2>2, <3>2, Owner
    <3> QED BY <3>1, <3>2, Zenon
  <2> QED BY <2>1, <2>2, Zenon
<1> QED BY <1>3, <1>4, Zenon

LEMMA NoneLostWithReplaced ==
  ASSUME PagingInv, pagecpu = "ok", NEW c \in Processes, NEW d \in Dirs, dir' = [dir EXCEPT ![c] = d],
         dropped' = dropped,
         \A f \in physical_frame' :
           \/ f \in Mapped(d)
           \/ f \in physical_frame /\ (f \in Mapped(dir[c]) => f \in Mapped(d))
  PROVE  NoFrameLost'
<1>1. \A t \in Processes : dir'[t] = IF t = c THEN d ELSE dir[t]
  BY Zenon DEF PagingInv
<1>2. \A f \in physical_frame : f \in dropped \/ \E t \in Processes : f \in Mapped(dir[t])
  BY Zenon DEF PagingInv, FramesOwned, NoFrameLost
<1>3. ASSUME NEW f \in physical_frame'
      PROVE  f \in dropped' \/ \E t \in Processes : f \in Mapped(dir'[t])
  <2>1. CASE f \in Mapped(d)
    BY <1>1, <2>1, Zenon
  <2>2. CASE f \in physical_frame /\ f \notin Mapped(d)
    BY <1>1, <1>2, <2>2, Zenon
  <2> QED BY <2>1, <2>2, Zenon
<1>4. \A t \in Processes : Mapped(dir'[t]) = Mapped(dir[t])'
  BY Zenon DEF Mapped, Present
<1>5. \A f \in physical_frame' : f \in dropped' \cup UNION {Mapped(dir[t])' : t \in Processes}
  BY <1>3, <1>4, Zenon
<1> QED BY <1>5, Zenon DEF NoFrameLost

LEMMA TablesOfReplaced ==
  ASSUME PagingInv, NEW c \in Processes, NEW d \in Dirs, dir' = [dir EXCEPT ![c] = d],
         \A p \in Pages : d.page[p] # 0 => PAGE_TABLE(p) \in d.tables
  PROVE  PagesInTables' /\ dir' \in [Processes -> Dirs]
<1>1. /\ \A t \in Processes : dir'[t] = IF t = c THEN d ELSE dir[t]
      /\ dir' \in [Processes -> Dirs]
  BY Zenon DEF PagingInv
<1>2. \A t \in Processes : \A p \in Pages :
        dir'[t].page[p] # 0 => PAGE_TABLE(p) \in dir'[t].tables
  BY <1>1, Zenon DEF PagingInv, FramesOwned, PagesInTables, Present
<1> QED BY <1>1, <1>2, Zenon DEF PagesInTables, Present

-----------------------------------------------------------------------------
(* find_free_frame finds the first frame for init's kernel stack. *)
LEMMA FirstFrame ==
  ASSUME PagingAssumption
  PROVE  /\ 1 \in Frames /\ Enough({KST}, {}) /\ alloc_frames({KST}, {})[KST] = 1
<1>1. 1 \in Frames \ {} /\ \A j \in Frames : ~ (j < 1)
  BY DEF Frames, PagingAssumption
<1>2. /\ Frames \ {} \in SUBSET Nat /\ IsFiniteSet(Frames \ {})
      /\ Cardinality(Frames \ {}) \in Nat
  BY FramesAreFinite, Zenon
<1>3. Rank(Frames \ {}, 1) = 0
  <2>1. {j \in Frames \ {} : j < 1} = {}
    BY <1>1
  <2> QED BY <2>1, FS_EmptySet, Zenon DEF Rank
<1>4. Rank({KST}, KST) = 0
  <2>1. {j \in {KST} : j < KST} = {}
    BY DEF KST
  <2> QED BY <2>1, FS_EmptySet, Zenon DEF Rank
<1>5. Nth(Frames \ {}, 0) = 1
  BY <1>1, <1>2, <1>3, NthOfRank
<1>6. alloc_frames({KST}, {})[KST] = Nth(Frames \ {}, Rank({KST}, KST))
  BY DEF alloc_frames, Nth, Rank
<1>7. Cardinality(Frames \ {}) # 0 /\ Cardinality({KST}) = 1
  BY <1>1, <1>2, FS_EmptySet, FS_Singleton, Zenon
<1> QED BY <1>1, <1>2, <1>4, <1>5, <1>6, <1>7 DEF Enough

LEMMA PagingStarts ==
  ASSUME PagingAssumption
  PROVE  PagingInit => PagingInv
<1> SUFFICES ASSUME PagingInit PROVE PagingInv
  BY Zenon
<1> DEFINE d == alloc_page(Empty, {KST}, {})
<1>1. {KST} \in SUBSET Pages /\ {KST} \ Present(Empty) = {KST} /\ KST \in Pages
  BY EmptyDir, PagesDiffer, Zenon
<1>2. /\ d \in Dirs /\ d.tables = Empty.tables \cup {PAGE_TABLE(p) : p \in {KST}}
      /\ \A p \in Pages : p # KST => d.page[p] = 0
  <2> DEFINE new == alloc_frames({KST}, {})
             page == [p \in Pages |-> IF p = KST THEN new[p] ELSE Empty.page[p]]
             tables == Empty.tables \cup {PAGE_TABLE(p) : p \in {KST}}
  <2>1. d = [tables |-> tables, page |-> page]
    BY <1>1, Zenon DEF alloc_page
  <2>2. new[KST] = 1 /\ 1 \in 0 .. NumFrames /\ 0 \in 0 .. NumFrames
    BY FirstFrame DEF PagingAssumption
  <2> HIDE DEF new
  <2>3. page \in [Pages -> 0 .. NumFrames] /\ \A p \in Pages : p # KST => page[p] = 0
    BY <2>2, EmptyDir, Zenon
  <2>4. tables \in SUBSET Tables
    BY <1>1, TablesOfPages, EmptyDir, PartsOfDir, Zenon
  <2> HIDE DEF page, tables
  <2>5. d \in Dirs /\ d.tables = tables /\ d.page = page
    BY <2>1, <2>3, <2>4, DirOfParts
  <2> QED BY <2>3, <2>5, SMTT(30), ZenonT(30) DEF tables
<1>3. d.page[KST] = 1
  BY <1>1, FirstFrame, Zenon DEF alloc_page
<1> HIDE DEF d
<1>4. /\ \A t \in Processes : dir[t] = IF t = init THEN d ELSE Empty
      /\ dir \in [Processes -> Dirs]
  BY <1>2, EmptyDir, Zenon DEF PagingInit, d
<1>5. \A t \in Processes, p \in Pages :
        dir[t].page[p] # 0 => t = init /\ p = KST /\ dir[t].page[p] = 1
  BY <1>2, <1>3, <1>4, EmptyDir, Zenon
<1>6. OneOwner
  BY <1>5 DEF OneOwner, Present, PagingInit
<1>7. PagesInTables
  BY <1>2, <1>4, <1>5 DEF PagesInTables, Present
<1>8. NoFrameLost
  <2>1. 1 \in Mapped(dir[init]) /\ init \in Processes
    BY <1>1, <1>3, <1>4, MappedByPage DEF PagingAssumption
  <2> QED BY <2>1, Zenon DEF NoFrameLost, PagingInit
<1>9. PagingTypeOK
  <2>1. \A t \in Processes :
          dir[t].tables \subseteq Tables /\ dir[t].page \in [Pages -> 0 .. NumFrames]
    BY <1>4, PartsOfDir, Zenon
  <2>2. physical_frame \subseteq Frames /\ data \in [Frames -> {0, 1}]
    BY FirstFrame, Zenon DEF PagingInit
  <2>3. /\ state \in [Processes -> {"none", "user", "kernel", "exiting"}]
        /\ current \in Processes /\ curdir \in Processes
        /\ nsig \in 0 .. MaxSignals /\ born \in 0 .. MaxBorn
        /\ pagecpu \in {"ok", "halted", "faults", "shared", "null"}
    BY DEF PagingInit, PagingAssumption
  <2> QED BY <2>1, <2>2, <2>3, Zenon DEF PagingTypeOK
<1>10. Unborn /\ Loaded
  BY <1>4, EmptyDir, Zenon DEF Unborn, Loaded, PagingInit, PagingAssumption
<1> QED BY <1>4, <1>6, <1>7, <1>8, <1>9, <1>10, Zenon DEF PagingInv, FramesOwned

-----------------------------------------------------------------------------
(* The part of the invariant that is about the frames. *)
Accounts == OneOwner /\ NoFrameLost /\ PagesInTables /\ dir \in [Processes -> Dirs]

(* What is left of the running task's directory, and of the frames, when    *)
(* some pages are gone; and that no frame which went is in use elsewhere.   *)
Remains(bare, left) ==
  /\ \A p \in Pages : bare.page[p] # 0 =>
       bare.page[p] = dir[current].page[p] /\ PAGE_TABLE(p) \in bare.tables
  /\ \A f \in left : f \in Mapped(dir[current]) => f \in Mapped(bare)
Undisturbed(bare, left) ==
  /\ \A t \in Processes \ {current}, p \in Pages \ {TEMP} :
       dir[t].page[p] # 0 => dir[t].page[p] \in left
  /\ \A p \in Pages \ {TEMP} : bare.page[p] # 0 => bare.page[p] \in left

(* A directory keeps some of its pages and gets frames for others, as in    *)
(* sys_execve and sys_sbrk.                                                 *)
LEMMA AllocIsSound ==
  ASSUME PagingAssumption, PagingInv, pagecpu = "ok", NEW bare \in Dirs, NEW want \in SUBSET Pages,
         NEW left \in SUBSET physical_frame, Enough(want \ Present(bare), left),
         Remains(bare, left), pagecpu' = "ok" => Undisturbed(bare, left),
         NEW d, d = alloc_page(bare, want, left),
         dir' = [dir EXCEPT ![current] = d], physical_frame' = left \cup Mapped(d),
         dropped' = dropped
  PROVE  Accounts'
<1> USE DEF Remains, Undisturbed
<1> DEFINE new == want \ Present(bare)
<1>1. /\ d \in Dirs /\ d.tables = bare.tables \cup {PAGE_TABLE(p) : p \in want}
      /\ \A p \in new : d.page[p] \in Frames \ left
      /\ \A p \in Pages : p \notin new => d.page[p] = bare.page[p]
      /\ \A p, q \in new : d.page[p] = d.page[q] => p = q
  <2>1. /\ alloc_page(bare, want, left) \in Dirs
        /\ alloc_page(bare, want, left).tables
             = bare.tables \cup {PAGE_TABLE(p) : p \in want}
        /\ \A p \in want \ Present(bare) :
             alloc_page(bare, want, left).page[p] \in Frames \ left
        /\ \A p \in Pages : p \notin want \ Present(bare) =>
             alloc_page(bare, want, left).page[p] = bare.page[p]
        /\ \A p, q \in want \ Present(bare) :
             alloc_page(bare, want, left).page[p] = alloc_page(bare, want, left).page[q]
               => p = q
    BY AllocPage, Zenon
  <2> QED BY <2>1, Zenon
<1>2. current \in Processes /\ OneOwner
  BY Zenon DEF PagingInv, FramesOwned, PagingTypeOK
<1>3. \A p \in Pages : p \in new => p \in want /\ bare.page[p] = 0
  BY Zenon DEF Present
<1>4. \A p \in Pages : bare.page[p] # 0 => d.page[p] = bare.page[p] /\ p \notin new
  BY <1>1, <1>3, Zenon
<1> HIDE DEF new
<1>5. PagesInTables' /\ dir' \in [Processes -> Dirs]
  <2>1. \A p \in Pages : d.page[p] # 0 => PAGE_TABLE(p) \in d.tables
    BY <1>1, <1>3, Zenon
  <2> QED BY <1>1, <1>2, <2>1, TablesOfReplaced, Zenon
<1>6. NoFrameLost'
  <2>1. \A f : f \in Mapped(bare) => f \in Mapped(d)
    BY <1>4, MappedByPage
  <2>2. \A f \in physical_frame' :
           \/ f \in Mapped(d)
           \/ f \in physical_frame /\ (f \in Mapped(dir[current]) => f \in Mapped(d))
    BY <2>1, Zenon
  <2> QED BY <1>1, <1>2, <2>2, NoneLostWithReplaced, Zenon
<1>7. CASE pagecpu' = "ok"
  <2>1. \A t \in Processes \ {current}, p \in Pages \ {TEMP} :
           dir[t].page[p] # 0 => dir[t].page[p] \in physical_frame'
    BY <1>7, Zenon
  <2>2. \A p \in Pages \ {TEMP} : d.page[p] # 0 => d.page[p] \in physical_frame'
    BY MappedByPage, Zenon
  <2>3. ASSUME NEW t \in Processes \ {current}, NEW p \in Pages \ {TEMP},
               NEW q \in Pages \ {TEMP}, d.page[p] # 0
        PROVE  dir[t].page[q] # d.page[p]
    <3>1. CASE p \in new
      <4>1. d.page[p] \in Frames \ left
        BY <1>1, <3>1, Zenon
      <4> QED BY <1>7, <2>3, <4>1, Zenon
    <3>2. CASE p \notin new
      <4>1. d.page[p] = dir[current].page[p]
        BY <1>1, <2>3, <3>2, Zenon
      <4> QED BY <1>2, <2>3, <4>1, Owner
    <3> QED BY <3>1, <3>2, Zenon
  <2>4. ASSUME NEW p \in Pages \ {TEMP}, NEW q \in Pages \ {TEMP},
               d.page[p] # 0, d.page[p] = d.page[q]
        PROVE  p = q
    <3>1. CASE p \in new /\ q \in new
      BY <1>1, <2>4, <3>1, Zenon
    <3>2. CASE p \in new /\ q \notin new
      BY <1>1, <1>7, <2>4, <3>2
    <3>3. CASE p \notin new /\ q \in new
      BY <1>1, <1>7, <2>4, <3>3
    <3>4. CASE p \notin new /\ q \notin new
      <4>1. dir[current].page[p] # 0 /\ dir[current].page[q] = dir[current].page[p]
        BY <1>1, <2>4, <3>4
      <4>2. \A u \in Processes, r \in Pages \ {TEMP} :
              dir[u].page[r] = dir[current].page[p] => u = current /\ r = p
        BY <1>2, <4>1, Owner, Zenon
      <4> QED BY <1>2, <4>1, <4>2, Zenon
    <3> QED BY <3>1, <3>2, <3>3, <3>4, Zenon
  <2>5. Separate(current, d, physical_frame')
    BY <2>1, <2>2, <2>3, <2>4, Zenon DEF Separate
  <2>6. d \in Dirs /\ current \in Processes
    BY <1>1, <1>2, Zenon
  <2>7. OneOwner'
    BY <2>5, <2>6, OwnersOfReplaced, Zenon
  <2> QED BY <1>5, <1>6, <2>7, Zenon DEF Accounts
<1>8. CASE pagecpu' # "ok"
  BY <1>5, <1>6, <1>8, Zenon DEF Accounts, OneOwner
<1> QED BY <1>7, <1>8, Zenon

(* What a child gets of a copy: some of its pages, in their tables. *)
LEMMA ChildDir ==
  ASSUME PagingAssumption, NEW copy \in Dirs, NEW kern,
         \A p \in Pages : copy.page[p] # 0 => PAGE_TABLE(p) \in copy.tables
  PROVE  LET d2 == IF kern THEN strip_page_dir(copy) ELSE copy IN
         /\ d2 \in Dirs
         /\ \A p \in Pages : d2.page[p] # 0 => /\ d2.page[p] = copy.page[p]
                                              /\ PAGE_TABLE(p) \in d2.tables
<1> DEFINE n == strip_page_dir(copy)
<1>1. /\ n \in Dirs
      /\ \A p \in Pages : n.page[p] = IF Kept(p) THEN copy.page[p] ELSE 0
      /\ \A p \in Pages : Kept(p) /\ PAGE_TABLE(p) \in copy.tables
                            => PAGE_TABLE(p) \in n.tables
  BY StripPageDir, Zenon
<1> HIDE DEF n
<1>2. \A p \in Pages : n.page[p] # 0 => n.page[p] = copy.page[p] /\ PAGE_TABLE(p) \in n.tables
  BY <1>1, Zenon
<1> QED BY <1>1, <1>2, Zenon DEF n

LEMMA ForkIsSound ==
  ASSUME PagingAssumption, PagingInv, NEW c \in Processes, NEW kern, fork(c, kern),
         Enough(Present(dir[current]), physical_frame), pagecpu' = pagecpu
  PROVE  Accounts'
<1> DEFINE d == dir[current]
           copy == copy_page_dir(d, physical_frame)
           d2 == IF kern THEN strip_page_dir(copy) ELSE copy
<1>1. /\ pagecpu = "ok" /\ state[c] = "none" /\ dir' = [dir EXCEPT ![c] = d2]
      /\ physical_frame' = physical_frame \cup Mapped(d2) /\ dropped' = dropped
  BY Zenon DEF fork, Halt, Born, Stays
<1>2. d \in Dirs /\ current \in Processes /\ OneOwner
  BY Zenon DEF PagingInv, FramesOwned, PagingTypeOK
<1>3. /\ copy \in Dirs /\ copy.tables = d.tables /\ Present(copy) = Present(d)
      /\ \A p \in Present(d) : copy.page[p] \in Frames \ physical_frame
      /\ \A p, q \in Present(d) : copy.page[p] = copy.page[q] => p = q
  <2> HIDE DEF d
  <2>1. Enough(Present(d), physical_frame)
    BY Zenon DEF d
  <2> QED BY <1>2, <2>1, CopyPageDir, Zenon
<1>4. \A p \in Pages : copy.page[p] # 0 => PAGE_TABLE(p) \in copy.tables
  BY <1>2, <1>3, Zenon DEF PagingInv, FramesOwned, PagesInTables, Present
<1>5. \A p \in Pages : copy.page[p] # 0 => p \in Present(d)
  BY <1>3, Zenon DEF Present
<1> HIDE DEF copy
<1>6. /\ d2 \in Dirs
      /\ \A p \in Pages : d2.page[p] # 0 => /\ d2.page[p] = copy.page[p]
                                           /\ PAGE_TABLE(p) \in d2.tables
  BY <1>3, <1>4, ChildDir, Zenon
<1> HIDE DEF d2
<1>7. \A p \in Pages : d2.page[p] # 0 =>
        /\ d2.page[p] \in Frames \ physical_frame
        /\ \A q \in Pages : d2.page[p] = d2.page[q] => p = q
  BY <1>3, <1>5, <1>6, Zenon
<1>8. PagesInTables' /\ dir' \in [Processes -> Dirs]
  BY <1>1, <1>6, TablesOfReplaced, Zenon
<1>9. NoFrameLost'
  <2>1. \A f : f \notin Mapped(dir[c])
    BY <1>1, EmptyDir, Zenon DEF PagingInv, Unborn
  <2>2. \A f \in physical_frame' :
          \/ f \in Mapped(d2)
          \/ f \in physical_frame /\ (f \in Mapped(dir[c]) => f \in Mapped(d2))
    BY <1>1, <2>1, Zenon
  <2> QED BY <1>1, <1>6, <2>2, NoneLostWithReplaced, Zenon
<1>10. Separate(c, d2, physical_frame')
  <2>1. \A t \in Processes \ {c}, p \in Pages \ {TEMP} :
          dir[t].page[p] # 0 => dir[t].page[p] \in physical_frame
    BY <1>1, <1>2, Owner, Zenon
  <2>2. \A p \in Pages \ {TEMP} : d2.page[p] # 0 => d2.page[p] \in physical_frame'
    BY <1>1, MappedByPage, Zenon
  <2> QED BY <1>1, <1>7, <2>1, <2>2, Zenon DEF Separate
<1>11. OneOwner'
  BY <1>1, <1>6, <1>10, OwnersOfReplaced, Zenon
<1> QED BY <1>8, <1>9, <1>11, Zenon DEF Accounts

LEMMA WorkerIsSound ==
  ASSUME PagingAssumption, PagingInv, NEW c \in Processes, worker(c)
  PROVE  Accounts'
<1>1. /\ pagecpu = "ok" /\ state[c] = "none" /\ dir' = [dir EXCEPT ![c] = Empty]
      /\ physical_frame' = physical_frame /\ dropped' = dropped
  BY Zenon DEF worker, Born, Stays
<1>2. Empty \in Dirs /\ (\A p \in Pages : Empty.page[p] = 0) /\ OneOwner /\ dir[c] = Empty
  BY <1>1, EmptyDir, Zenon DEF PagingInv, FramesOwned, Unborn
<1>3. PagesInTables' /\ dir' \in [Processes -> Dirs]
  BY <1>1, <1>2, TablesOfReplaced, Zenon
<1>4. NoFrameLost'
  BY <1>1, <1>2, NoneLostWithReplaced, Zenon
<1>5. Separate(c, Empty, physical_frame')
  BY <1>1, <1>2, Owner, Zenon DEF Separate
<1>6. OneOwner'
  BY <1>1, <1>2, <1>5, OwnersOfReplaced, Zenon
<1> QED BY <1>3, <1>4, <1>6, Zenon DEF Accounts

(* sys_execve: strip_page_dir and alloc_page. *)
LEMMA ExecveIsSound ==
  ASSUME PagingAssumption, PagingInv, execve, pagecpu' # "halted"
  PROVE  Accounts'
<1> DEFINE d == dir[current]
           gone == Stripped(d)
           left == physical_frame \ gone
           bare == strip_page_dir(d)
           want == {SIG, STK, PROG}
           d2 == alloc_page(bare, want, left)
<1>1. /\ pagecpu = "ok" /\ Enough(want \ Present(bare), left)
      /\ dir' = [dir EXCEPT ![current] = d2]
      /\ physical_frame' = left \cup Mapped(d2) /\ dropped' = dropped
      /\ pagecpu' = "ok" => ~InUse(gone, [dir EXCEPT ![current] = bare])
  BY Zenon DEF execve, Halt, Keeps, Stays
<1>2. d \in Dirs /\ dir \in [Processes -> Dirs] /\ current \in Processes /\ OneOwner
  BY Zenon DEF PagingInv, FramesOwned, PagingTypeOK
<1>3. \A p \in Pages : d.page[p] # 0 => PAGE_TABLE(p) \in d.tables
  BY <1>2, Zenon DEF PagingInv, FramesOwned, PagesInTables, Present
<1>4. \A f : f \in gone <=> \E p \in Pages : d.page[p] # 0 /\ ~Kept(p) /\ d.page[p] = f
  BY Zenon DEF Stripped, Present
<1>5. /\ bare \in Dirs
      /\ \A p \in Pages : bare.page[p] = IF Kept(p) THEN d.page[p] ELSE 0
      /\ \A p \in Pages : Kept(p) /\ PAGE_TABLE(p) \in d.tables
                            => PAGE_TABLE(p) \in bare.tables
  <2> HIDE DEF d
  <2> QED BY <1>2, StripPageDir, Zenon
<1>6. want \in SUBSET Pages
  BY PagesDiffer, Zenon
<1>7. left \in SUBSET physical_frame
  BY Zenon
<1> HIDE DEF gone, bare
<1>8. Remains(bare, left)
  <2>1. \A f \in left : f \in Mapped(d) => f \in Mapped(bare)
    BY <1>4, <1>5, MappedByPage
  <2> QED BY <1>3, <1>5, <2>1, Zenon DEF Remains
<1>9. ASSUME pagecpu' = "ok"
      PROVE  Undisturbed(bare, left)
  <2> DEFINE rest == [dir EXCEPT ![current] = bare]
  <2>1. \A t \in Processes, p \in Pages \ {TEMP} : rest[t].page[p] # 0 => rest[t].page[p] \notin gone
    BY <1>1, <1>9, Zenon DEF InUse, Present
  <2>2. \A t \in Processes : rest[t] = IF t = current THEN bare ELSE dir[t]
    BY <1>2, Zenon
  <2> HIDE DEF rest
  <2>3. \A t \in Processes, p \in Pages \ {TEMP} :
          dir[t].page[p] # 0 => dir[t].page[p] \in physical_frame
    BY <1>1, <1>2, Owner, Zenon
  <2> QED BY <1>2, <1>5, <2>1, <2>2, <2>3, Zenon DEF Undisturbed
<1> HIDE DEF left, want, d2
<1>10. d2 = alloc_page(bare, want, left)
  BY Zenon DEF d2
<1> QED BY <1>1, <1>5, <1>6, <1>7, <1>8, <1>9, <1>10, AllocIsSound, Zenon

(* sys_sbrk: alloc_page. *)
LEMMA SbrkIsSound ==
  ASSUME PagingAssumption, PagingInv, sbrk, pagecpu' = pagecpu
  PROVE  Accounts'
<1> DEFINE d == dir[current]
           left == physical_frame
           want == {DATA}
           d2 == alloc_page(d, want, left)
<1>1. /\ pagecpu = "ok" /\ Enough(want, left) /\ DATA \notin Present(d)
      /\ dir' = [dir EXCEPT ![current] = d2]
      /\ physical_frame' = left \cup Mapped(dir'[current]) /\ dropped' = dropped
  BY Zenon DEF sbrk, Halt, Keeps, Stays
<1>2. d \in Dirs /\ dir \in [Processes -> Dirs] /\ current \in Processes /\ OneOwner
  BY Zenon DEF PagingInv, FramesOwned, PagingTypeOK
<1>3. want \in SUBSET Pages /\ want \ Present(d) = want /\ left \in SUBSET physical_frame
  BY <1>1, PagesDiffer, Zenon
<1>4. physical_frame' = left \cup Mapped(d2)
  BY <1>1, <1>2, Zenon
<1>5. Remains(d, left)
  BY <1>2, Zenon DEF Remains, PagingInv, FramesOwned, PagesInTables, Present
<1>6. Undisturbed(d, left)
  BY <1>1, <1>2, Owner, Zenon DEF Undisturbed
<1> HIDE DEF d, left, want, d2
<1>7. d2 = alloc_page(d, want, left)
  BY Zenon DEF d2
<1> QED BY <1>1, <1>2, <1>3, <1>4, <1>5, <1>6, <1>7, AllocIsSound, Zenon

(* Nothing is mapped or released. *)
LEMMA QuietIsSound ==
  ASSUME PagingInv, dir' = dir, physical_frame' = physical_frame, dropped' = dropped,
         pagecpu = "ok" \/ pagecpu' # "ok"
  PROVE  Accounts'
<1>1. \A t \in Processes : Present(dir[t])' = Present(dir[t]) /\ Mapped(dir[t])' = Mapped(dir[t])
  BY Zenon DEF Present, Mapped
<1> QED BY <1>1 DEF Accounts, PagingInv, FramesOwned, OneOwner, NoFrameLost, PagesInTables

(* task_preempt: free_page_dir for the tasks that are gone, and then         *)
(* signal_check's temporary_map in the directory that is still loaded.       *)
LEMMA PagingPreempts ==
  ASSUME PagingAssumption, PagingInv, NEW t \in Processes, NEW gone \in SUBSET Processes, NEW signal,
         task_preempt(t, gone, signal)
  PROVE  Accounts'
<1> DEFINE left == [x \in Processes |-> IF x \in gone THEN Empty ELSE dir[x]]
           frames == Freed(gone)
           maps == signal /\ pagecpu' = "ok"
           old == dir[curdir]
           mapped == temporary_map(old, dir[t])
<1>1. /\ pagecpu = "ok" /\ curdir \notin gone
      /\ physical_frame' = physical_frame \ frames
      /\ dir' = IF maps THEN [left EXCEPT ![curdir] = temporary_map(@, dir[t])] ELSE left
      /\ dropped' = IF maps THEN dropped \cup {left[curdir].page[TEMP]} ELSE dropped
  BY Zenon DEF task_preempt, free_frames
<1>2. /\ pagecpu' = "ok" => ~InUse(frames, left)
      /\ maps => PAGE_TABLE(TEMP) \in old.tables
  BY Zenon DEF task_preempt
<1>3. /\ dir \in [Processes -> Dirs] /\ curdir \in Processes /\ OneOwner
      /\ \A x \in Processes, p \in Pages : dir[x].page[p] # 0 => PAGE_TABLE(p) \in dir[x].tables
  BY Zenon DEF PagingInv, FramesOwned, PagingTypeOK, PagesInTables, Present
<1>4. \A f : f \in frames <=> \E x \in gone : f \in Mapped(dir[x])
  BY Zenon DEF Freed
<1>5. /\ left \in [Processes -> Dirs] /\ left[curdir] = old
      /\ \A x \in Processes : left[x] = IF x \in gone THEN Empty ELSE dir[x]
  BY <1>1, <1>3, EmptyDir, Zenon
<1>6. /\ mapped \in Dirs /\ mapped.tables = old.tables
      /\ \A p \in Pages \ {TEMP} : mapped.page[p] = old.page[p]
  <2>1. old \in Dirs /\ dir[t] \in Dirs /\ SIG \in Pages /\ TEMP \in Pages
    BY <1>3, PagesDiffer, Zenon
  <2> HIDE DEF old
  <2> QED BY <2>1, Zenon DEF temporary_map, Dirs
<1> HIDE DEF left, frames, mapped
<1>7. \A x \in Processes : dir'[x] = IF maps /\ x = curdir THEN mapped ELSE left[x]
  <2>1. CASE maps
    BY <1>1, <1>5, <2>1, Zenon DEF mapped
  <2>2. CASE ~maps
    BY <1>1, <2>2, Zenon
  <2> QED BY <2>1, <2>2, Zenon
<1>8. dir' \in [Processes -> Dirs]
  <2>1. CASE maps
    <3>1. dir' = [left EXCEPT ![curdir] = mapped]
      BY <1>1, <1>5, <2>1, Zenon DEF mapped
    <3> QED BY <1>3, <1>5, <1>6, <3>1, Zenon
  <2>2. CASE ~maps
    BY <1>1, <1>5, <2>2, Zenon
  <2> QED BY <2>1, <2>2, Zenon
<1>9. PagesInTables'
  <2>1. ASSUME NEW x \in Processes, NEW p \in Pages, dir'[x].page[p] # 0
        PROVE  PAGE_TABLE(p) \in dir'[x].tables
    <3>1. \A y \in Processes, q \in Pages : left[y].page[q] # 0 => PAGE_TABLE(q) \in left[y].tables
      BY <1>3, <1>5, EmptyDir, Zenon
    <3>2. CASE maps /\ x = curdir
      BY <1>2, <1>3, <1>6, <1>7, <2>1, <3>2, Zenon
    <3>3. CASE ~ (maps /\ x = curdir)
      BY <1>7, <2>1, <3>1, <3>3, Zenon
    <3> QED BY <3>2, <3>3, Zenon
  <2> QED BY <2>1, Zenon DEF PagesInTables, Present
<1>10. ASSUME pagecpu' = "ok", NEW x \in Processes, NEW p \in Pages \ {TEMP}, dir'[x].page[p] # 0
       PROVE  /\ x \notin gone /\ dir'[x].page[p] = dir[x].page[p]
              /\ dir[x].page[p] \in physical_frame'
  <2>1. dir'[x].page[p] = left[x].page[p]
    BY <1>5, <1>6, <1>7, Zenon
  <2>2. x \notin gone /\ left[x] = dir[x]
    BY <1>5, <1>10, <2>1, EmptyDir, SMTT(30)
  <2>3. dir[x].page[p] \in physical_frame
    BY <1>1, <1>3, <1>10, <2>1, <2>2, Owner
  <2>4. left[x].page[p] \notin frames
    BY <1>2, <1>10, <2>1, Zenon DEF InUse, Present
  <2> QED BY <1>1, <2>1, <2>2, <2>3, <2>4, Zenon
<1>11. ASSUME pagecpu' = "ok" PROVE OneOwner'
  <2>1. ASSUME NEW x \in Processes, NEW p \in Pages \ {TEMP}, dir'[x].page[p] # 0,
               NEW u \in Processes, NEW q \in Pages \ {TEMP}, dir'[u].page[q] = dir'[x].page[p]
        PROVE  u = x /\ q = p
    <3>1. dir'[x].page[p] = dir[x].page[p] /\ dir'[u].page[q] = dir[u].page[q]
      BY <1>10, <1>11, <2>1, Zenon
    <3> QED BY <1>1, <1>3, <2>1, <3>1, Owner, SMTT(30)
  <2> QED BY <1>10, <1>11, <2>1, Zenon DEF OneOwner, Present
<1>12. ASSUME pagecpu' = "ok" PROVE NoFrameLost'
  <2>1. \A f \in physical_frame : f \in dropped \/ \E x \in Processes : f \in Mapped(dir[x])
    BY <1>1, Zenon DEF PagingInv, FramesOwned, NoFrameLost
  <2>2. ASSUME NEW f \in physical_frame', f \notin dropped'
        PROVE  \E x \in Processes : f \in Mapped(dir'[x])
    <3>1. f \in physical_frame /\ f \notin dropped /\ f \notin frames
      BY <1>1, <2>2, Zenon
    <3>2. PICK x \in Processes : f \in Mapped(dir[x])
      BY <2>1, <3>1, Zenon
    <3>3. x \notin gone /\ left[x] = dir[x]
      BY <1>4, <1>5, <3>1, <3>2, Zenon
    <3>4. PICK p \in Pages : dir[x].page[p] # 0 /\ dir[x].page[p] = f
      BY <3>2, MappedByPage, Zenon
    <3>5. dir'[x].page[p] = dir[x].page[p]
      <4>1. CASE maps /\ x = curdir
        <5>1. f # old.page[TEMP]
          BY <1>1, <1>5, <2>2, <4>1, Zenon
        <5> QED BY <1>6, <1>7, <3>4, <4>1, <5>1, Zenon
      <4>2. CASE ~ (maps /\ x = curdir)
        BY <1>7, <3>3, <4>2, Zenon
      <4> QED BY <4>1, <4>2, Zenon
    <3> QED BY <3>4, <3>5, MappedByPage, Zenon
  <2>3. \A x \in Processes : Mapped(dir'[x]) = Mapped(dir[x])'
    BY Zenon DEF Mapped, Present
  <2>4. \A f \in physical_frame' : f \in dropped' \cup UNION {Mapped(dir[x])' : x \in Processes}
    BY <2>2, <2>3, Zenon
  <2> QED BY <2>4, Zenon DEF NoFrameLost
<1>13. CASE pagecpu' = "ok"
  BY <1>8, <1>9, <1>11, <1>12, <1>13, Zenon DEF Accounts
<1>14. CASE pagecpu' # "ok"
  BY <1>8, <1>9, <1>14, Zenon DEF Accounts, OneOwner, NoFrameLost
<1> QED BY <1>13, <1>14, Zenon

-----------------------------------------------------------------------------
LEMMA MappedAreFrames ==
  ASSUME PagingAssumption, NEW d \in Dirs
  PROVE  Mapped(d) \subseteq Frames /\ \A p \in Present(d) : d.page[p] \in Frames
<1>1. \A p \in Pages : d.page[p] # 0 => d.page[p] \in Frames
  BY PartsOfDir DEF Frames, PagingAssumption
<1> QED BY <1>1, Zenon DEF Mapped, Present

(* copy_physical_frame writes what is in a frame of the other directory. *)
LEMMA CopiedData ==
  ASSUME PagingAssumption, NEW dst \in Dirs, NEW src \in Dirs, Present(dst) = Present(src),
         data \in [Frames -> {0, 1}]
  PROVE  Copied(dst, src) \in [Frames -> {0, 1}]
<1> DEFINE Source(f) == CHOOSE p \in Present(dst) : dst.page[p] = f
<1>1. ASSUME NEW f \in Frames, \E p \in Present(dst) : dst.page[p] = f
      PROVE  data[src.page[Source(f)]] \in {0, 1}
  <2>1. Source(f) \in Present(src)
    BY <1>1, Zenon
  <2> HIDE DEF Source
  <2> QED BY <2>1, MappedAreFrames, Zenon
<1>2. \A f \in Frames : (IF \E p \in Present(dst) : dst.page[p] = f
                        THEN data[src.page[Source(f)]] ELSE data[f]) \in {0, 1}
  BY <1>1, Zenon
<1>3. Copied(dst, src) = [f \in Frames |-> IF \E p \in Present(dst) : dst.page[p] = f
                                         THEN data[src.page[Source(f)]] ELSE data[f]]
  BY Zenon DEF Copied
<1> HIDE DEF Source
<1> QED BY <1>2, <1>3

(* The part of the invariant that is about everything else. *)
Plain ==
  /\ physical_frame \subseteq Frames /\ data \in [Frames -> {0, 1}]
  /\ state \in [Processes -> {"none", "user", "kernel", "exiting"}]
  /\ current \in Processes /\ curdir \in Processes /\ nsig \in 0 .. MaxSignals /\ born \in 0 .. MaxBorn
  /\ pagecpu \in {"ok", "halted", "faults", "shared", "null"}
  /\ Unborn /\ Loaded

LEMMA PartsOfIInv == PagingInv => Plain /\ Accounts
BY Zenon DEF PagingInv, Plain, Accounts, FramesOwned, PagingTypeOK

LEMMA IInvOfParts == Plain /\ Accounts => PagingInv
<1> SUFFICES ASSUME Plain, Accounts PROVE PagingInv
  BY Zenon
<1>1. \A t \in Processes :
        dir[t].tables \subseteq Tables /\ dir[t].page \in [Pages -> 0 .. NumFrames]
  BY PartsOfDir, Zenon DEF Accounts
<1> QED BY <1>1, Zenon DEF PagingInv, Plain, Accounts, FramesOwned, PagingTypeOK

LEMMA ForkIsPlain ==
  ASSUME PagingAssumption, PagingInv, NEW c \in Processes, NEW kern, fork(c, kern),
         Enough(Present(dir[current]), physical_frame), pagecpu' = pagecpu, Accounts'
  PROVE  Plain'
<1> DEFINE d == dir[current]
           copy == copy_page_dir(d, physical_frame)
<1>1. Plain /\ dir \in [Processes -> Dirs] /\ d \in Dirs /\ current \in Processes
  BY PartsOfIInv, Zenon DEF Accounts, Plain
<1>2. PICK d2 : /\ dir' = [dir EXCEPT ![c] = d2] /\ physical_frame' = physical_frame \cup Mapped(d2)
  BY Zenon DEF fork, Halt
<1>3. /\ state' = [state EXCEPT ![c] = state[current]] /\ data' = Copied(copy, d)
      /\ born < MaxBorn /\ born' = born + 1
      /\ current' = current /\ curdir' = curdir /\ nsig' = nsig
      /\ state[c] = "none" /\ state[current] \in {"user", "kernel"}
  BY Zenon DEF fork, Halt, Born, Stays
<1>4. physical_frame' \subseteq Frames
  <2>1. d2 \in Dirs
    BY <1>1, <1>2, Zenon DEF Accounts
  <2> QED BY <1>1, <1>2, <2>1, MappedAreFrames, Zenon DEF Plain
<1>5. data' \in [Frames -> {0, 1}]
  <2>1. copy \in Dirs /\ Present(copy) = Present(d)
    <3> HIDE DEF d
    <3>1. Enough(Present(d), physical_frame)
      BY Zenon DEF d
    <3> QED BY <1>1, <3>1, CopyPageDir, Zenon
  <2> HIDE DEF d, copy
  <2> QED BY <1>1, <1>3, <2>1, CopiedData, Zenon DEF Plain
<1>6. Unborn'
  BY <1>1, <1>2, <1>3, Zenon DEF Plain, Unborn
<1>7. /\ state' \in [Processes -> {"none", "user", "kernel", "exiting"}] /\ Loaded'
  BY <1>1, <1>3, Zenon DEF Plain, Loaded
<1>8. born' \in 0 .. MaxBorn
  BY <1>1, <1>3 DEF Plain, PagingAssumption
<1> QED BY <1>1, <1>3, <1>4, <1>5, <1>6, <1>7, <1>8, Zenon DEF Plain

LEMMA ExecveIsPlain ==
  ASSUME PagingAssumption, PagingInv, execve, pagecpu' # "halted", Accounts'
  PROVE  Plain'
<1>1. Plain /\ dir \in [Processes -> Dirs] /\ current \in Processes
  BY PartsOfIInv, Zenon DEF Accounts, Plain
<1>2. PICK d2, f : /\ dir' = [dir EXCEPT ![current] = d2]
                   /\ data' = [data EXCEPT ![f] = 0]
                   /\ physical_frame' \subseteq physical_frame \cup Mapped(d2)
  BY Zenon DEF execve, Halt
<1>3. /\ state' = [state EXCEPT ![current] = "user"] /\ pagecpu' \in {"shared", "ok"}
      /\ current' = current /\ curdir' = curdir /\ nsig' = nsig /\ born' = born
  BY Zenon DEF execve, Halt, Keeps, Stays
<1>4. d2 \in Dirs
  BY <1>1, <1>2, Zenon DEF Accounts
<1>5. physical_frame' \subseteq Frames
  BY <1>1, <1>2, <1>4, MappedAreFrames, Zenon DEF Plain
<1>6. data' \in [Frames -> {0, 1}]
  BY <1>1, <1>2, Zenon DEF Plain
<1>7. Unborn'
  BY <1>1, <1>2, <1>3, Zenon DEF Plain, Unborn
<1>8. state' \in [Processes -> {"none", "user", "kernel", "exiting"}] /\ Loaded'
  BY <1>1, <1>3, Zenon DEF Plain, Loaded
<1> QED BY <1>1, <1>3, <1>5, <1>6, <1>7, <1>8, Zenon DEF Plain

LEMMA SbrkIsPlain ==
  ASSUME PagingAssumption, PagingInv, sbrk, pagecpu' = pagecpu, Accounts'
  PROVE  Plain'
<1>1. Plain /\ dir \in [Processes -> Dirs] /\ current \in Processes
  BY PartsOfIInv, Zenon DEF Accounts, Plain
<1>2. PICK d2 : dir' = [dir EXCEPT ![current] = d2]
  BY Zenon DEF sbrk, Halt
<1>3. /\ physical_frame' = physical_frame \cup Mapped(dir'[current]) /\ data' = data
      /\ state' = state /\ state[current] = "user"
      /\ current' = current /\ curdir' = curdir /\ nsig' = nsig /\ born' = born
  BY Zenon DEF sbrk, Halt, Keeps, Stays
<1>4. physical_frame' \subseteq Frames
  <2>1. dir'[current] \in Dirs
    BY <1>1, Zenon DEF Accounts
  <2> QED BY <1>1, <1>3, <2>1, MappedAreFrames, Zenon DEF Plain
<1>5. Unborn' /\ Loaded'
  BY <1>1, <1>2, <1>3, Zenon DEF Plain, Unborn, Loaded
<1> QED BY <1>1, <1>3, <1>4, <1>5, Zenon DEF Plain

LEMMA PreemptIsPlain ==
  ASSUME PagingAssumption, PagingInv, NEW t \in Processes, NEW gone \in SUBSET Processes, NEW signal,
         task_preempt(t, gone, signal)
  PROVE  Plain'
<1> DEFINE left == [x \in Processes |-> IF x \in gone THEN Empty ELSE dir[x]]
           maps == signal /\ pagecpu' = "ok"
<1>1. Plain /\ dir \in [Processes -> Dirs] /\ curdir \in Processes /\ curdir = current
  BY PartsOfIInv, Zenon DEF Accounts, Plain, Loaded
<1>2. /\ dir' = IF maps THEN [left EXCEPT ![curdir] = temporary_map(@, dir[t])] ELSE left
      /\ signal => nsig < MaxSignals
      /\ nsig' = IF signal THEN nsig + 1 ELSE nsig
  BY Zenon DEF task_preempt
<1>3. /\ state[t] \in {"user", "kernel"} /\ (\A x \in gone : state[x] = "exiting" /\ x # curdir)
      /\ state' = [x \in Processes |-> IF x \in gone THEN "none" ELSE state[x]]
      /\ physical_frame' \subseteq physical_frame /\ data' = data
      /\ current' = t /\ curdir' = t /\ born' = born
  BY Zenon DEF task_preempt, free_frames
<1>4. pagecpu' \in {"ok", "shared", "null"}
  BY Zenon DEF task_preempt
<1>5. nsig' \in 0 .. MaxSignals
  <2>1. CASE signal
    BY <1>1, <1>2, <2>1 DEF Plain, PagingAssumption
  <2>2. CASE ~signal
    BY <1>1, <1>2, <2>2, Zenon DEF Plain
  <2> QED BY <2>1, <2>2, Zenon
<1>6. Unborn'
  <2>1. ASSUME NEW x \in Processes, state'[x] = "none"
        PROVE  dir'[x] = Empty
    <3>1. x # curdir /\ left[x] = Empty
      BY <1>1, <1>3, <2>1 DEF Plain, Unborn, Loaded
    <3> HIDE DEF left
    <3>2. CASE maps
      <4>1. dir'[x] = left[x]
        <5>1. left \in [Processes -> Dirs]
          BY <1>1, EmptyDir, Zenon DEF left
        <5> QED BY <1>2, <3>1, <3>2, <5>1, Zenon
      <4> QED BY <3>1, <4>1, Zenon
    <3>3. CASE ~maps
      BY <1>2, <3>1, <3>3, Zenon
    <3> QED BY <3>2, <3>3, Zenon
  <2> QED BY <2>1, Zenon DEF Unborn
<1>7. state' \in [Processes -> {"none", "user", "kernel", "exiting"}] /\ Loaded'
  BY <1>1, <1>3, Zenon DEF Plain, Loaded
<1> QED BY <1>1, <1>3, <1>4, <1>5, <1>6, <1>7, Zenon DEF Plain

(* What changes neither frames nor directories, besides a worker's. *)
LEMMA SmallStepsArePlain ==
  ASSUME PagingAssumption, PagingInv
  PROVE  /\ \A c \in Processes : worker(c) => Plain'
         /\ Store \/ exit \/ (\E p : page_fault(p)) \/ Halt \/ UNCHANGED pagingVars => Plain'
<1>1. Plain /\ dir \in [Processes -> Dirs] /\ current \in Processes
  BY PartsOfIInv, Zenon DEF Accounts, Plain
<1>2. ASSUME NEW c \in Processes, worker(c) PROVE Plain'
  <2>1. /\ state' = [state EXCEPT ![c] = "kernel"] /\ dir' = [dir EXCEPT ![c] = Empty]
        /\ born < MaxBorn /\ born' = born + 1
        /\ UNCHANGED <<physical_frame, data, pagecpu, current, curdir, nsig>>
    BY <1>2, Zenon DEF worker, Born, Stays
  <2>2. Unborn' /\ Loaded' /\ state' \in [Processes -> {"none", "user", "kernel", "exiting"}]
    BY <1>1, <2>1, Zenon DEF Plain, Unborn, Loaded
  <2>3. born' \in 0 .. MaxBorn
    BY <1>1, <2>1 DEF Plain, PagingAssumption
  <2> QED BY <1>1, <2>1, <2>2, <2>3, Zenon DEF Plain
<1>3. ASSUME Store PROVE Plain'
  <2>1. PICK f : data' = [data EXCEPT ![f] = 1]
    BY <1>3, Zenon DEF Store
  <2>2. data' \in [Frames -> {0, 1}]
    BY <1>1, <2>1, Zenon DEF Plain
  <2> QED BY <1>1, <1>3, <2>2, Zenon DEF Store, Keeps, Stays, Plain, Unborn, Loaded
<1>4. ASSUME exit PROVE Plain'
  BY <1>1, <1>4, SMTT(30) DEF exit, Keeps, Stays, Plain, Unborn, Loaded
<1>5. ASSUME NEW p, page_fault(p) PROVE Plain'
  <2>1. pagecpu' \in {"faults", "halted"}
    BY <1>5, Zenon DEF page_fault
  <2> QED BY <1>1, <1>5, <2>1, Zenon DEF page_fault, Keeps, Stays, Plain, Unborn, Loaded
<1>6. ASSUME Halt \/ UNCHANGED pagingVars PROVE Plain'
  BY <1>1, <1>6, Zenon DEF Halt, pagingVars, Plain, Unborn, Loaded
<1> QED BY <1>2, <1>3, <1>4, <1>5, <1>6, Zenon

LEMMA PagingStep ==
  ASSUME PagingAssumption
  PROVE  PagingInv /\ [PagingNext]_pagingVars => PagingInv'
<1> SUFFICES ASSUME PagingInv, [PagingNext]_pagingVars PROVE Plain' /\ Accounts'
  BY IInvOfParts, PTL
<1>1. ASSUME Halt, pagecpu = "ok" PROVE Plain' /\ Accounts'
  <2>1. Accounts'
    BY <1>1, QuietIsSound, Zenon DEF Halt
  <2> QED BY <1>1, <2>1, SmallStepsArePlain, Zenon
<1>2. ASSUME NEW c \in Processes, NEW kern, fork(c, kern) PROVE Plain' /\ Accounts'
  <2>1. CASE Enough(Present(dir[current]), physical_frame)
    <3>1. pagecpu' = pagecpu
      BY <1>2, <2>1, Zenon DEF fork
    <3>2. Accounts'
      BY <1>2, <2>1, <3>1, ForkIsSound, Zenon
    <3> QED BY <1>2, <2>1, <3>1, <3>2, ForkIsPlain, Zenon
  <2>2. CASE ~Enough(Present(dir[current]), physical_frame)
    BY <1>1, <1>2, <2>2, Zenon DEF fork
  <2> QED BY <2>1, <2>2, Zenon
<1>3. ASSUME NEW c \in Processes, worker(c) PROVE Plain' /\ Accounts'
  BY <1>3, WorkerIsSound, SmallStepsArePlain, Zenon
<1>4. ASSUME execve PROVE Plain' /\ Accounts'
  <2>1. CASE pagecpu' # "halted"
    <3>1. Accounts'
      BY <1>4, <2>1, ExecveIsSound, Zenon
    <3> QED BY <1>4, <2>1, <3>1, ExecveIsPlain, Zenon
  <2>2. CASE pagecpu' = "halted"
    <3>1. Halt /\ pagecpu = "ok"
      BY <1>4, <2>2, Zenon DEF execve
    <3> QED BY <1>1, <3>1, SMTT(30)
  <2> QED BY <2>1, <2>2, Zenon
<1>5. ASSUME sbrk PROVE Plain' /\ Accounts'
  <2>1. CASE pagecpu' = pagecpu
    <3>1. Accounts'
      BY <1>5, <2>1, SbrkIsSound, Zenon
    <3> QED BY <1>5, <2>1, <3>1, SbrkIsPlain, Zenon
  <2>2. CASE pagecpu' # pagecpu
    <3>1. Halt /\ pagecpu = "ok"
      BY <1>5, <2>2, Zenon DEF sbrk
    <3> QED BY <1>1, <3>1, Zenon
  <2> QED BY <2>1, <2>2, Zenon
<1>6. ASSUME Store \/ exit PROVE Plain' /\ Accounts'
  <2>1. Accounts'
    BY <1>6, QuietIsSound, Zenon DEF Store, exit, Keeps, Stays
  <2> QED BY <1>6, <2>1, SmallStepsArePlain, Zenon
<1>7. ASSUME NEW p, page_fault(p) PROVE Plain' /\ Accounts'
  <2>1. Accounts'
    BY <1>7, QuietIsSound, Zenon DEF page_fault, Keeps, Stays
  <2> QED BY <1>7, <2>1, SmallStepsArePlain, SMTT(30)
<1>8. ASSUME NEW t \in Processes, NEW gone \in SUBSET Processes, NEW signal \in BOOLEAN,
             task_preempt(t, gone, signal)
      PROVE  Plain' /\ Accounts'
  BY <1>8, PagingPreempts, PreemptIsPlain, Zenon
<1>9. ASSUME UNCHANGED pagingVars PROVE Plain' /\ Accounts'
  <2>1. dir' = dir /\ physical_frame' = physical_frame /\ dropped' = dropped /\ pagecpu' = pagecpu
    BY <1>9, Zenon DEF pagingVars
  <2>2. Accounts'
    BY <2>1, QuietIsSound, Zenon
  <2> QED BY <1>9, <2>2, SmallStepsArePlain, Zenon
<1> QED BY <1>2, <1>3, <1>4, <1>5, <1>6, <1>7, <1>8, <1>9, Zenon DEF PagingNext, PagingStopped

LEMMA PagingInvAlways ==
  ASSUME PagingAssumption
  PROVE  PagingSpec => []PagingInv
BY PagingStarts, PagingStep, PTL DEF PagingSpec

(* Over any sequence of forks, programs, signals and exits, of any number   *)
(* of tasks with any number of frames, a mapped frame is reserved and       *)
(* mapped once, every reserved frame belongs to a directory, and a page     *)
(* that is present has its table (copy_page_dir, strip_page_dir,            *)
(* alloc_page, free_page_dir, temporary_map).                               *)
THEOREM FramesOwnedAlways ==
  ASSUME PagingAssumption
  PROVE  PagingSpec => []FramesOwned
<1>1. PagingInv => FramesOwned
  BY Zenon DEF PagingInv
<1> QED BY <1>1, PagingInvAlways, PTL

-----------------------------------------------------------------------------
(* What Private asks of a step: of the tasks that do not run, and of a new one. *)
Unseen ==
  \A t \in Processes \ {current, current'} : \A p \in Pages \ {TEMP} :
    state[t] \in {"user", "kernel"} => View(t, p)' = View(t, p)
Same ==
  \A c \in Processes : \A p \in Present(dir[c])' :
    state[c] = "none" /\ state'[c] # "none" => View(c, p)' = View(current, p)

LEMMA SameView ==
  ASSUME NEW t, NEW p, dir'[t].page[p] = dir[t].page[p],
         dir[t].page[p] # 0 => data'[dir[t].page[p]] = data[dir[t].page[p]]
  PROVE  View(t, p)' = View(t, p)
BY Zenon DEF View

LEMMA ForkIsPrivate ==
  ASSUME PagingAssumption, PagingInv, NEW c \in Processes, NEW kern, fork(c, kern), pagecpu' = "ok"
  PROVE  Unseen /\ Same
<1> DEFINE d == dir[current]
           copy == copy_page_dir(d, physical_frame)
           d2 == IF kern THEN strip_page_dir(copy) ELSE copy
           Source(f) == CHOOSE q \in Present(copy) : copy.page[q] = f
<1>1. /\ pagecpu = "ok" /\ state[c] = "none" /\ dir' = [dir EXCEPT ![c] = d2]
      /\ state' = [state EXCEPT ![c] = state[current]]
      /\ Enough(Present(dir[current]), physical_frame) /\ data' = Copied(copy, d)
  BY Zenon DEF fork, Halt
<1>2. /\ dir \in [Processes -> Dirs] /\ d \in Dirs /\ current \in Processes /\ OneOwner
      /\ state \in [Processes -> {"none", "user", "kernel", "exiting"}]
  BY Zenon DEF PagingInv, FramesOwned, PagingTypeOK
<1>3. /\ copy \in Dirs /\ copy.tables = d.tables /\ Present(copy) = Present(d)
      /\ \A p \in Present(d) : copy.page[p] \in Frames \ physical_frame
      /\ \A p, q \in Present(d) : copy.page[p] = copy.page[q] => p = q
  <2> HIDE DEF d
  <2>1. Enough(Present(d), physical_frame)
    BY <1>1, SMTT(30) DEF d
  <2> QED BY <1>2, <2>1, CopyPageDir, Zenon
<1>4. \A f \in Frames : data'[f] = IF \E p \in Present(copy) : copy.page[p] = f
                                    THEN data[d.page[Source(f)]] ELSE data[f]
  BY <1>1, Zenon DEF Copied
<1>5. \A f \in physical_frame : f \in Frames /\ data'[f] = data[f]
  <2>1. \A f \in physical_frame : f \in Frames /\ ~ \E p \in Present(copy) : copy.page[p] = f
    BY <1>3, Zenon DEF PagingInv, FramesOwned, PagingTypeOK
  <2> HIDE DEF Source, copy, d
  <2> QED BY <1>4, <2>1, Zenon
<1>6. ASSUME NEW p \in Present(d) PROVE data'[copy.page[p]] = data[d.page[p]]
  <2>1. \E q \in Present(copy) : copy.page[q] = copy.page[p]
    BY <1>3, Zenon
  <2>2. Source(copy.page[p]) \in Present(copy) /\ copy.page[Source(copy.page[p])] = copy.page[p]
    BY <2>1, Zenon
  <2>3. copy.page[p] \in Frames
    BY <1>3, Zenon
  <2>4. Source(copy.page[p]) = p
    <3> HIDE DEF copy, d, Source
    <3> QED BY <1>3, <2>2, SMTT(30), ZenonT(30)
  <2> HIDE DEF Source, copy, d
  <2> QED BY <1>4, <2>1, <2>3, <2>4, Zenon
<1>7. Unseen
  <2> SUFFICES ASSUME NEW t \in Processes, NEW p \in Pages \ {TEMP}, state[t] \in {"user", "kernel"}
               PROVE  View(t, p)' = View(t, p)
    BY Zenon DEF Unseen
  <2>1. dir'[t] = dir[t]
    BY <1>1, <1>2, SMTT(30), ZenonT(30)
  <2>2. dir[t].page[p] # 0 => data'[dir[t].page[p]] = data[dir[t].page[p]]
    BY <1>1, <1>2, <1>5, Owner, Zenon
  <2> QED BY <2>1, <2>2, SameView, Zenon
<1>8. Same
  <2> SUFFICES ASSUME NEW x \in Processes, NEW p \in Pages, dir'[x].page[p] # 0,
                      state[x] = "none", state'[x] # "none"
               PROVE  View(x, p)' = View(current, p)
    BY Zenon DEF Same, Present
  <2>1. x = c
    BY <1>1, <1>2, SMTT(30), ZenonT(30)
  <2>2. dir'[x] = d2
    BY <1>1, <1>2, <2>1, Zenon
  <2>3. \A q \in Pages : copy.page[q] # 0 => PAGE_TABLE(q) \in copy.tables
    BY <1>2, <1>3, Zenon DEF PagingInv, FramesOwned, PagesInTables, Present
  <2>4. d2.page[p] = copy.page[p]
    <3> HIDE DEF copy
    <3> QED BY <1>3, <2>2, <2>3, ChildDir, Zenon
  <2>5. p \in Present(d) /\ d.page[p] # 0
    <3> HIDE DEF copy, d2, d
    <3> QED BY <1>3, <2>2, <2>4, Zenon DEF Present
  <2>6. data'[dir'[x].page[p]] = data[dir[current].page[p]]
    BY <1>6, <2>2, <2>4, <2>5, Zenon
  <2> QED BY <2>5, <2>6, Zenon DEF View
<1> QED BY <1>7, <1>8, Zenon

(* The other steps: what the running task writes is in a frame that is its  *)
(* own, before (Store) or after the step (sys_execve).                      *)
LEMMA OthersArePrivate ==
  ASSUME PagingAssumption, PagingInv, PagingInv', pagecpu' = "ok"
  PROVE  /\ \A c \in Processes : worker(c) => Unseen /\ Same
         /\ execve \/ sbrk \/ Store \/ exit => Unseen /\ Same
         /\ \A t \in Processes, gone \in SUBSET Processes, signal \in BOOLEAN :
              task_preempt(t, gone, signal) => Unseen /\ Same
<1>1. /\ dir \in [Processes -> Dirs] /\ current \in Processes /\ current = curdir /\ OneOwner /\ OneOwner'
      /\ state \in [Processes -> {"none", "user", "kernel", "exiting"}] /\ state[current] # "none"
      /\ data \in [Frames -> {0, 1}] /\ PROG \in Pages \ {TEMP}
  BY PagesDiffer, Zenon DEF PagingInv, FramesOwned, PagingTypeOK, Loaded
<1>2. ASSUME NEW c \in Processes, worker(c) PROVE Unseen /\ Same
  <2>1. /\ state[c] = "none" /\ dir' = [dir EXCEPT ![c] = Empty] /\ data' = data
        /\ state' = [state EXCEPT ![c] = "kernel"]
    BY <1>2, Zenon DEF worker
  <2>2. \A t \in Processes : state[t] \in {"user", "kernel"} => dir'[t] = dir[t]
    BY <1>1, <2>1, Zenon
  <2>3. Unseen
    BY <2>1, <2>2, SameView, Zenon DEF Unseen
  <2>4. \A x \in Processes : state[x] = "none" /\ state'[x] # "none" => dir'[x] = Empty
    BY <1>1, <2>1, SMTT(30)
  <2>5. Same
    BY <2>4, EmptyDir, Zenon DEF Same, Present
  <2> QED BY <2>3, <2>5, Zenon
<1>3. ASSUME execve PROVE Unseen /\ Same
  <2>1. PICK d2 : /\ dir' = [dir EXCEPT ![current] = d2]
                  /\ data' = [data EXCEPT ![d2.page[PROG]] = 0]
    BY <1>3, Zenon DEF execve, Halt
  <2>2. state' = [state EXCEPT ![current] = "user"]
    BY <1>3, Zenon DEF execve, Halt
  <2>3. ASSUME NEW t \in Processes \ {current}, NEW p \in Pages \ {TEMP}
        PROVE  View(t, p)' = View(t, p)
    <3>1. dir'[t] = dir[t] /\ dir'[current] = d2
      BY <1>1, <2>1, Zenon
    <3>2. ASSUME dir[t].page[p] # 0 PROVE d2.page[PROG] # dir[t].page[p]
      <4>1. \A u \in Processes, q \in Pages \ {TEMP} :
              dir'[u].page[q] = dir'[t].page[p] => u = t /\ q = p
        BY <1>1, <3>1, <3>2, Zenon DEF OneOwner, Present
      <4> QED BY <1>1, <3>1, <4>1, Zenon
    <3>3. dir[t].page[p] # 0 => data'[dir[t].page[p]] = data[dir[t].page[p]]
      BY <1>1, <2>1, <3>2
    <3> QED BY <3>1, <3>3, SameView, Zenon
  <2>4. Same
    BY <1>1, <2>2, Zenon DEF Same
  <2> QED BY <2>3, <2>4, SMTT(30), ZenonT(30) DEF Unseen
<1>4. ASSUME sbrk PROVE Unseen /\ Same
  <2>1. PICK d2 : dir' = [dir EXCEPT ![current] = d2]
    BY <1>4, SMTT(30), ZenonT(30) DEF sbrk, Halt
  <2>2. data' = data /\ state' = state
    BY <1>4, Zenon DEF sbrk, Halt
  <2>3. \A t \in Processes \ {current} : dir'[t] = dir[t]
    BY <1>1, <2>1
  <2> QED BY <2>2, <2>3, SameView, SMTT(30) DEF Unseen, Same
<1>5. ASSUME Store PROVE Unseen /\ Same
  <2>1. /\ data' = [data EXCEPT ![dir[current].page[PROG]] = 1]
        /\ dir' = dir /\ state' = state /\ pagecpu = "ok"
    BY <1>5, SMTT(30) DEF Store
  <2>2. ASSUME NEW t \in Processes \ {current}, NEW p \in Pages \ {TEMP}
        PROVE  View(t, p)' = View(t, p)
    <3>1. dir[t].page[p] # 0 => dir[current].page[PROG] # dir[t].page[p]
      BY <1>1, <2>1, Owner, SMTT(30)
    <3>2. dir[t].page[p] # 0 => data'[dir[t].page[p]] = data[dir[t].page[p]]
      BY <1>1, <2>1, <3>1, SMTT(30)
    <3> QED BY <2>1, <3>2, SameView
  <2> QED BY <2>1, <2>2, Zenon DEF Unseen, Same
<1>6. ASSUME exit PROVE Unseen /\ Same
  <2>1. /\ data' = data /\ dir' = dir /\ state' = [state EXCEPT ![current] = "exiting"]
    BY <1>6, Zenon DEF exit
  <2>2. Same
    BY <1>1, <2>1, Zenon DEF Same
  <2> QED BY <2>1, <2>2, SameView DEF Unseen
<1>7. ASSUME NEW t \in Processes, NEW gone \in SUBSET Processes, NEW signal \in BOOLEAN,
             task_preempt(t, gone, signal)
      PROVE  Unseen /\ Same
  <2> DEFINE left == [x \in Processes |-> IF x \in gone THEN Empty ELSE dir[x]]
             maps == signal /\ pagecpu' = "ok"
  <2>1. /\ dir' = IF maps THEN [left EXCEPT ![curdir] = temporary_map(@, dir[t])] ELSE left
        /\ (\A x \in gone : state[x] = "exiting") /\ data' = data
        /\ state' = [x \in Processes |-> IF x \in gone THEN "none" ELSE state[x]]
    BY <1>7, Zenon DEF task_preempt
  <2>2. ASSUME NEW x \in Processes \ {current}, state[x] \in {"user", "kernel"}
        PROVE  dir'[x] = dir[x]
    <3>1. left[x] = dir[x] /\ left \in [Processes -> Dirs] /\ x # curdir
      BY <1>1, <2>1, <2>2, EmptyDir, SMTT(30)
    <3> HIDE DEF left
    <3>2. CASE maps
      BY <2>1, <3>1, <3>2
    <3>3. CASE ~maps
      BY <2>1, <3>1, <3>3, Zenon
    <3> QED BY <3>2, <3>3, ZenonT(40)
  <2>3. Unseen
    BY <2>1, <2>2, SameView, ZenonT(40) DEF Unseen
  <2>4. Same
    BY <2>1, Zenon DEF Same
  <2> QED BY <2>3, <2>4, Zenon
<1> QED BY <1>2, <1>3, <1>4, <1>5, <1>6, <1>7, SMTT(30), ZenonT(30)

(* No step of one task changes what another has in its pages, and what a    *)
(* child starts with is what its parent had: copy_page_dir copies, and the  *)
(* frames it copies to are nobody else's, then or later.                    *)
THEOREM PrivateAlways ==
  ASSUME PagingAssumption
  PROVE  PagingSpec => Private
<1> DEFINE A == pagecpu' = "ok" => Unseen /\ Same
<1>1. PagingInv /\ PagingInv' /\ [PagingNext]_pagingVars => [A]_pagingVars
  <2> SUFFICES ASSUME PagingInv, PagingInv', PagingNext, pagecpu' = "ok" PROVE Unseen /\ Same
    BY Zenon
  <2>1. ~ (\E p : page_fault(p)) /\ ~PagingStopped
    BY Zenon DEF page_fault, PagingStopped, pagingVars
  <2> QED BY <2>1, ForkIsPrivate, OthersArePrivate, Zenon DEF PagingNext
<1>2. PagingSpec => [][A]_pagingVars
  BY PagingInvAlways, <1>1, PTL DEF PagingSpec
<1> QED BY <1>2, PTL DEF Private, Unseen, Same
=============================================================================
