----------------------------- MODULE OrderLemmas ------------------------------
(***************************************************************************)
(* What the proofs about the models need of induction, recursion and       *)
(* order, for sets, functions and relations in place of predicates and     *)
(* operators, so that they can be cited for any.                           *)
(***************************************************************************)
EXTENDS Sorting, FiniteSetTheorems, WellFoundedInduction, TLAPS

(* The library's theorem about the order of the naturals serves here as a  *)
(* principle of induction.                                                 *)
LEMMA SetInduction ==
  ASSUME NEW S \in SUBSET Nat, 0 \in S, \A n \in S : n + 1 \in S
  PROVE  \A n \in Nat : n \in S
<1>. SUFFICES ASSUME \E n \in Nat : n \notin S PROVE FALSE
  OBVIOUS
<1>. DEFINE R == OpToRel(<, Nat)
            T == Nat \ S
<1>1. IsWellFoundedOn(R, Nat)
  BY NatLessThanWellFounded
<1>2. T \subseteq Nat /\ T # {}
  OBVIOUS
<1>3. \A x, y \in Nat : x < y => <<x, y>> \in R
  BY DEF OpToRel
<1>. HIDE DEF R, T
<1>4. PICK x \in T : \A y \in T : ~(<<y, x>> \in R)
  BY <1>1, <1>2, WFMin
<1>5. x \in Nat /\ x \notin S /\ x # 0
  BY <1>4 DEF T
<1>6. x - 1 \in Nat /\ x - 1 < x /\ (x - 1) + 1 = x
  BY <1>5
<1>7. x - 1 \notin S
  BY <1>5, <1>6
<1>. QED
  BY <1>3, <1>4, <1>5, <1>6, <1>7 DEF T

(* A function that takes each value from the one before exists.            *)
Recurs(f, n, start, next) ==
  f = [i \in 0 .. n |-> IF i = 0 THEN start ELSE next[<<i, f[i - 1]>>]]

LEMMA StepsExist ==
  ASSUME NEW V, NEW start \in V, NEW n \in Nat, NEW next \in [(1 .. n) \X V -> V]
  PROVE  \E f \in [0 .. n -> V] : Recurs(f, n, start, next)
<1>. DEFINE Upto(m, f) ==
              f = [i \in 0 .. m |-> IF i = 0 THEN start ELSE next[<<i, f[i - 1]>>]]
            S == {m \in Nat : m <= n => \E f \in [0 .. m -> V] : Upto(m, f)}
<1>1. 0 \in S
  <2>. DEFINE f == [i \in 0 .. 0 |-> start]
  <2>1. f \in [0 .. 0 -> V]
    OBVIOUS
  <2>2. f = [i \in 0 .. 0 |-> IF i = 0 THEN start ELSE next[<<i, f[i - 1]>>]]
    OBVIOUS
  <2>. QED
    BY <2>1, <2>2
<1>2. ASSUME NEW m \in S PROVE m + 1 \in S
  <2>. SUFFICES ASSUME m + 1 <= n PROVE \E g \in [0 .. m + 1 -> V] : Upto(m + 1, g)
    OBVIOUS
  <2>0. m \in Nat /\ m <= n
    OBVIOUS
  <2>1. PICK f \in [0 .. m -> V] : Upto(m, f)
    BY <2>0
  <2>. DEFINE last == next[<<m + 1, f[m]>>]
              g == [i \in 0 .. m + 1 |-> IF i = m + 1 THEN last ELSE f[i]]
  <2>2. last \in V
    <3>1. m + 1 \in 1 .. n /\ f[m] \in V
      BY <2>0, <2>1
    <3>. QED
      BY <3>1
  <2>3. g \in [0 .. m + 1 -> V]
    BY <2>0, <2>1, <2>2
  <2>4. \A i \in 0 .. m + 1 : g[i] = IF i = 0 THEN start ELSE next[<<i, g[i - 1]>>]
    <3>. TAKE i \in 0 .. m + 1
    <3>1. CASE i = m + 1
      <4>1. i - 1 = m /\ i # 0 /\ m \in 0 .. m + 1 /\ m # m + 1
        BY <2>0, <3>1
      <4>2. g[m] = f[m]
        BY <4>1
      <4>. QED
        BY <3>1, <4>1, <4>2
    <3>2. CASE i # m + 1
      <4>1. i \in 0 .. m /\ (i # 0 => i - 1 \in 0 .. m + 1 /\ i - 1 # m + 1)
        BY <2>0, <3>2
      <4>2. f[i] = IF i = 0 THEN start ELSE next[<<i, f[i - 1]>>]
        BY <2>1, <4>1
      <4>3. i # 0 => g[i - 1] = f[i - 1]
        BY <4>1
      <4>. QED
        BY <3>2, <4>2, <4>3
    <3>. QED
      BY <3>1, <3>2
  <2>5. Upto(m + 1, g)
    <3>. HIDE DEF last
    <3>1. g = [i \in 0 .. m + 1 |-> g[i]]
      BY <2>3
    <3>. HIDE DEF g
    <3>. QED
      BY <2>4, <3>1
  <2>. QED
    BY <2>3, <2>5
<1>. HIDE DEF Upto
<1>3. S \in SUBSET Nat
  OBVIOUS
<1>4. n \in S
  <2>. HIDE DEF S
  <2>1. \A m \in Nat : m \in S
    BY <1>1, <1>2, <1>3, SetInduction
  <2>. QED
    BY <2>1
<1>. QED
  BY <1>4 DEF Upto, Recurs
----------------------------------------------------------------------------
(* R orders S strictly and in full.                                        *)
Orders(R, S) ==
  /\ \A x \in S : <<x, x>> \notin R
  /\ \A x, y \in S : x = y \/ <<x, y>> \in R \/ <<y, x>> \in R
  /\ \A x, y, z \in S : <<x, y>> \in R /\ <<y, z>> \in R => <<x, z>> \in R

Below(R, S, x) == {y \in S : <<y, x>> \in R}

LEMMA RanksRise ==
  ASSUME NEW S, IsFiniteSet(S), NEW R, Orders(R, S)
  PROVE  /\ \A x \in S : /\ Cardinality(Below(R, S, x)) \in Nat
                         /\ Cardinality(Below(R, S, x)) < Cardinality(S)
         /\ \A x, y \in S : <<x, y>> \in R =>
              Cardinality(Below(R, S, x)) < Cardinality(Below(R, S, y))
<1>1. ASSUME NEW T \in SUBSET S, NEW U \in SUBSET T, NEW x \in T, x \notin U
      PROVE  Cardinality(U) \in Nat /\ Cardinality(T) \in Nat /\ Cardinality(U) < Cardinality(T)
  <2>1. IsFiniteSet(T) /\ IsFiniteSet(U)
    BY FS_Subset
  <2>2. Cardinality(U) <= Cardinality(T) /\ Cardinality(U) # Cardinality(T)
    BY <1>1, <2>1, FS_Subset
  <2>. QED
    BY <2>1, <2>2, FS_CardinalityType
<1>2. ASSUME NEW x \in S
      PROVE  /\ Cardinality(Below(R, S, x)) \in Nat
             /\ Cardinality(Below(R, S, x)) < Cardinality(S)
  <2>1. Below(R, S, x) \subseteq S /\ x \notin Below(R, S, x)
    BY DEF Below, Orders
  <2>. QED
    BY <1>1, <2>1
<1>3. ASSUME NEW x \in S, NEW y \in S, <<x, y>> \in R
      PROVE  Cardinality(Below(R, S, x)) < Cardinality(Below(R, S, y))
  <2>1. /\ Below(R, S, x) \subseteq Below(R, S, y) /\ Below(R, S, y) \subseteq S
        /\ x \in Below(R, S, y) /\ x \notin Below(R, S, x)
    BY <1>3 DEF Below, Orders
  <2>. QED
    BY <1>1, <2>1
<1>. QED
  BY <1>2, <1>3

(* s is S in the order R, each element once.                               *)
Lists(s, S, R) ==
  /\ Cardinality(S) \in Nat
  /\ s \in [1 .. Cardinality(S) -> S]
  /\ \A x \in S : \E k \in 1 .. Cardinality(S) : s[k] = x
  /\ \A i, j \in 1 .. Cardinality(S) : /\ i < j => <<s[i], s[j]>> \in R
                                       /\ s[i] = s[j] => i = j

LEMMA RanksEnumerate ==
  ASSUME NEW S, IsFiniteSet(S), NEW R, Orders(R, S), NEW rank,
         \A x \in S : rank[x] = Cardinality(Below(R, S, x))
  PROVE  Lists(Enumerated(S, rank), S, R)
<1>. DEFINE n == Cardinality(S)
            s == Enumerated(S, rank)
            f == [x \in S |-> rank[x] + 1]
<1>1. n \in Nat /\ IsFiniteSet(1 .. n) /\ Cardinality(1 .. n) = n
  <2>1. n \in Nat
    BY FS_CardinalityType
  <2>. HIDE DEF n
  <2>2. 1 \in Int /\ n \in Int /\ (IF 1 > n THEN 0 ELSE n - 1 + 1) = n
    BY <2>1
  <2>. QED
    BY <2>1, <2>2, FS_Interval
<1>2. \A x \in S : rank[x] \in 0 .. n - 1
  BY <1>1, RanksRise
<1>3. \A x, y \in S : rank[x] = rank[y] => x = y
  <2>. SUFFICES ASSUME NEW x \in S, NEW y \in S, x # y PROVE rank[x] # rank[y]
    OBVIOUS
  <2>1. <<x, y>> \in R \/ <<y, x>> \in R
    BY DEF Orders
  <2>. QED
    BY <1>2, <2>1, RanksRise
<1>4. f \in Injection(S, 1 .. n)
  <2>1. f \in [S -> 1 .. n]
    BY <1>1, <1>2
  <2>2. \A x, y \in S : f[x] = f[y] => x = y
    BY <1>2, <1>3
  <2>. QED
    BY <2>1, <2>2 DEF Injection, IsInjective
<1>5. f \in Surjection(S, 1 .. n)
  <2>. HIDE DEF f
  <2>. QED
    BY <1>1, <1>4, FS_Injection
<1>6. \A k \in 1 .. n : \E x \in S : rank[x] = k - 1
  <2>1. \A k \in 1 .. n : \E x \in S : f[x] = k
    BY <1>5 DEF Surjection
  <2>. QED
    BY <1>2, <2>1
<1>7. \A k \in 1 .. n : s[k] \in S /\ rank[s[k]] = k - 1
  BY <1>6 DEF Enumerated
<1>8. s \in [1 .. n -> S]
  BY <1>7 DEF Enumerated
<1>. HIDE DEF s
<1>9. \A x \in S : \E k \in 1 .. n : s[k] = x
  <2>. SUFFICES ASSUME NEW x \in S PROVE \E k \in 1 .. n : s[k] = x
    OBVIOUS
  <2>1. rank[x] + 1 \in 1 .. n /\ (rank[x] + 1) - 1 = rank[x]
    BY <1>1, <1>2
  <2>2. s[rank[x] + 1] = x
    BY <1>3, <1>7, <2>1
  <2>. QED
    BY <2>1, <2>2
<1>10. ASSUME NEW i \in 1 .. n, NEW j \in 1 .. n
       PROVE  (i < j => <<s[i], s[j]>> \in R) /\ (s[i] = s[j] => i = j)
  <2>1. /\ s[i] \in S /\ s[j] \in S /\ rank[s[i]] = i - 1 /\ rank[s[j]] = j - 1
    BY <1>7
  <2>2. s[i] = s[j] => i = j
    BY <1>1, <2>1
  <2>3. <<s[j], s[i]>> \in R => rank[s[j]] < rank[s[i]]
    BY <2>1, RanksRise
  <2>4. i < j => s[i] # s[j] /\ ~(rank[s[j]] < rank[s[i]])
    BY <1>1, <2>1
  <2>. QED
    BY <2>1, <2>2, <2>3, <2>4 DEF Orders
<1>. QED
  BY <1>1, <1>8, <1>9, <1>10 DEF Lists, s

(* A finite set of numbers has a least and a greatest element.             *)
LEMMA ExtremesExist ==
  ASSUME NEW S \in SUBSET Int, IsFiniteSet(S), S # {}
  PROVE  /\ \E x \in S : \A y \in S : x <= y
         /\ \E x \in S : \A y \in S : x >= y
<1>. DEFINE R == {p \in S \X S : p[1] < p[2]}
            rank == [x \in S |-> Cardinality(Below(R, S, x))]
            s == Enumerated(S, rank)
            n == Cardinality(S)
<1>1. \A x, y \in S : x \in Int /\ (<<x, y>> \in R <=> x < y)
  OBVIOUS
<1>2. Orders(R, S)
  <2>. HIDE DEF R
  <2>. QED
    BY <1>1 DEF Orders
<1>3. \A x \in S : rank[x] = Cardinality(Below(R, S, x))
  OBVIOUS
<1>. HIDE DEF R
<1>. HIDE DEF rank
<1>. HIDE DEF n
<1>4. Lists(s, S, R)
  BY <1>2, <1>3, RanksEnumerate
<1>. HIDE DEF s
<1>5. /\ n \in Nat /\ s \in [1 .. n -> S]
      /\ \A x \in S : \E k \in 1 .. n : s[k] = x
      /\ \A i, j \in 1 .. n : i < j => <<s[i], s[j]>> \in R
  BY <1>4 DEF Lists, n
<1>6. n # 0
  BY FS_EmptySet DEF n
<1>7. /\ 1 \in 1 .. n /\ \A k \in 1 .. n : k = 1 \/ 1 < k
      /\ n \in 1 .. n /\ \A k \in 1 .. n : k = n \/ k < n
  BY <1>5, <1>6
<1>8. ASSUME NEW y \in S PROVE s[1] <= y /\ s[n] >= y
  <2>1. PICK k \in 1 .. n : s[k] = y
    BY <1>5
  <2>2. s[1] \in S /\ s[n] \in S
    BY <1>5, <1>7
  <2>3. k = 1 \/ <<s[1], y>> \in R
    BY <1>5, <1>7, <2>1
  <2>4. k = n \/ <<y, s[n]>> \in R
    BY <1>5, <1>7, <2>1
  <2>5. s[1] \in Int /\ s[n] \in Int /\ y \in Int
    BY <2>2
  <2>6. s[1] <= y
    BY <1>1, <2>1, <2>2, <2>3, <2>5
  <2>7. s[n] >= y
    BY <1>1, <2>1, <2>2, <2>4, <2>5
  <2>. QED
    BY <2>6, <2>7
<1>. QED
  BY <1>5, <1>7, <1>8
=============================================================================
