----------------------------- MODULE PlanLemmas -----------------------------
(***************************************************************************)
(* Facts about the operators the planner is built from: alignment, sorting *)
(* and merging, and the two forms of induction they need.  The provers do  *)
(* not instantiate induction principles that speak of a predicate, so they *)
(* are stated of sets here: a set of numbers that holds 0 and is closed    *)
(* under the next number holds every number.                               *)
(***************************************************************************)
EXTENDS MemoryMap, MergeRanges, WellFoundedInduction, FiniteSetTheorems, TLAPS

-----------------------------------------------------------------------------
(* Alignment. *)

\* A remainder is smaller than the divisor and no larger than the value.
LEMMA Remainder ==
  ASSUME NEW v \in Nat, NEW n \in Nat \ {0}
  PROVE  v % n \in 0 .. n - 1 /\ v % n <= v
  BY SMT

\* The next multiple of n is n further on.
LEMMA NextMultiple ==
  ASSUME NEW k \in Nat, NEW q \in Nat, NEW n \in Nat \ {0}, k > q
  PROVE  n * k >= n * q + n
<1>1. PICK d \in Nat : k = q + 1 + d
  <2>1. k - q - 1 \in Nat /\ k = q + 1 + (k - q - 1)
    BY SMT
  <2> QED
    BY <2>1
<1>2. n * k = n * q + n + n * d
  BY <1>1, SMT
<1>3. n * d \in Nat /\ n * q \in Nat
  BY SMT
<1> QED
  BY <1>2, <1>3, SMT

\* align_down answers a multiple of the alignment, at most the value and less
\* than one alignment below it: the kFlashPageSize page of a byte holds it.
LEMMA AlignDown ==
  ASSUME NEW v \in Nat, NEW n \in Nat \ {0}
  PROVE  /\ align_down(v, n) \in Nat
         /\ align_down(v, n) <= v
         /\ v < align_down(v, n) + n
         /\ \E k \in Nat : align_down(v, n) = n * k
<1>1. v = n * (v \div n) + (v % n) /\ v \div n \in Nat
  BY SMT
<1>2. align_down(v, n) = n * (v \div n)
  BY <1>1, Remainder DEF align_down
<1>3. \E k \in Nat : align_down(v, n) = n * k
  BY <1>1, <1>2
<1>4. v % n \in 0 .. n - 1 /\ v % n <= v
  BY Remainder
<1>5. /\ align_down(v, n) \in Nat
      /\ align_down(v, n) <= v
      /\ v < align_down(v, n) + n
  BY <1>4, SMT DEF align_down
<1> QED
  BY <1>3, <1>5

\* Of two multiples, the larger one is at least one alignment above the other.
LEMMA Multiples ==
  ASSUME NEW n \in Nat \ {0}, NEW k \in Nat, NEW q \in Nat, n * k < n * q
  PROVE  n * k + n <= n * q
<1>1. CASE q > k
  BY <1>1, NextMultiple
<1>2. CASE q = k
  <2>1. n * k \in Nat
    BY SMT
  <2> QED
    BY <1>2, <2>1, SMT
<1>3. CASE k > q
  <2>1. n * k >= n * q + n
    BY <1>3, NextMultiple
  <2>2. n * k \in Nat /\ n * q \in Nat
    BY SMT
  <2> QED
    BY <2>1, <2>2, SMT
<1> QED
  BY <1>1, <1>2, <1>3, SMT

\* align_down answers the greatest multiple that is not above the value.
LEMMA AlignDownIsGreatest ==
  ASSUME NEW v \in Nat, NEW n \in Nat \ {0}, NEW k \in Nat, n * k <= v
  PROVE  n * k <= align_down(v, n)
<1>1. PICK q \in Nat : align_down(v, n) = n * q
  BY AlignDown
<1>2. SUFFICES ASSUME n * q < n * k PROVE FALSE
  <2>1. n * k \in Nat /\ n * q \in Nat
    BY SMT
  <2> QED
    BY <1>1, <2>1, <1>2, SMT
<1>3. n * q + n <= n * k
  BY <1>2, Multiples
<1>4. v < n * q + n
  BY <1>1, AlignDown
<1>5. n * k \in Nat /\ n * q \in Nat
  BY SMT
<1> QED
  BY <1>3, <1>4, <1>5, SMT

\* What is left above a multiple, and is less than the divisor, is the remainder.
LEMMA RemainderAbove ==
  ASSUME NEW n \in Nat \ {0}, NEW k \in Nat, NEW r \in 0 .. n - 1
  PROVE  (n * k + r) % n = r
<1>1. PICK v \in Nat : v = n * k + r /\ n * k <= v /\ v < n * k + n /\ n * k \in Nat
  <2>1. n * k \in Nat
    BY SMT
  <2> QED
    BY <2>1
<1>2. PICK q \in Nat : align_down(v, n) = n * q
  BY AlignDown
<1>3. n * k <= n * q /\ n * q <= v /\ n * q \in Nat
  <2>1. n * k <= align_down(v, n)
    BY <1>1, AlignDownIsGreatest
  <2> QED
    BY <1>2, <2>1, AlignDown
<1>4. n * q = n * k
  <2> SUFFICES ASSUME n * k < n * q PROVE FALSE
    BY <1>1, <1>3, SMT
  <2>1. n * k + n <= n * q
    BY Multiples
  <2> QED
    BY <1>1, <1>3, <2>1, SMT
<1>5. v % n \in Int /\ v - (v % n) = n * k
  <2>1. v % n \in 0 .. n - 1
    BY Remainder
  <2>2. v - (v % n) = n * q
    BY <1>2 DEF align_down
  <2> QED
    BY <1>4, <2>1, <2>2
<1> QED
  BY <1>1, <1>5, SMT

\* A sum that is reduced on the way ends at the same remainder.
LEMMA RemainderOfSum ==
  ASSUME NEW n \in Nat \ {0}, NEW v \in Nat, NEW c \in Nat
  PROVE  ((v % n) + c) % n = (v + c) % n
<1>1. PICK k \in Nat, r \in 0 .. n - 1 : v = n * k + r /\ v % n = r
  <2>1. v = n * (v \div n) + (v % n) /\ v \div n \in Nat
    BY SMT
  <2> QED
    BY <2>1, Remainder
<1>2. r + c \in Nat
  OBVIOUS
<1>3. PICK q \in Nat, s \in 0 .. n - 1 : r + c = n * q + s
  <2>1. r + c = n * ((r + c) \div n) + ((r + c) % n) /\ (r + c) \div n \in Nat
    BY <1>2, SMT
  <2>2. (r + c) % n \in 0 .. n - 1
    BY <1>2, Remainder
  <2> QED
    BY <2>1, <2>2
<1>4. (r + c) % n = s
  BY <1>3, RemainderAbove
<1>5. v + c = n * (k + q) + s
  <2>1. n * (k + q) = n * k + n * q /\ n * k \in Nat /\ n * q \in Nat
    BY SMT
  <2> QED
    BY <1>1, <1>3, <2>1, SMT
<1>6. k + q \in Nat
  OBVIOUS
<1>7. (v + c) % n = s
  BY <1>5, <1>6, RemainderAbove
<1> QED
  BY <1>1, <1>4, <1>7

\* Where no sum wraps, align_up answers a multiple at or above the value.
LEMMA AlignUp ==
  ASSUME NEW v \in Nat, NEW n \in Nat \ {0}, Word \in Nat \ {0}, v + n <= Word
  PROVE  /\ align_up(v, n) \in Nat
         /\ v <= align_up(v, n)
         /\ align_up(v, n) < v + n
         /\ \E k \in Nat : align_up(v, n) = n * k
<1> DEFINE w == v + (n - 1)
<1>1. w \in Nat /\ w < Word
  BY SMT
<1>2. w % Word = w
  BY <1>1, SMT
<1>3. align_up(v, n) = align_down(w, n)
  BY <1>2 DEF align_up, Plus
<1>4. /\ align_down(w, n) \in Nat
      /\ align_down(w, n) <= w
      /\ w < align_down(w, n) + n
      /\ \E k \in Nat : align_down(w, n) = n * k
  BY <1>1, AlignDown
<1> QED
  BY <1>1, <1>3, <1>4, SMT

\* A sector is a whole number of pages, so a multiple of a sector is one of a page.
LEMMA SectorsAreWholePages ==
  ASSUME NEW k \in Nat
  PROVE  \E q \in Nat : SectorSize * k = PageSize * q
<1>1. PICK m \in 1 .. SectorSize : SectorSize = PageSize * m
  BY LayoutIsSane DEF LayoutAssumption
<1>2. SectorSize \in Nat /\ PageSize \in Nat /\ m \in Nat
  BY LayoutIsSane DEF LayoutAssumption
<1>3. (PageSize * m) * k = PageSize * (m * k) /\ m * k \in Nat
  BY <1>2, SMT
<1> QED
  BY <1>1, <1>3

-----------------------------------------------------------------------------
(* Induction. *)

\* A set with 0 and every successor holds all numbers: among the numbers outside
\* it none would be the least.
LEMMA Induction ==
  ASSUME NEW T, 0 \in T, \A k \in Nat : k \in T => k + 1 \in T
  PROVE  Nat \subseteq T
<1> DEFINE R == OpToRel(<, Nat)
           F == {k \in Nat : k \notin T}
<1> SUFFICES ASSUME F # {} PROVE FALSE
  OBVIOUS
<1>1. F \subseteq Nat
  OBVIOUS
<1>2. PICK x \in F : \A y \in F : ~ (<<y, x>> \in R)
  <2> HIDE DEF R, F
  <2> QED
    BY <1>1, NatLessThanWellFounded, WFMin DEF R
<1>3. x # 0 /\ x - 1 \in Nat /\ x - 1 + 1 = x
  BY <1>1
<1>4. x - 1 \in T
  <2>1. <<x - 1, x>> \in R
    BY <1>1, <1>3 DEF OpToRel
  <2> QED
    BY <1>2, <1>3, <2>1
<1> QED
  BY <1>2, <1>3, <1>4

\* From m on, up to n.
LEMMA InductionUpTo ==
  ASSUME NEW m \in Int, NEW n \in Int, NEW T, m \in T,
         \A k \in m .. n - 1 : k \in T => k + 1 \in T
  PROVE  m .. n \subseteq T
<1> DEFINE U == {d \in Nat : m + d <= n => m + d \in T}
<1>1. 0 \in U
  OBVIOUS
<1>2. ASSUME NEW d \in Nat, d \in U PROVE d + 1 \in U
  <2> SUFFICES ASSUME m + (d + 1) <= n PROVE m + (d + 1) \in T
    OBVIOUS
  <2>1. m + d \in T /\ m + d \in m .. n - 1 /\ m + (d + 1) = (m + d) + 1
    BY <1>2
  <2> QED
    BY <2>1
<1>3. Nat \subseteq U
  <2> HIDE DEF U
  <2> QED
    BY <1>1, <1>2, Induction
<1> SUFFICES ASSUME NEW k \in m .. n PROVE k \in T
  OBVIOUS
<1>4. k - m \in U /\ m + (k - m) = k
  BY <1>3
<1> QED
  BY <1>4

\* A set of numbers that is not empty has a least one.
LEMMA LeastNumber ==
  ASSUME NEW T \in SUBSET Nat, T # {}
  PROVE  \E x \in T : \A y \in T : x <= y
<1> DEFINE R == OpToRel(<, Nat)
<1>1. PICK x \in T : \A y \in T : ~ (<<y, x>> \in R)
  <2> HIDE DEF R
  <2> QED
    BY NatLessThanWellFounded, WFMin DEF R
<1>2. ASSUME NEW y \in T PROVE x <= y
  <2>1. ~ (y < x)
    BY <1>1 DEF OpToRel
  <2> QED
    BY <2>1
<1> QED
  BY <1>2

Iterates(g, n, first, step) ==
  \A k \in 1 .. n : g[k] = IF k = 1 THEN first ELSE step[<<k, g[k - 1]>>]

\* What a loop makes of its steps: the values of a recursive function exist.
LEMMA Iteration ==
  ASSUME NEW n \in Nat, NEW S, NEW first \in S, NEW step \in [(1 .. n) \X S -> S]
  PROVE  \E g \in [1 .. n -> S] : Iterates(g, n, first, step)
<1> DEFINE Runs(g, j) ==
             \A k \in 1 .. j : g[k] = IF k = 1 THEN first ELSE step[<<k, g[k - 1]>>]
           T == {j \in 0 .. n : \E g \in [1 .. j -> S] : Runs(g, j)}
<1>1. 0 \in T
  <2> DEFINE h == [k \in 1 .. 0 |-> first]
  <2>1. h \in [1 .. 0 -> S]
    OBVIOUS
  <2>2. Runs(h, 0)
    OBVIOUS
  <2>3. \E g \in [1 .. 0 -> S] : Runs(g, 0)
    <3> HIDE DEF h, Runs
    <3> QED
      BY <2>1, <2>2, Zenon
  <2>4. 0 \in 0 .. n
    OBVIOUS
  <2> HIDE DEF Runs
  <2> QED
    BY <2>3, <2>4, Zenon
<1>2. ASSUME NEW j \in 0 .. n - 1, j \in T PROVE j + 1 \in T
  <2>1. PICK g \in [1 .. j -> S] : Runs(g, j)
    BY <1>2
  <2> DEFINE last == IF j = 0 THEN first ELSE step[<<j + 1, g[j]>>]
             h == [k \in 1 .. j + 1 |-> IF k <= j THEN g[k] ELSE last]
  <2>2. last \in S
    <3>1. CASE j = 0
      BY <3>1
    <3>2. CASE j # 0
      <4>1. <<j + 1, g[j]>> \in (1 .. n) \X S
        BY <3>2
      <4> QED
        BY <3>2, <4>1
    <3> QED
      BY <3>1, <3>2
  <2>3. h \in [1 .. j + 1 -> S]
    BY <2>2
  <2>4. \A k \in 1 .. j : h[k] = g[k] /\ (k # 1 => h[k - 1] = g[k - 1])
    OBVIOUS
  <2>5. h[j + 1] = last /\ (j # 0 => h[j] = g[j])
    OBVIOUS
  <2>6. Runs(h, j + 1)
    <3> SUFFICES ASSUME NEW k \in 1 .. j + 1
                 PROVE  h[k] = IF k = 1 THEN first ELSE step[<<k, h[k - 1]>>]
      OBVIOUS
    <3> HIDE DEF h
    <3>1. CASE k = j + 1
      BY <2>5, <3>1
    <3>2. CASE k \in 1 .. j
      BY <2>1, <2>4, <3>2
    <3> QED
      BY <3>1, <3>2
  <2>7. \E f \in [1 .. j + 1 -> S] : Runs(f, j + 1)
    <3> HIDE DEF h, Runs
    <3> QED
      BY <2>3, <2>6, Zenon
  <2>8. j + 1 \in 0 .. n
    OBVIOUS
  <2> HIDE DEF Runs
  <2> QED
    BY <2>7, <2>8, Zenon
<1>3. 0 .. n \subseteq T
  <2> HIDE DEF T
  <2> QED
    BY <1>1, <1>2, InductionUpTo
<1>4. n \in T
  BY <1>3
<1> QED
  BY <1>4 DEF Iterates

-----------------------------------------------------------------------------
(* InOrder and sort_by_start. *)

\* There are n numbers from 1 to n.
LEMMA NumbersUpTo ==
  ASSUME NEW n \in Nat
  PROVE  IsFiniteSet(1 .. n) /\ Cardinality(1 .. n) = n
  BY FS_Interval

StrictOrder(S, R) ==
  /\ \A a \in S : <<a, a>> \notin R
  /\ \A a, b \in S : a = b \/ <<a, b>> \in R \/ <<b, a>> \in R
  /\ \A a, b, c \in S : <<a, b>> \in R /\ <<b, c>> \in R => <<a, c>> \in R

\* In a finite set with a strict total order R, the number of elements that do
\* not come after an element says where it stands, and every place is taken.
LEMMA Ranks ==
  ASSUME NEW S, IsFiniteSet(S), NEW R, StrictOrder(S, R),
         NEW upto \in [S -> SUBSET S],
         \A a, b \in S : b \in upto[a] <=> b = a \/ <<b, a>> \in R
  PROVE  /\ \A a \in S : Cardinality(upto[a]) \in 1 .. Cardinality(S)
         /\ \A a, b \in S :
              Cardinality(upto[a]) < Cardinality(upto[b]) => <<a, b>> \in R
         /\ \A a, b \in S : Cardinality(upto[a]) = Cardinality(upto[b]) => a = b
         /\ \A k \in 1 .. Cardinality(S) : \E a \in S : Cardinality(upto[a]) = k
<1> DEFINE n == Cardinality(S)
<1> PICK rank : rank = [a \in S |-> Cardinality(upto[a])]
  OBVIOUS
<1>1. n \in Nat
  BY FS_CardinalityType
<1>2. ASSUME NEW a \in S
      PROVE  /\ rank[a] = Cardinality(upto[a]) /\ rank[a] \in 1 .. n
             /\ IsFiniteSet(upto[a])
  <2>1. rank[a] = Cardinality(upto[a]) /\ upto[a] \in SUBSET S /\ a \in upto[a]
    OBVIOUS
  <2>2. /\ IsFiniteSet(upto[a]) /\ Cardinality(upto[a]) <= n
    BY <2>1, FS_Subset
  <2>3. Cardinality(upto[a]) \in Nat /\ Cardinality(upto[a]) # 0
    BY <2>1, <2>2, FS_CardinalityType, FS_EmptySet
  <2> HIDE DEF n
  <2> QED
    BY <1>1, <2>1, <2>2, <2>3
<1>3. ASSUME NEW a \in S, NEW b \in S, <<a, b>> \in R
      PROVE  rank[a] < rank[b]
  <2>1. upto[a] \in SUBSET upto[b]
    BY <1>3 DEF StrictOrder
  <2>2. b \in upto[b] /\ b \notin upto[a]
    BY <1>3 DEF StrictOrder
  <2>3. Cardinality(upto[a]) <= Cardinality(upto[b])
        /\ Cardinality(upto[a]) # Cardinality(upto[b])
    BY <1>2, <2>1, <2>2, FS_Subset
  <2>4. rank[a] <= rank[b] /\ rank[a] # rank[b]
    BY <1>2, <2>3, Zenon
  <2>5. rank[a] \in 1 .. n /\ rank[b] \in 1 .. n
    BY <1>2
  <2> HIDE DEF n
  <2> QED
    BY <1>1, <2>4, <2>5, SMT
<1> HIDE DEF n
<1>4. rank \in [S -> 1 .. n]
  BY <1>2
<1>5. ASSUME NEW a \in S, NEW b \in S
      PROVE  /\ rank[a] < rank[b] => <<a, b>> \in R
             /\ rank[a] = rank[b] => a = b
  <2>1. rank[a] \in 1 .. n /\ rank[b] \in 1 .. n
    BY <1>4
  <2>2. /\ rank[a] < rank[b] => ~ (rank[b] < rank[a]) /\ rank[a] # rank[b]
        /\ rank[a] = rank[b] => ~ (rank[b] < rank[a]) /\ ~ (rank[a] < rank[b])
    BY <1>1, <2>1, SMT
  <2> QED
    BY <1>3, <2>2, Zenon DEF StrictOrder
<1>6. rank \in Injection(S, 1 .. n)
  <2>1. DOMAIN rank = S
    BY <1>4
  <2> QED
    BY <1>4, <1>5, <2>1 DEF Injection, IsInjective
<1>7. IsFiniteSet(1 .. n) /\ Cardinality(1 .. n) = n
  BY <1>1, NumbersUpTo
<1>8. rank \in Surjection(S, 1 .. n)
  BY <1>6, <1>7, FS_Injection DEF n
<1>9. \A k \in 1 .. n : \E a \in S : rank[a] = k
  BY <1>8 DEF Surjection
<1> QED
  BY <1>2, <1>5, <1>9 DEF n

\* InOrder lists every element once, and in order.
LEMMA InOrderLists ==
  ASSUME NEW S, IsFiniteSet(S), NEW R, StrictOrder(S, R)
  PROVE  /\ Cardinality(S) \in Nat
         /\ InOrder(S, R) \in [1 .. Cardinality(S) -> S]
         /\ \A a \in S : \E k \in 1 .. Cardinality(S) : InOrder(S, R)[k] = a
         /\ \A k, l \in 1 .. Cardinality(S) :
              k < l => <<InOrder(S, R)[k], InOrder(S, R)[l]>> \in R
<1> DEFINE n == Cardinality(S)
           Upto(a) == {b \in S : b = a \/ <<b, a>> \in R}
           Place(k) == CHOOSE a \in S : Cardinality(Upto(a)) = k
<1> PICK order : order = InOrder(S, R)
  OBVIOUS
<1>1. n \in Nat
  BY FS_CardinalityType
<1>2. order = [k \in 1 .. n |-> Place(k)]
  BY DEF InOrder
<1> HIDE DEF n
<1>3. /\ \A a \in S : Cardinality(Upto(a)) \in 1 .. n
      /\ \A a, b \in S : Cardinality(Upto(a)) < Cardinality(Upto(b))
                           => <<a, b>> \in R
      /\ \A a, b \in S : Cardinality(Upto(a)) = Cardinality(Upto(b)) => a = b
      /\ \A k \in 1 .. n : \E a \in S : Cardinality(Upto(a)) = k
  <2> PICK upto : upto = [a \in S |-> Upto(a)]
    OBVIOUS
  <2>1. upto \in [S -> SUBSET S] /\ \A a \in S : upto[a] = Upto(a)
    OBVIOUS
  <2>2. \A a, b \in S : b \in upto[a] <=> b = a \/ <<b, a>> \in R
    BY <2>1
  <2> HIDE DEF Upto
  <2>3. /\ \A a \in S : Cardinality(upto[a]) \in 1 .. n
        /\ \A a, b \in S : Cardinality(upto[a]) < Cardinality(upto[b])
                             => <<a, b>> \in R
        /\ \A a, b \in S : Cardinality(upto[a]) = Cardinality(upto[b]) => a = b
        /\ \A k \in 1 .. n : \E a \in S : Cardinality(upto[a]) = k
    BY <2>1, <2>2, Ranks DEF n
  <2> QED
    BY <2>1, <2>3
<1> HIDE DEF Upto
<1>4. ASSUME NEW k \in 1 .. n
      PROVE  order[k] \in S /\ Cardinality(Upto(order[k])) = k
  BY <1>2, <1>3
<1>5. order \in [1 .. n -> S]
  <2> HIDE DEF Place
  <2> QED
    BY <1>2, <1>4
<1>6. ASSUME NEW a \in S PROVE \E k \in 1 .. n : order[k] = a
  BY <1>3, <1>4, Zenon
<1>7. ASSUME NEW k \in 1 .. n, NEW l \in 1 .. n, k < l
      PROVE  <<order[k], order[l]>> \in R
  <2>1. order[k] \in S /\ order[l] \in S
        /\ Cardinality(Upto(order[k])) < Cardinality(Upto(order[l]))
    BY <1>4, <1>7, Zenon
  <2> QED
    BY <1>3, <2>1, Zenon
<1> QED
  BY <1>1, <1>5, <1>6, <1>7 DEF n

\* A finite set of numbers, listed in ascending order.
LEMMA AscendingLists ==
  ASSUME NEW S \in SUBSET Int, IsFiniteSet(S)
  PROVE  /\ Cardinality(S) \in Nat
         /\ Ascending(S) \in [1 .. Cardinality(S) -> S]
         /\ \A a \in S : \E k \in 1 .. Cardinality(S) : Ascending(S)[k] = a
         /\ \A k, l \in 1 .. Cardinality(S) :
              k < l => Ascending(S)[k] < Ascending(S)[l]
<1> PICK R : R = {p \in S \X S : p[1] < p[2]}
  OBVIOUS
<1>1. Ascending(S) = InOrder(S, R)
  BY DEF Ascending
<1>2. \A a, b \in S : <<a, b>> \in R <=> a < b
  OBVIOUS
<1>3. StrictOrder(S, R)
  <2>1. \A a \in S : a \in Int
    OBVIOUS
  <2> QED
    BY <1>2, <2>1, SMT DEF StrictOrder
<1>4. /\ Cardinality(S) \in Nat
      /\ InOrder(S, R) \in [1 .. Cardinality(S) -> S]
      /\ \A a \in S : \E k \in 1 .. Cardinality(S) : InOrder(S, R)[k] = a
      /\ \A k, l \in 1 .. Cardinality(S) :
           k < l => <<InOrder(S, R)[k], InOrder(S, R)[l]>> \in R
  BY ONLY IsFiniteSet(S), <1>3, InOrderLists
<1>5. \A k \in 1 .. Cardinality(S) : InOrder(S, R)[k] \in S
  BY <1>4
<1> QED
  BY <1>1, <1>2, <1>4, <1>5

-----------------------------------------------------------------------------
(* Ranges, sorted. *)

Span == {r \in [start: Int, end: Int] : r.start <= r.end}

\* The fields of a range.
LEMMA SpanFields ==
  ASSUME NEW r \in Span
  PROVE  /\ r.start \in Int /\ r.end \in Int /\ r.start <= r.end
         /\ r = [start |-> r.start, end |-> r.end]
  BY DEF Span

StartsBefore(ranges, k, l) ==
  \/ ranges[k].start < ranges[l].start
  \/ ranges[k].start = ranges[l].start /\ k < l

\* Sorting by start yields the same ranges, in the order of their starts.
LEMMA SortByStart ==
  ASSUME NEW ranges \in Seq(Span)
  PROVE  /\ sort_by_start(ranges) \in Seq(Span)
         /\ DOMAIN sort_by_start(ranges) = DOMAIN ranges
         /\ \A r : (\E k \in DOMAIN ranges : sort_by_start(ranges)[k] = r)
                     <=> (\E k \in DOMAIN ranges : ranges[k] = r)
         /\ \A k, l \in DOMAIN ranges : k <= l =>
              sort_by_start(ranges)[k].start <= sort_by_start(ranges)[l].start
<1>1. PICK n \in Nat : n = Len(ranges) /\ DOMAIN ranges = 1 .. n
  OBVIOUS
<1>2. PICK R : R = {p \in (DOMAIN ranges) \X (DOMAIN ranges) :
                      StartsBefore(ranges, p[1], p[2])}
  OBVIOUS
<1>3. PICK order : order = InOrder(DOMAIN ranges, R)
  OBVIOUS
<1>4. PICK sorted : sorted = [k \in DOMAIN ranges |-> ranges[order[k]]]
  OBVIOUS
<1>5. sort_by_start(ranges) = sorted
  BY <1>2, <1>3, <1>4, Zenon DEF sort_by_start, StartsBefore
<1>6. \A k, l \in 1 .. n : <<k, l>> \in R <=> StartsBefore(ranges, k, l)
  BY <1>1, <1>2
<1>7. \A k \in 1 .. n : ranges[k] \in Span /\ k \in Int /\ ranges[k].start \in Int
  BY <1>1, SpanFields
<1>8. IsFiniteSet(1 .. n) /\ Cardinality(1 .. n) = n
  BY <1>1, NumbersUpTo, Zenon
<1>9. StrictOrder(1 .. n, R)
  <2>1. \A k \in 1 .. n : ~ StartsBefore(ranges, k, k)
    BY <1>7 DEF StartsBefore
  <2>2. \A k, l \in 1 .. n :
          k = l \/ StartsBefore(ranges, k, l) \/ StartsBefore(ranges, l, k)
    BY <1>7 DEF StartsBefore
  <2>3. \A k, l, m \in 1 .. n :
          StartsBefore(ranges, k, l) /\ StartsBefore(ranges, l, m)
            => StartsBefore(ranges, k, m)
    BY <1>7 DEF StartsBefore
  <2> QED
    BY <1>6, <2>1, <2>2, <2>3, Zenon DEF StrictOrder
<1>10. /\ order \in [1 .. n -> 1 .. n]
       /\ \A k \in 1 .. n : \E l \in 1 .. n : order[l] = k
       /\ \A k, l \in 1 .. n : k < l => <<order[k], order[l]>> \in R
  BY ONLY <1>1, <1>3, <1>8, <1>9, InOrderLists
<1>11. \A k \in 1 .. n : /\ order[k] \in 1 .. n
                         /\ sorted[k] = ranges[order[k]]
                         /\ sorted[k] \in Span
  BY <1>1, <1>4, <1>7, <1>10
<1>12. sorted \in Seq(Span) /\ DOMAIN sorted = 1 .. n
  BY <1>1, <1>4, <1>11
<1>13. \A r : (\E k \in 1 .. n : sorted[k] = r) <=> (\E k \in 1 .. n : ranges[k] = r)
  <2>1. ASSUME NEW k \in 1 .. n PROVE \E l \in 1 .. n : sorted[l] = ranges[k]
    BY <1>10, <1>11
  <2>2. ASSUME NEW k \in 1 .. n PROVE \E l \in 1 .. n : ranges[l] = sorted[k]
    BY <1>11
  <2> QED
    BY <2>1, <2>2, Zenon
<1>14. ASSUME NEW k \in 1 .. n, NEW l \in 1 .. n, k <= l
       PROVE  sorted[k].start <= sorted[l].start
  <2>1. CASE k = l
    BY <1>7, <1>11, <2>1
  <2>2. CASE k < l
    <3>1. StartsBefore(ranges, order[k], order[l])
      BY <1>6, <1>10, <1>11, <2>2
    <3> QED
      BY <1>7, <1>11, <3>1 DEF StartsBefore
  <2> QED
    BY <1>1, <1>14, <2>1, <2>2
<1> QED
  BY <1>1, <1>5, <1>12, <1>13, <1>14

-----------------------------------------------------------------------------
(* Ranges, merged.  What a list of ranges covers is what will be erased; what *)
(* it meets has the ends too, which is what ranges that touch share.          *)

Apart(m) == \A k, l \in DOMAIN m : k < l => m[k].end < m[l].start

Meets(a, range) == range.start <= a /\ a <= range.end

Covered(m, a) == \E k \in DOMAIN m : In(a, m[k])

Touched(m, a) == \E k \in DOMAIN m : Meets(a, m[k])

\* One iteration, away from the loop: the range is taken in, and nothing else.
LEMMA AbsorbTakesIn ==
  ASSUME NEW m \in Seq(Span), m # <<>>, Apart(m),
         NEW r \in Span, m[Len(m)].start <= r.start
  PROVE  /\ Absorb(m, r) \in Seq(Span)
         /\ Absorb(m, r) # <<>>
         /\ Absorb(m, r)[Len(Absorb(m, r))].start <= r.start
         /\ Apart(Absorb(m, r))
         /\ \A a \in Int : Covered(Absorb(m, r), a)
                                <=> Covered(m, a) \/ In(a, r)
         /\ \A a \in Int : Touched(Absorb(m, r), a)
                             <=> Touched(m, a) \/ Meets(a, r)
<1> DEFINE n == Len(m)
           last == m[n]
<1>1. /\ n \in Nat \ {0} /\ DOMAIN m = 1 .. n /\ last \in Span
      /\ n \in 1 .. n /\ n = Len(m) /\ last = m[n]
      /\ \A k \in 1 .. n : m[k] \in Span
  OBVIOUS
<1>2. n \in Nat \ {0}
  BY <1>1
<1>3. n = Len(m) /\ last = m[n]
  BY <1>1
<1>4. \A q \in Span : /\ q.start \in Int /\ q.end \in Int /\ q.start <= q.end
                      /\ q = [start |-> q.start, end |-> q.end]
  BY SpanFields
<1>5. Last(m) = last
  BY DEF Last
<1> HIDE DEF n, last
<1>6. CASE r.start <= last.end
  <2> DEFINE e == IF last.end >= r.end THEN last.end ELSE r.end
             wider == [start |-> last.start, end |-> e]
             res == [m EXCEPT ![n] = wider]
  <2>1. Absorb(m, r) = res
    <3>1. Absorb(m, r) = [m EXCEPT ![n].end = e]
      BY <1>5, <1>6, <1>3 DEF Absorb, last
    <3>2. [last EXCEPT !.end = e] = wider
      BY <1>1, <1>4
    <3>3. [m EXCEPT ![n].end = e] = [m EXCEPT ![n] = [last EXCEPT !.end = e]]
      BY <1>3
    <3> QED
      BY <3>1, <3>2, <3>3
  <2>2. e \in Int /\ last.end <= e /\ r.end <= e
        /\ (e = last.end \/ e = r.end)
    BY <1>1, <1>4, SMT
  <2>3. wider \in Span
    BY <1>1, <1>4, <2>2, SMT DEF Span
  <2>4. /\ res \in Seq(Span) /\ Len(res) = n /\ DOMAIN res = 1 .. n
        /\ res[n] = wider
        /\ \A k \in 1 .. n : k # n => res[k] = m[k]
    BY <1>1, <2>3
  <2> HIDE DEF e, res
  <2>5. Apart(res)
    <3> SUFFICES ASSUME NEW k \in 1 .. n, NEW l \in 1 .. n, k < l
                 PROVE  res[k].end < res[l].start
      BY <2>4 DEF Apart
    <3>1. res[k] = m[k] /\ m[k].end < m[l].start
      <4>1. k # n
        BY <1>2, SMT
      <4> QED
        BY <1>1, <2>4, <4>1 DEF Apart
    <3>2. res[l].start = m[l].start
      <4>1. wider.start = last.start
        OBVIOUS
      <4> QED
        BY <1>1, <2>4, <4>1
    <3> QED
      BY <3>1, <3>2
  <2>6. \A a \in Int : Covered(res, a) <=> Covered(m, a) \/ In(a, r)
    <3> SUFFICES ASSUME NEW a \in Int
                 PROVE  Covered(res, a) <=> Covered(m, a) \/ In(a, r)
      OBVIOUS
    <3>1. In(a, wider) <=> In(a, last) \/ In(a, r)
      BY <1>1, <1>4, <1>6, <2>2, SMT DEF In
    <3>2. Covered(res, a) <=> In(a, wider) \/ \E k \in 1 .. n : k # n /\ In(a, m[k])
      BY <1>1, <2>4, Zenon DEF Covered
    <3>3. Covered(m, a) <=> In(a, last) \/ \E k \in 1 .. n : k # n /\ In(a, m[k])
      BY <1>1, Zenon DEF Covered
    <3> QED
      BY <3>1, <3>2, <3>3
  <2>8. \A a \in Int : Touched(res, a) <=> Touched(m, a) \/ Meets(a, r)
    <3> SUFFICES ASSUME NEW a \in Int
                 PROVE  Touched(res, a) <=> Touched(m, a) \/ Meets(a, r)
      OBVIOUS
    <3>1. Meets(a, wider) <=> Meets(a, last) \/ Meets(a, r)
      BY <1>1, <1>4, <1>6, <2>2, SMT DEF Meets
    <3>2. Touched(res, a) <=> Meets(a, wider) \/ \E k \in 1 .. n : k # n /\ Meets(a, m[k])
      BY <1>1, <2>4, Zenon DEF Touched
    <3>3. Touched(m, a) <=> Meets(a, last) \/ \E k \in 1 .. n : k # n /\ Meets(a, m[k])
      BY <1>1, Zenon DEF Touched
    <3> QED
      BY <3>1, <3>2, <3>3
  <2>7. res # <<>> /\ res[Len(res)].start <= r.start
    <3>1. res # <<>>
      BY <1>1, <2>4
    <3>2. res[Len(res)] = wider
      BY <2>4
    <3>3. wider.start = last.start
      OBVIOUS
    <3>4. last.start <= r.start
      BY <1>3
    <3> QED
      BY <3>1, <3>2, <3>3, <3>4
  <2> QED
    BY <2>1, <2>4, <2>5, <2>6, <2>7, <2>8
<1>7. CASE ~ (r.start <= last.end)
  <2> DEFINE res == Append(m, r)
  <2>1. Absorb(m, r) = res
    BY <1>5, <1>7 DEF Absorb
  <2>2. /\ res \in Seq(Span) /\ Len(res) = n + 1 /\ DOMAIN res = 1 .. n + 1
        /\ res[n + 1] = r
        /\ \A k \in 1 .. n : res[k] = m[k]
    BY <1>1
  <2> HIDE DEF res
  <2>3. Apart(res)
    <3> SUFFICES ASSUME NEW k \in 1 .. n + 1, NEW l \in 1 .. n + 1, k < l
                 PROVE  res[k].end < res[l].start
      BY <2>2 DEF Apart
    <3>1. k \in 1 .. n /\ res[k] = m[k]
      BY <1>1, <2>2, SMT
    <3>2. CASE l = n + 1
      <4>1. last.end < r.start
        BY <1>1, <1>4, <1>7, SMT
      <4>2. m[k].end <= last.end
        <5>1. CASE k = n
          BY <1>1, <1>4, <5>1
        <5>2. CASE k # n
          <6>1. m[k].end < last.start
            <7>1. k \in DOMAIN m /\ n \in DOMAIN m /\ k < n
              <8>1. k \in Int /\ k <= n /\ k # n
                BY <1>2, <3>1, <5>2, SMT
              <8>2. k \in DOMAIN m /\ n \in DOMAIN m
                BY <1>1, <3>1
              <8> QED
                BY <1>2, <8>1, <8>2, SMT
            <7> QED
              BY <1>3, <7>1 DEF Apart
          <6> QED
            BY <6>1, <1>1, <1>4, <3>1, SMT
        <5> QED
          BY <5>1, <5>2
      <4> QED
        BY <2>2, <3>1, <3>2, <4>1, <4>2, <1>1, <1>4, SMT
    <3>3. CASE l \in 1 .. n
      BY <1>1, <2>2, <3>1, <3>3 DEF Apart
    <3> QED
      BY <1>1, <3>2, <3>3, SMT
  <2>4. \A a : Covered(res, a) <=> Covered(m, a) \/ In(a, r)
    <3>1. 1 .. n + 1 = (1 .. n) \cup {n + 1}
      BY <1>1, SMT
    <3> QED
      BY <1>1, <2>2, <3>1, Zenon DEF Covered
  <2>6. \A a : Touched(res, a) <=> Touched(m, a) \/ Meets(a, r)
    <3>1. 1 .. n + 1 = (1 .. n) \cup {n + 1}
      BY <1>1, SMT
    <3> QED
      BY <1>1, <2>2, <3>1, Zenon DEF Touched
  <2>5. res # <<>> /\ res[Len(res)].start <= r.start
    BY <1>1, <1>4, <2>2
  <2> QED
    BY <2>1, <2>2, <2>3, <2>4, <2>5, <2>6
<1> QED
  BY <1>6, <1>7

Merged == Seq(Span) \ {<<>>}

\* Taking a range in leaves a list of ranges.
LEMMA AbsorbType ==
  ASSUME NEW m \in Merged, NEW r \in Span
  PROVE  Absorb(m, r) \in Merged
<1>1. PICK n \in Nat \ {0} : n = Len(m) /\ DOMAIN m = 1 .. n
  BY DEF Merged
<1>2. PICK last \in Span : last = m[n]
  BY <1>1 DEF Merged
<1>3. Last(m) = last
  BY <1>1, <1>2 DEF Last
<1>4. CASE r.start <= last.end
  <2>1. PICK e \in Int : e = IF last.end >= r.end THEN last.end ELSE r.end
    BY SpanFields
  <2>2. last.end <= e
    BY <2>1, SpanFields
  <2>3. [last EXCEPT !.end = e] \in Span
    BY <2>2, SpanFields DEF Span
  <2>4. Absorb(m, r) = [m EXCEPT ![n] = [last EXCEPT !.end = e]]
    BY <1>1, <1>2, <1>3, <1>4, <2>1 DEF Absorb
  <2> QED
    BY <1>1, <2>3, <2>4 DEF Merged
<1>5. CASE ~ (r.start <= last.end)
  BY <1>3, <1>5 DEF Absorb, Merged
<1> QED
  BY <1>4, <1>5

\* The values the loop of merge_ranges goes through, for any order it may take.
IsMergeOf(g, sorted) ==
  g = [k \in DOMAIN sorted |->
         IF k = 1 THEN <<sorted[1]>> ELSE Absorb(g[k - 1], sorted[k])]

\* The recursive function of merge_ranges exists.
LEMMA MergeExists ==
  ASSUME NEW sorted \in Seq(Span)
  PROVE  \E g : IsMergeOf(g, sorted)
<1>1. PICK n \in Nat : n = Len(sorted) /\ DOMAIN sorted = 1 .. n
  OBVIOUS
<1>2. CASE n = 0
  <2>1. IsMergeOf(<<>>, sorted)
    BY <1>1, <1>2 DEF IsMergeOf
  <2> QED
    BY <2>1
<1>3. CASE n # 0
  <2>1. PICK first \in Merged : first = <<sorted[1]>>
    <3>1. <<sorted[1]>> \in Merged
      BY <1>1, <1>3 DEF Merged
    <3> QED
      BY <3>1
  <2>2. PICK step : step = [p \in (1 .. n) \X Merged |-> Absorb(p[2], sorted[p[1]])]
    OBVIOUS
  <2>3. \A k \in 1 .. n, m \in Merged :
          step[<<k, m>>] = Absorb(m, sorted[k]) /\ step[<<k, m>>] \in Merged
    <3>1. \A k \in 1 .. n, m \in Merged : step[<<k, m>>] = Absorb(m, sorted[k])
      BY <2>2
    <3>2. \A k \in 1 .. n : sorted[k] \in Span
      BY <1>1
    <3> QED
      BY <3>1, <3>2, AbsorbType
  <2>4. step \in [(1 .. n) \X Merged -> Merged]
    BY <2>2, <2>3
  <2>5. PICK g \in [1 .. n -> Merged] : Iterates(g, n, first, step)
    <3>1. n \in Nat /\ first \in Merged
      OBVIOUS
    <3> QED
      BY <2>4, <3>1, Iteration
  <2>6. \A k \in 1 .. n :
          g[k] = IF k = 1 THEN <<sorted[1]>> ELSE Absorb(g[k - 1], sorted[k])
    <3> SUFFICES ASSUME NEW k \in 1 .. n
                 PROVE  g[k] = IF k = 1 THEN <<sorted[1]>>
                               ELSE Absorb(g[k - 1], sorted[k])
      OBVIOUS
    <3>1. k # 1 => g[k - 1] \in Merged
      BY <2>5
    <3> QED
      BY <2>1, <2>3, <2>5, <3>1 DEF Iterates
  <2>7. IsMergeOf(g, sorted)
    BY <1>1, <2>6 DEF IsMergeOf
  <2> QED
    BY <2>7
<1> QED
  BY <1>2, <1>3

\* Along the loop the list stays apart and has what was taken in so far.
LEMMA MergeSoFar ==
  ASSUME NEW sorted \in Seq(Span), NEW g, IsMergeOf(g, sorted),
         \A k, l \in DOMAIN sorted : k <= l => sorted[k].start <= sorted[l].start
  PROVE  \A k \in DOMAIN sorted :
           /\ g[k] \in Merged
           /\ Apart(g[k])
           /\ g[k][Len(g[k])].start <= sorted[k].start
           /\ \A a \in Int : Covered(g[k], a) <=> \E l \in 1 .. k : In(a, sorted[l])
           /\ \A a \in Int : Touched(g[k], a) <=> \E l \in 1 .. k : Meets(a, sorted[l])
<1> DEFINE Good(k) ==
      /\ g[k] \in Merged
      /\ Apart(g[k])
      /\ g[k][Len(g[k])].start <= sorted[k].start
      /\ \A a \in Int : Covered(g[k], a) <=> \E l \in 1 .. k : In(a, sorted[l])
      /\ \A a \in Int : Touched(g[k], a) <=> \E l \in 1 .. k : Meets(a, sorted[l])
<1>1. PICK n \in Nat : n = Len(sorted) /\ DOMAIN sorted = 1 .. n
  OBVIOUS
<1>2. \A k \in 1 .. n : sorted[k] \in Span /\ sorted[k].start \in Int
  BY <1>1, SpanFields
<1>3. \A k \in 1 .. n :
        g[k] = IF k = 1 THEN <<sorted[1]>> ELSE Absorb(g[k - 1], sorted[k])
  BY <1>1, Zenon DEF IsMergeOf
<1>4. ASSUME n # 0 PROVE Good(1)
  <2>1. 1 \in 1 .. n /\ g[1] = <<sorted[1]>> /\ sorted[1] \in Span
    BY <1>1, <1>2, <1>3, <1>4
  <2>2. /\ g[1] \in Merged /\ Len(g[1]) = 1 /\ DOMAIN g[1] = {1}
        /\ g[1][1] = sorted[1] /\ 1 .. 1 = {1}
    BY <2>1 DEF Merged
  <2>3. Apart(g[1])
    BY <2>2 DEF Apart
  <2>4. g[1][Len(g[1])].start <= sorted[1].start
    BY <1>2, <2>1, <2>2
  <2>5. \A a : Covered(g[1], a) <=> \E l \in 1 .. 1 : In(a, sorted[l])
    BY <2>2, Zenon DEF Covered
  <2>6. \A a : Touched(g[1], a) <=> \E l \in 1 .. 1 : Meets(a, sorted[l])
    BY <2>2, Zenon DEF Touched
  <2> QED
    BY <2>2, <2>3, <2>4, <2>5, <2>6
<1>5. ASSUME NEW k \in 1 .. n - 1, Good(k) PROVE Good(k + 1)
  <2>1. /\ k \in 1 .. n /\ k + 1 \in 1 .. n /\ k + 1 # 1 /\ (k + 1) - 1 = k
        /\ k <= k + 1 /\ 1 .. k + 1 = (1 .. k) \cup {k + 1}
    BY <1>1
  <2>2. PICK r \in Span : r = sorted[k + 1]
    BY <1>2, <2>1
  <2>3. PICK m : m = g[k]
    OBVIOUS
  <2>4. g[k + 1] = Absorb(m, r)
    BY <1>3, <2>1, <2>2, <2>3
  <2>5. /\ m \in Seq(Span) /\ m # <<>> /\ Apart(m)
        /\ m[Len(m)].start <= sorted[k].start
    BY <1>5, <2>3 DEF Merged
  <2>6. m[Len(m)].start <= r.start
    <3>1. m[Len(m)] \in Span
      BY <2>5
    <3>2. m[Len(m)].start \in Int /\ sorted[k].start \in Int /\ r.start \in Int
      BY <1>2, <2>1, <3>1, SpanFields
    <3>3. sorted[k].start <= r.start
      BY <1>1, <2>1, <2>2
    <3> QED
      BY <2>5, <3>2, <3>3
  <2>7. /\ Absorb(m, r) \in Seq(Span) /\ Absorb(m, r) # <<>>
        /\ Absorb(m, r)[Len(Absorb(m, r))].start <= r.start
        /\ Apart(Absorb(m, r))
        /\ \A a \in Int : Covered(Absorb(m, r), a) <=> Covered(m, a) \/ In(a, r)
        /\ \A a \in Int : Touched(Absorb(m, r), a) <=> Touched(m, a) \/ Meets(a, r)
    BY <2>5, <2>6, AbsorbTakesIn
  <2>8. /\ \A a \in Int : Covered(m, a) <=> \E l \in 1 .. k : In(a, sorted[l])
        /\ \A a \in Int : Touched(m, a) <=> \E l \in 1 .. k : Meets(a, sorted[l])
    BY <1>5, <2>3
  <2>9. \A a \in Int : Covered(g[k + 1], a) <=> \E l \in 1 .. k + 1 : In(a, sorted[l])
    BY <2>1, <2>2, <2>4, <2>7, <2>8, Zenon
  <2>10. \A a \in Int :
           Touched(g[k + 1], a) <=> \E l \in 1 .. k + 1 : Meets(a, sorted[l])
    BY <2>1, <2>2, <2>4, <2>7, <2>8, Zenon
  <2> QED
    BY <2>2, <2>4, <2>7, <2>9, <2>10 DEF Merged
<1> DEFINE T == {k \in 1 .. n : Good(k)}
<1>6. CASE n # 0
  <2>1. 1 \in T
    BY <1>1, <1>4, <1>6
  <2>2. \A k \in 1 .. n - 1 : k \in T => k + 1 \in T
    <3> SUFFICES ASSUME NEW k \in 1 .. n - 1, k \in T PROVE k + 1 \in T
      OBVIOUS
    <3>1. k + 1 \in 1 .. n
      BY <1>1
    <3> HIDE DEF Good
    <3> QED
      BY <1>5, <3>1
  <2>3. 1 .. n \subseteq T
    <3>1. 1 \in Int /\ n \in Int
      BY <1>1
    <3> HIDE DEF T
    <3> QED
      BY <2>1, <2>2, <3>1, InductionUpTo, Zenon
  <2> HIDE DEF Good
  <2>4. \A k \in 1 .. n : Good(k)
    BY <2>3
  <2> QED
    BY <1>1, <2>4 DEF Good
<1> QED
  BY <1>1, <1>6

\* What the loop ends with is apart and covers and meets what the ranges do.
LEMMA MergeEndsWith ==
  ASSUME NEW ranges \in Seq(Span), ranges # <<>>,
         NEW sorted \in Seq(Span), DOMAIN sorted = DOMAIN ranges,
         \A r : (\E k \in DOMAIN ranges : sorted[k] = r)
                  <=> (\E k \in DOMAIN ranges : ranges[k] = r),
         \A k, l \in DOMAIN ranges : k <= l => sorted[k].start <= sorted[l].start,
         NEW g, IsMergeOf(g, sorted),
         NEW m, m = g[Len(ranges)]
  PROVE  /\ m \in Seq(Span)
         /\ Apart(m)
         /\ \A a \in Int : Covered(m, a) <=> Covered(ranges, a)
         /\ \A a \in Int : Touched(m, a) <=> Touched(ranges, a)
<1>1. /\ Len(ranges) \in DOMAIN sorted
      /\ 1 .. Len(ranges) = DOMAIN ranges
  OBVIOUS
<1>2. /\ m \in Merged
      /\ Apart(m)
      /\ \A a \in Int : Covered(m, a) <=> \E l \in 1 .. Len(ranges) : In(a, sorted[l])
      /\ \A a \in Int : Touched(m, a) <=> \E l \in 1 .. Len(ranges) : Meets(a, sorted[l])
  BY <1>1, MergeSoFar
<1>3. \A a : (\E l \in DOMAIN ranges : In(a, sorted[l])) <=> Covered(ranges, a)
  BY Zenon DEF Covered
<1>4. \A a : (\E l \in DOMAIN ranges : Meets(a, sorted[l])) <=> Touched(ranges, a)
  BY Zenon DEF Touched
<1> QED
  BY <1>1, <1>2, <1>3, <1>4 DEF Merged

\* The ranges merge_ranges returns are apart, and are neither more nor less than
\* the ranges it was given.
LEMMA MergeRangesResult ==
  ASSUME NEW ranges \in Seq(Span)
  PROVE  /\ merge_ranges(ranges) \in Seq(Span)
         /\ Apart(merge_ranges(ranges))
         /\ \A a \in Int : Covered(merge_ranges(ranges), a) <=> Covered(ranges, a)
         /\ \A a \in Int : Touched(merge_ranges(ranges), a) <=> Touched(ranges, a)
<1>1. CASE ranges = <<>>
  <2>1. merge_ranges(ranges) = ranges
    BY <1>1 DEF merge_ranges
  <2>2. Apart(ranges)
    BY <1>1 DEF Apart
  <2> QED
    BY <2>1, <2>2
<1>2. CASE ranges # <<>>
  <2>1. PICK sorted : sorted = sort_by_start(ranges)
    OBVIOUS
  <2>2. /\ sorted \in Seq(Span) /\ DOMAIN sorted = DOMAIN ranges
        /\ \A r : (\E k \in DOMAIN ranges : sorted[k] = r)
                    <=> (\E k \in DOMAIN ranges : ranges[k] = r)
        /\ \A k, l \in DOMAIN ranges : k <= l => sorted[k].start <= sorted[l].start
    BY <2>1, SortByStart
  <2>3. PICK g : g = CHOOSE f : IsMergeOf(f, sorted)
    OBVIOUS
  <2>4. IsMergeOf(g, sorted)
    BY <2>2, <2>3, MergeExists, Zenon
  <2>5. merge_ranges(ranges) = g[Len(ranges)]
    <3>1. g = CHOOSE f : f = [k \in DOMAIN ranges |->
                                IF k = 1 THEN <<sorted[1]>>
                                ELSE Absorb(f[k - 1], sorted[k])]
      BY <2>2, <2>3, Zenon DEF IsMergeOf
    <3> QED
      BY <1>2, <2>1, <3>1, Zenon DEF merge_ranges
  <2> QED
    BY <1>2, <2>2, <2>4, <2>5, MergeEndsWith, Zenon
<1> QED
  BY <1>1, <1>2

-----------------------------------------------------------------------------
(* Lists of ranges that are apart are determined by what they cover and meet. *)

\* An ascending list of numbers is determined by the numbers in it.
LEMMA SameNumbersUpTo ==
  ASSUME NEW f \in Seq(Int), NEW g \in Seq(Int),
         \A k, l \in DOMAIN f : k < l => f[k] < f[l],
         \A k, l \in DOMAIN g : k < l => g[k] < g[l],
         \A k \in DOMAIN f : \E l \in DOMAIN g : g[l] = f[k],
         \A k \in DOMAIN g : \E l \in DOMAIN f : f[l] = g[k]
  PROVE  Len(f) <= Len(g) /\ \A k \in DOMAIN f : f[k] = g[k]
<1>1. PICK n \in Nat, m \in Nat : /\ n = Len(f) /\ DOMAIN f = 1 .. n
                                  /\ m = Len(g) /\ DOMAIN g = 1 .. m
  OBVIOUS
<1>2. (\A k \in 1 .. n : f[k] \in Int) /\ (\A k \in 1 .. m : g[k] \in Int)
  BY <1>1
<1> DEFINE Same(k) == k <= m /\ \A l \in 1 .. k : f[l] = g[l]
           T == {k \in 0 .. n : Same(k)}
<1>3. ASSUME NEW k \in 0 .. n - 1, Same(k) PROVE Same(k + 1)
  <2>1. k + 1 \in 1 .. n /\ k \in Nat
    BY <1>1
  <2>2. PICK l \in 1 .. m : g[l] = f[k + 1]
    BY <1>1, <2>1
  <2>3. l > k
    <3> SUFFICES ASSUME l <= k PROVE FALSE
      OBVIOUS
    <3>1. l \in 1 .. k /\ l \in 1 .. n /\ l < k + 1
      BY <2>1
    <3>2. f[l] = f[k + 1] /\ f[l] < f[k + 1]
      BY <1>1, <1>3, <2>1, <2>2, <3>1
    <3> QED
      BY <1>2, <2>1, <3>2
  <2>4. k + 1 \in 1 .. m
    BY <1>1, <2>1, <2>3
  <2>5. g[k + 1] <= f[k + 1]
    <3>1. CASE l = k + 1
      BY <1>2, <2>1, <2>2, <2>4, <3>1
    <3>2. CASE k + 1 < l
      <4>1. g[k + 1] < g[l]
        BY <1>1, <2>4, <3>2
      <4>2. g[k + 1] \in Int /\ f[k + 1] \in Int
        BY <1>2, <2>1, <2>4
      <4>3. g[k + 1] < f[k + 1]
        BY <2>2, <4>1, Zenon
      <4> QED
        BY ONLY <4>2, <4>3, SMT
    <3>3. l = k + 1 \/ k + 1 < l
      BY <2>1, <2>2, <2>3
    <3> QED
      BY <3>1, <3>2, <3>3
  <2>6. PICK p \in 1 .. n : f[p] = g[k + 1]
    BY <1>1, <2>4
  <2>7. p > k
    <3> SUFFICES ASSUME p <= k PROVE FALSE
      OBVIOUS
    <3>1. p \in 1 .. k /\ p \in 1 .. m /\ p < k + 1
      BY <2>1, <2>4, <1>1
    <3>2. g[p] = g[k + 1] /\ g[p] < g[k + 1]
      BY <1>1, <1>3, <2>4, <2>6, <3>1
    <3> QED
      BY <1>2, <2>4, <3>2
  <2>8. f[k + 1] <= g[k + 1]
    <3>1. CASE p = k + 1
      BY <1>2, <2>1, <2>6, <2>4, <3>1
    <3>2. CASE k + 1 < p
      <4>1. f[k + 1] < f[p]
        BY <1>1, <2>1, <3>2
      <4>2. g[k + 1] \in Int /\ f[k + 1] \in Int
        BY <1>2, <2>1, <2>4
      <4>3. f[k + 1] < g[k + 1]
        BY <2>6, <4>1, Zenon
      <4> QED
        BY ONLY <4>2, <4>3, SMT
    <3>3. p = k + 1 \/ k + 1 < p
      BY <2>1, <2>6, <2>7
    <3> QED
      BY <3>1, <3>2, <3>3
  <2>9. f[k + 1] = g[k + 1]
    BY <1>2, <2>1, <2>4, <2>5, <2>8
  <2>10. \A q \in 1 .. k + 1 : q \in 1 .. k \/ q = k + 1
    BY <2>1
  <2> QED
    BY <1>3, <2>4, <2>9, <2>10
<1>4. 0 \in T
  BY <1>1
<1>5. \A k \in 0 .. n - 1 : k \in T => k + 1 \in T
  <2> SUFFICES ASSUME NEW k \in 0 .. n - 1, k \in T PROVE k + 1 \in T
    OBVIOUS
  <2>1. k + 1 \in 0 .. n
    BY <1>1
  <2> HIDE DEF Same
  <2> QED
    BY <1>3, <2>1
<1>6. 0 .. n \subseteq T
  <2>1. 0 \in Int /\ n \in Int
    BY <1>1
  <2> HIDE DEF T
  <2> QED
    BY <1>4, <1>5, <2>1, InductionUpTo, Zenon
<1>7. Same(n)
  <2>1. n \in 0 .. n
    BY <1>1
  <2> HIDE DEF Same
  <2> QED
    BY <1>6, <2>1
<1> QED
  BY <1>1, <1>7

\* Where ranges that are apart begin and end, told by what they cover and meet.
LEMMA Borders ==
  ASSUME NEW m \in Seq(Span), Apart(m), NEW a \in Int
  PROVE  /\ (\E k \in DOMAIN m : m[k].start = a)
              <=> Touched(m, a) /\ ~ Covered(m, a - 1)
         /\ (\E k \in DOMAIN m : m[k].end = a)
              <=> Touched(m, a) /\ ~ Covered(m, a)
<1>1. PICK n \in Nat : n = Len(m) /\ DOMAIN m = 1 .. n
  OBVIOUS
<1>2. \A k \in 1 .. n : /\ m[k].start \in Int /\ m[k].end \in Int
                        /\ m[k].start <= m[k].end
  BY <1>1, SpanFields
<1>3. \A k, l \in 1 .. n : k < l => m[k].end < m[l].start
  BY <1>1 DEF Apart
<1>4. ASSUME NEW k \in 1 .. n, m[k].start = a
      PROVE  Touched(m, a) /\ ~ Covered(m, a - 1)
  <2>1. Meets(a, m[k])
    BY <1>2, <1>4 DEF Meets
  <2>2. ASSUME NEW l \in 1 .. n PROVE ~ In(a - 1, m[l])
    <3>1. CASE l = k
      BY <1>2, <1>4, <3>1 DEF In
    <3>2. CASE l < k
      <4>1. m[l].end < a
        BY <1>3, <1>4, <3>2
      <4> QED
        BY <1>2, <4>1 DEF In
    <3>3. CASE k < l
      <4>1. m[k].end < m[l].start
        BY <1>3, <3>3
      <4> QED
        BY <1>2, <1>4, <4>1 DEF In
    <3> QED
      BY <1>1, <3>1, <3>2, <3>3
  <2> QED
    BY <1>1, <2>1, <2>2 DEF Touched, Covered
<1>5. ASSUME Touched(m, a), ~ Covered(m, a - 1)
      PROVE  \E k \in 1 .. n : m[k].start = a
  <2>1. PICK k \in 1 .. n : Meets(a, m[k])
    BY <1>1, <1>5 DEF Touched
  <2>2. ~ In(a - 1, m[k])
    BY <1>1, <1>5 DEF Covered
  <2> QED
    BY <1>2, <2>1, <2>2 DEF In, Meets
<1>6. ASSUME NEW k \in 1 .. n, m[k].end = a
      PROVE  Touched(m, a) /\ ~ Covered(m, a)
  <2>1. Meets(a, m[k])
    BY <1>2, <1>6 DEF Meets
  <2>2. ASSUME NEW l \in 1 .. n PROVE ~ In(a, m[l])
    <3>1. CASE l = k
      BY <1>2, <1>6, <3>1 DEF In
    <3>2. CASE l < k
      <4>1. m[l].end < m[k].start
        BY <1>3, <3>2
      <4> QED
        BY <1>2, <1>6, <4>1 DEF In
    <3>3. CASE k < l
      <4>1. a < m[l].start
        BY <1>3, <1>6, <3>3
      <4> QED
        BY <1>2, <4>1 DEF In
    <3> QED
      BY <1>1, <3>1, <3>2, <3>3
  <2> QED
    BY <1>1, <2>1, <2>2 DEF Touched, Covered
<1>7. ASSUME Touched(m, a), ~ Covered(m, a)
      PROVE  \E k \in 1 .. n : m[k].end = a
  <2>1. PICK k \in 1 .. n : Meets(a, m[k])
    BY <1>1, <1>7 DEF Touched
  <2>2. ~ In(a, m[k])
    BY <1>1, <1>7 DEF Covered
  <2> QED
    BY <1>2, <2>1, <2>2 DEF In, Meets
<1> QED
  BY <1>1, <1>4, <1>5, <1>6, <1>7

BorderLists(v, s, e) ==
  /\ s = [k \in DOMAIN v |-> v[k].start]
  /\ e = [k \in DOMAIN v |-> v[k].end]

\* The starts, and the ends, of ranges that are apart ascend.
LEMMA StartsAndEnds ==
  ASSUME NEW v \in Seq(Span), Apart(v),
         NEW s, NEW e, BorderLists(v, s, e)
  PROVE  /\ s \in Seq(Int) /\ DOMAIN s = DOMAIN v /\ Len(s) = Len(v)
         /\ e \in Seq(Int) /\ DOMAIN e = DOMAIN v /\ Len(e) = Len(v)
         /\ \A k \in DOMAIN v : v[k] = [start |-> s[k], end |-> e[k]]
         /\ \A k, l \in DOMAIN v : k < l => s[k] < s[l]
         /\ \A k, l \in DOMAIN v : k < l => e[k] < e[l]
<1>1. PICK n \in Nat : n = Len(v) /\ DOMAIN v = 1 .. n
  OBVIOUS
<1>2. \A k \in 1 .. n : /\ v[k].start \in Int /\ v[k].end \in Int
                        /\ v[k].start <= v[k].end
  BY <1>1, SpanFields
<1>3. \A k \in 1 .. n : v[k] = [start |-> v[k].start, end |-> v[k].end]
  BY <1>1, SpanFields
<1>4. \A k \in 1 .. n : s[k] = v[k].start /\ e[k] = v[k].end
  BY <1>1 DEF BorderLists
<1>5. ASSUME NEW k \in 1 .. n, NEW l \in 1 .. n, k < l
      PROVE  s[k] < s[l] /\ e[k] < e[l]
  <2>1. v[k].end < v[l].start
    BY <1>1, <1>5 DEF Apart
  <2>2. v[k].start < v[l].start /\ v[k].end < v[l].end
    <3>1. /\ v[k].start \in Int /\ v[k].end \in Int /\ v[k].start <= v[k].end
          /\ v[l].start \in Int /\ v[l].end \in Int /\ v[l].start <= v[l].end
      BY <1>2
    <3> QED
      BY <2>1, <3>1, SMT
  <2> QED
    BY <1>4, <2>2
<1>6. s \in [1 .. n -> Int] /\ e \in [1 .. n -> Int]
  BY <1>1, <1>2 DEF BorderLists
<1>7. s \in Seq(Int) /\ Len(s) = n /\ e \in Seq(Int) /\ Len(e) = n
  BY <1>6
<1> QED
  BY <1>1, <1>4, <1>5, <1>6, <1>7, <1>3

\* Two lists of ranges that are apart and cover and touch the same addresses are
\* the same list.
LEMMA SameRanges ==
  ASSUME NEW m \in Seq(Span), NEW w \in Seq(Span), Apart(m), Apart(w),
         \A a \in Int : Covered(m, a) <=> Covered(w, a),
         \A a \in Int : Touched(m, a) <=> Touched(w, a)
  PROVE  m = w
<1>1. PICK s, e : BorderLists(m, s, e)
  BY DEF BorderLists
<1>2. PICK t, f : BorderLists(w, t, f)
  BY DEF BorderLists
<1>3. /\ s \in Seq(Int) /\ DOMAIN s = DOMAIN m /\ Len(s) = Len(m)
      /\ e \in Seq(Int) /\ DOMAIN e = DOMAIN m /\ Len(e) = Len(m)
      /\ \A k \in DOMAIN m : m[k] = [start |-> s[k], end |-> e[k]]
      /\ \A k, l \in DOMAIN m : k < l => s[k] < s[l]
      /\ \A k, l \in DOMAIN m : k < l => e[k] < e[l]
  BY <1>1, StartsAndEnds
<1>4. /\ t \in Seq(Int) /\ DOMAIN t = DOMAIN w /\ Len(t) = Len(w)
      /\ f \in Seq(Int) /\ DOMAIN f = DOMAIN w /\ Len(f) = Len(w)
      /\ \A k \in DOMAIN w : w[k] = [start |-> t[k], end |-> f[k]]
      /\ \A k, l \in DOMAIN w : k < l => t[k] < t[l]
      /\ \A k, l \in DOMAIN w : k < l => f[k] < f[l]
  BY <1>2, StartsAndEnds
<1>5. ASSUME NEW a \in Int
      PROVE  /\ (\E k \in DOMAIN m : m[k].start = a)
                  <=> (\E k \in DOMAIN w : w[k].start = a)
             /\ (\E k \in DOMAIN m : m[k].end = a)
                  <=> (\E k \in DOMAIN w : w[k].end = a)
  <2>1. a - 1 \in Int
    OBVIOUS
  <2>2. /\ Covered(m, a) <=> Covered(w, a)
        /\ Covered(m, a - 1) <=> Covered(w, a - 1)
        /\ Touched(m, a) <=> Touched(w, a)
    BY <2>1
  <2> QED
    BY <2>2, Borders, Zenon
<1>6. /\ \A k \in DOMAIN m : s[k] = m[k].start /\ s[k] \in Int
      /\ \A k \in DOMAIN m : e[k] = m[k].end /\ e[k] \in Int
      /\ \A k \in DOMAIN w : t[k] = w[k].start /\ t[k] \in Int
      /\ \A k \in DOMAIN w : f[k] = w[k].end /\ f[k] \in Int
  BY <1>1, <1>2, <1>3, <1>4 DEF BorderLists
<1>7. /\ \A k \in DOMAIN s : \E l \in DOMAIN t : t[l] = s[k]
      /\ \A k \in DOMAIN t : \E l \in DOMAIN s : s[l] = t[k]
      /\ \A k \in DOMAIN e : \E l \in DOMAIN f : f[l] = e[k]
      /\ \A k \in DOMAIN f : \E l \in DOMAIN e : e[l] = f[k]
  <2>1. DOMAIN s = DOMAIN m /\ DOMAIN e = DOMAIN m
        /\ DOMAIN t = DOMAIN w /\ DOMAIN f = DOMAIN w
    BY <1>3, <1>4
  <2>2. ASSUME NEW k \in DOMAIN m
        PROVE  (\E l \in DOMAIN w : t[l] = s[k]) /\ (\E l \in DOMAIN w : f[l] = e[k])
    <3>1. /\ s[k] \in Int /\ m[k].start = s[k]
          /\ e[k] \in Int /\ m[k].end = e[k]
      BY <1>6
    <3>2. PICK l \in DOMAIN w : w[l].start = s[k]
      BY <1>5, <3>1, Zenon
    <3>3. PICK q \in DOMAIN w : w[q].end = e[k]
      BY <1>5, <3>1, Zenon
    <3> QED
      BY <1>6, <3>2, <3>3, Zenon
  <2>3. ASSUME NEW k \in DOMAIN w
        PROVE  (\E l \in DOMAIN m : s[l] = t[k]) /\ (\E l \in DOMAIN m : e[l] = f[k])
    <3>1. /\ t[k] \in Int /\ w[k].start = t[k]
          /\ f[k] \in Int /\ w[k].end = f[k]
      BY <1>6
    <3>2. PICK l \in DOMAIN m : m[l].start = t[k]
      BY <1>5, <3>1, Zenon
    <3>3. PICK q \in DOMAIN m : m[q].end = f[k]
      BY <1>5, <3>1, Zenon
    <3> QED
      BY <1>6, <3>2, <3>3, Zenon
  <2> QED
    BY <2>1, <2>2, <2>3, Zenon
<1>8. Len(s) <= Len(t) /\ \A k \in DOMAIN s : s[k] = t[k]
  BY <1>3, <1>4, <1>7, SameNumbersUpTo
<1>9. Len(t) <= Len(s)
  BY <1>3, <1>4, <1>7, SameNumbersUpTo
<1>10. \A k \in DOMAIN e : e[k] = f[k]
  BY <1>3, <1>4, <1>7, SameNumbersUpTo
<1>11. Len(m) = Len(w) /\ DOMAIN m = DOMAIN w
  <2>1. Len(m) \in Nat /\ Len(w) \in Nat
        /\ DOMAIN m = 1 .. Len(m) /\ DOMAIN w = 1 .. Len(w)
    OBVIOUS
  <2>2. Len(m) <= Len(w) /\ Len(w) <= Len(m)
    BY <1>3, <1>4, <1>8, <1>9, Zenon
  <2>3. \A a, b \in Nat : a <= b /\ b <= a => a = b
    BY ONLY SMT
  <2>4. Len(m) = Len(w)
    BY <2>1, <2>2, <2>3, Zenon
  <2> QED
    BY <2>1, <2>4
<1>12. \A k \in DOMAIN m : m[k] = w[k]
  BY <1>3, <1>4, <1>8, <1>10, <1>11, Zenon
<1> QED
  BY <1>11, <1>12

-----------------------------------------------------------------------------
(* FlattenSeq: where the elements of the lists stand in the one list. *)

IsFlattenOf(g, lists) ==
  g = [i \in 1 .. Len(lists) |-> IF i = 1 THEN lists[i] ELSE g[i - 1] \o lists[i]]

Grows(h, lists) ==
  /\ h[0] = <<>>
  /\ \A i \in 1 .. Len(lists) : h[i] = h[i - 1] \o lists[i]

\* Element c of list s is element at[s] + c of flat; the lists are in order.
Placed(lists, flat, at) ==
  /\ at \in [DOMAIN lists -> Nat]
  /\ \A s \in DOMAIN lists : \A c \in DOMAIN lists[s] :
       at[s] + c \in DOMAIN flat /\ flat[at[s] + c] = lists[s][c]
  /\ \A j \in DOMAIN flat : \E s \in DOMAIN lists : \E c \in DOMAIN lists[s] :
       j = at[s] + c
  /\ \A s, t \in DOMAIN lists : \A c \in DOMAIN lists[s] :
       s < t => at[s] + c <= at[t]

\* The recursive function inside FlattenSeq has its values.
LEMMA FlattenExists ==
  ASSUME NEW S, NEW lists \in Seq(Seq(S))
  PROVE  \E g : IsFlattenOf(g, lists)
<1>1. PICK n \in Nat : n = Len(lists) /\ DOMAIN lists = 1 .. n
  OBVIOUS
<1>2. CASE n = 0
  <2>1. IsFlattenOf(<<>>, lists)
    BY <1>1, <1>2 DEF IsFlattenOf
  <2> QED
    BY <2>1
<1>3. CASE n # 0
  <2>1. PICK T : T = Seq(S)
    OBVIOUS
  <2>2. PICK first \in T : first = lists[1]
    BY <1>1, <1>3, <2>1
  <2>3. PICK step : step = [p \in (1 .. n) \X T |-> p[2] \o lists[p[1]]]
    OBVIOUS
  <2>4. \A k \in 1 .. n, m \in T :
          step[<<k, m>>] = m \o lists[k] /\ step[<<k, m>>] \in T
    <3>1. \A k \in 1 .. n, m \in T : step[<<k, m>>] = m \o lists[k]
      BY <2>3
    <3>2. ASSUME NEW k \in 1 .. n, NEW m \in T PROVE m \o lists[k] \in T
      <4>1. lists[k] \in Seq(S) /\ m \in Seq(S)
        BY <1>1, <2>1
      <4> QED
        BY ONLY <4>1, <2>1
    <3> QED
      BY <3>1, <3>2, Zenon
  <2>5. step \in [(1 .. n) \X T -> T]
    BY <2>3, <2>4
  <2>6. PICK g \in [1 .. n -> T] : Iterates(g, n, first, step)
    <3>1. n \in Nat /\ first \in T
      OBVIOUS
    <3> QED
      BY <2>5, <3>1, Iteration
  <2>7. \A k \in 1 .. n : g[k] = IF k = 1 THEN lists[k] ELSE g[k - 1] \o lists[k]
    <3> SUFFICES ASSUME NEW k \in 1 .. n
                 PROVE  g[k] = IF k = 1 THEN lists[k] ELSE g[k - 1] \o lists[k]
      OBVIOUS
    <3>1. k # 1 => g[k - 1] \in T
      BY <2>6
    <3> QED
      BY <2>2, <2>4, <2>6, <3>1 DEF Iterates
  <2>8. IsFlattenOf(g, lists)
    BY <1>1, <2>7 DEF IsFlattenOf
  <2> QED
    BY <2>8
<1> QED
  BY <1>2, <1>3

\* FlattenSeq puts one list after the other.
LEMMA FlattenGrows ==
  ASSUME NEW S, NEW lists \in Seq(Seq(S))
  PROVE  \E h : Grows(h, lists) /\ FlattenSeq(lists) = h[Len(lists)]
<1>1. PICK n \in Nat : n = Len(lists) /\ DOMAIN lists = 1 .. n
  OBVIOUS
<1>2. PICK g : /\ IsFlattenOf(g, lists)
               /\ n # 0 => FlattenSeq(lists) = g[n]
  <2>1. \E g : IsFlattenOf(g, lists)
    BY FlattenExists
  <2>2. IsFlattenOf(CHOOSE g : IsFlattenOf(g, lists), lists)
    BY ONLY <2>1, Zenon
  <2>3. n # 0 => FlattenSeq(lists) = (CHOOSE g : IsFlattenOf(g, lists))[n]
    BY <1>1, Zenon DEF FlattenSeq, IsFlattenOf
  <2> QED
    BY <2>2, <2>3
<1>3. PICK h : h = [i \in 0 .. n |-> IF i = 0 THEN <<>> ELSE g[i]]
  OBVIOUS
<1>4. \A i \in 1 .. n : g[i] = IF i = 1 THEN lists[i] ELSE g[i - 1] \o lists[i]
  BY <1>1, <1>2 DEF IsFlattenOf
<1>5. h[0] = <<>>
  BY <1>3
<1>6. ASSUME NEW i \in 1 .. n PROVE h[i] = h[i - 1] \o lists[i]
  <2>1. h[i] = g[i] /\ lists[i] \in Seq(S)
    BY <1>1, <1>3
  <2>2. CASE i = 1
    <3>1. h[i - 1] = <<>>
      BY <1>5, <2>2
    <3>2. <<>> \o lists[i] = lists[i]
      BY <2>1
    <3> QED
      BY <1>4, <2>1, <2>2, <3>1, <3>2
  <2>3. CASE i # 1
    <3>1. h[i - 1] = g[i - 1]
      BY <1>3, <2>3
    <3> QED
      BY <1>4, <2>1, <2>3, <3>1
  <2> QED
    BY <2>2, <2>3
<1>7. FlattenSeq(lists) = h[n]
  <2>1. CASE n = 0
    <3>1. FlattenSeq(lists) = lists /\ lists = <<>>
      BY <1>1, <2>1 DEF FlattenSeq
    <3> QED
      BY <3>1, <1>5, <2>1
  <2>2. CASE n # 0
    BY <1>2, <1>3, <2>2
  <2> QED
    BY <2>1, <2>2
<1> QED
  BY <1>1, <1>5, <1>6, <1>7 DEF Grows

\* What a list grown by appending lists holds, and where.
LEMMA GrowsPlaces ==
  ASSUME NEW S, NEW lists \in Seq(Seq(S)), NEW h, Grows(h, lists)
  PROVE  /\ h[Len(lists)] \in Seq(S)
         /\ \E at : Placed(lists, h[Len(lists)], at)
<1>1. PICK n \in Nat : n = Len(lists) /\ DOMAIN lists = 1 .. n
  OBVIOUS
<1>2. \A s \in 1 .. n : lists[s] \in Seq(S)
  BY <1>1
<1> DEFINE Start(s) == Len(h[s - 1])
           Good(i) ==
             /\ h[i] \in Seq(S)
             /\ \A s \in 1 .. i : /\ Start(s) \in Nat
                                  /\ \A c \in DOMAIN lists[s] :
                                       /\ Start(s) + c \in 1 .. Len(h[i])
                                       /\ h[i][Start(s) + c] = lists[s][c]
             /\ \A j \in 1 .. Len(h[i]) :
                  \E s \in 1 .. i : \E c \in DOMAIN lists[s] : j = Start(s) + c
<1>3. Good(0)
  BY DEF Grows
<1>4. ASSUME NEW i \in 0 .. n - 1, Good(i) PROVE Good(i + 1)
  <2> HIDE DEF Start
  <2>1. PICK x, y, z : x = h[i] /\ y = lists[i + 1] /\ z = h[i + 1]
    OBVIOUS
  <2>2. x \in Seq(S) /\ y \in Seq(S) /\ i + 1 \in 1 .. n
    BY <1>2, <1>4, <2>1
  <2>3. z = x \o y
    <3>1. h[i + 1] = h[(i + 1) - 1] \o lists[i + 1]
      BY <1>1, <2>2 DEF Grows
    <3>2. (i + 1) - 1 = i
      OBVIOUS
    <3> QED
      BY <2>1, <3>1, <3>2
  <2>4. /\ z \in Seq(S) /\ Len(z) = Len(x) + Len(y)
        /\ Len(x) \in Nat /\ Len(y) \in Nat /\ DOMAIN y = 1 .. Len(y)
        /\ \A c \in 1 .. Len(x) : z[c] = x[c]
        /\ \A c \in 1 .. Len(y) : z[Len(x) + c] = y[c]
    BY ONLY <2>2, <2>3
  <2>5. Start(i + 1) = Len(x)
    <3>1. (i + 1) - 1 = i
      OBVIOUS
    <3> QED
      BY <2>1, <3>1 DEF Start
  <2>6. ASSUME NEW s \in 1 .. i + 1
        PROVE  /\ Start(s) \in Nat
               /\ \A c \in DOMAIN lists[s] :
                    /\ Start(s) + c \in 1 .. Len(z)
                    /\ z[Start(s) + c] = lists[s][c]
    <3>1. CASE s = i + 1
      <4>1. \A c \in 1 .. Len(y) : Len(x) + c \in 1 .. Len(z)
        BY <2>4
      <4> QED
        BY <2>1, <2>4, <2>5, <3>1, <4>1
    <3>2. CASE s \in 1 .. i
      <4>1. /\ Start(s) \in Nat
            /\ \A c \in DOMAIN lists[s] :
                 /\ Start(s) + c \in 1 .. Len(x)
                 /\ x[Start(s) + c] = lists[s][c]
        BY <1>4, <2>1, <3>2
      <4>2. 1 .. Len(x) \subseteq 1 .. Len(z)
        BY <2>4
      <4> QED
        BY <2>4, <4>1, <4>2
    <3> QED
      BY <3>1, <3>2
  <2>7. ASSUME NEW j \in 1 .. Len(z)
        PROVE  \E s \in 1 .. i + 1 : \E c \in DOMAIN lists[s] : j = Start(s) + c
    <3>1. CASE j \in 1 .. Len(x)
      <4>1. PICK s \in 1 .. i : \E c \in DOMAIN lists[s] : j = Start(s) + c
        BY <1>4, <2>1, <3>1
      <4> QED
        BY <4>1
    <3>2. CASE j \notin 1 .. Len(x)
      <4>1. PICK c \in 1 .. Len(y) : j = Len(x) + c
        <5>1. j - Len(x) \in 1 .. Len(y) /\ j = Len(x) + (j - Len(x))
          BY <2>4, <3>2
        <5> QED
          BY <5>1
      <4>2. i + 1 \in 1 .. i + 1 /\ c \in DOMAIN lists[i + 1]
        BY <2>1, <2>4, <4>1
      <4> QED
        BY <2>5, <4>1, <4>2
    <3> QED
      BY <3>1, <3>2
  <2> QED
    BY <2>1, <2>4, <2>6, <2>7
<1>5. \A i \in 0 .. n : Good(i)
  <2> DEFINE T == {i \in 0 .. n : Good(i)}
  <2> HIDE DEF Good
  <2>1. 0 \in T
    BY <1>3
  <2>2. \A i \in 0 .. n - 1 : i \in T => i + 1 \in T
    BY <1>4
  <2>3. 0 .. n \subseteq T
    <3> HIDE DEF T
    <3> QED
      BY <2>1, <2>2, InductionUpTo
  <2> QED
    BY <2>3
<1>6. PICK at : at = [s \in 1 .. n |-> Start(s)]
  OBVIOUS
<1>7. \A s \in 1 .. n : at[s] = Start(s)
  BY <1>6
<1>8. PICK flat : flat = h[n]
  OBVIOUS
<1>9. /\ flat \in Seq(S)
      /\ \A s \in 1 .. n : /\ Start(s) \in Nat
                           /\ \A c \in DOMAIN lists[s] :
                                /\ Start(s) + c \in 1 .. Len(flat)
                                /\ flat[Start(s) + c] = lists[s][c]
      /\ \A j \in 1 .. Len(flat) :
           \E s \in 1 .. n : \E c \in DOMAIN lists[s] : j = Start(s) + c
  <2>1. n \in 0 .. n
    OBVIOUS
  <2> HIDE DEF Start
  <2>2. Good(n)
    BY <1>5, <2>1
  <2> QED
    BY <1>8, <2>2
<1>10. ASSUME NEW s \in 1 .. n, NEW t \in 1 .. n, NEW c \in DOMAIN lists[s], s < t
       PROVE  Start(s) + c <= Start(t)
  <2>1. t - 1 \in 0 .. n /\ s \in 1 .. t - 1
    BY <1>10
  <2>2. Start(s) \in Nat /\ Start(s) + c \in 1 .. Len(h[t - 1])
    <3> HIDE DEF Start
    <3>1. Good(t - 1)
      BY <1>5, <2>1
    <3> QED
      BY <2>1, <3>1
  <2> QED
    BY <2>2
<1>11. at \in [1 .. n -> Nat]
  <2> HIDE DEF Start
  <2> QED
    BY <1>6, <1>9
<1>12. DOMAIN flat = 1 .. Len(flat)
  BY <1>9
<1>13. Placed(lists, flat, at)
  <2> HIDE DEF Start
  <2>1. \A s \in 1 .. n : \A c \in DOMAIN lists[s] :
          at[s] + c \in 1 .. Len(flat) /\ flat[at[s] + c] = lists[s][c]
    BY <1>7, <1>9, Zenon
  <2>2. \A j \in 1 .. Len(flat) :
          \E s \in 1 .. n : \E c \in DOMAIN lists[s] : j = at[s] + c
    <3> SUFFICES ASSUME NEW j \in 1 .. Len(flat)
                 PROVE  \E s \in 1 .. n : \E c \in DOMAIN lists[s] : j = at[s] + c
      OBVIOUS
    <3>1. PICK s \in 1 .. n : \E c \in DOMAIN lists[s] : j = Start(s) + c
      BY <1>9, Zenon
    <3>2. \E c \in DOMAIN lists[s] : j = at[s] + c
      BY <1>7, <3>1, Zenon
    <3> QED
      BY <3>2, Zenon
  <2>3. \A s, t \in 1 .. n : \A c \in DOMAIN lists[s] :
          s < t => at[s] + c <= at[t]
    BY <1>7, <1>10, Zenon
  <2> QED
    BY ONLY <1>1, <1>11, <1>12, <2>1, <2>2, <2>3 DEF Placed
<1> QED
  BY <1>1, <1>8, <1>9, <1>13

\* Every element of every list has its place in the flattened list, in order.
LEMMA FlattenPlaces ==
  ASSUME NEW S, NEW lists \in Seq(Seq(S))
  PROVE  /\ FlattenSeq(lists) \in Seq(S)
         /\ \E at : Placed(lists, FlattenSeq(lists), at)
<1>1. PICK h : Grows(h, lists) /\ FlattenSeq(lists) = h[Len(lists)]
  BY FlattenGrows
<1> QED
  BY <1>1, GrowsPlaces


\* Appending three lists is the same whichever two are appended first.
LEMMA JoinAssociates ==
  ASSUME NEW S, NEW x \in Seq(S), NEW y \in Seq(S), NEW z \in Seq(S)
  PROVE  (x \o y) \o z = x \o (y \o z)
<1>1. PICK l : l = (x \o y) \o z
  OBVIOUS
<1>2. PICK r : r = x \o (y \o z)
  OBVIOUS
<1>3. /\ Len(x) \in Nat /\ Len(y) \in Nat /\ Len(z) \in Nat
      /\ x \o y \in Seq(S) /\ y \o z \in Seq(S)
      /\ Len(x \o y) = Len(x) + Len(y) /\ Len(y \o z) = Len(y) + Len(z)
  OBVIOUS
<1>4. /\ l \in Seq(S) /\ Len(l) = Len(x) + Len(y) + Len(z)
      /\ r \in Seq(S) /\ Len(r) = Len(x) + Len(y) + Len(z)
  BY <1>1, <1>2, <1>3
<1>5. ASSUME NEW k \in 1 .. Len(x) + Len(y) + Len(z) PROVE l[k] = r[k]
  <2>1. CASE k \in 1 .. Len(x)
    <3>1. k \in 1 .. Len(x \o y) /\ (x \o y)[k] = x[k]
      BY <1>3, <2>1
    <3>2. l[k] = (x \o y)[k]
      BY <1>1, <1>3, <3>1
    <3>3. r[k] = x[k]
      BY <1>2, <1>3, <2>1
    <3> QED
      BY <3>1, <3>2, <3>3
  <2>2. CASE k \notin 1 .. Len(x) /\ k \in 1 .. Len(x) + Len(y)
    <3>1. k - Len(x) \in 1 .. Len(y) /\ k \in 1 .. Len(x \o y)
      BY <1>3, <2>2
    <3>2. l[k] = (x \o y)[k] /\ (x \o y)[k] = y[k - Len(x)]
      BY <1>1, <1>3, <2>2, <3>1
    <3>3. r[k] = (y \o z)[k - Len(x)] /\ (y \o z)[k - Len(x)] = y[k - Len(x)]
      BY <1>2, <1>3, <2>2, <3>1
    <3> QED
      BY <3>2, <3>3
  <2>3. CASE k \notin 1 .. Len(x) + Len(y)
    <3>1. PICK c \in 1 .. Len(z) : k = (Len(x) + Len(y)) + c
      <4>1. k - (Len(x) + Len(y)) \in 1 .. Len(z)
            /\ k = (Len(x) + Len(y)) + (k - (Len(x) + Len(y)))
        BY <1>3, <2>3
      <4> QED
        BY <4>1
    <3>2. l[k] = z[c]
      BY <1>1, <1>3, <3>1
    <3>3. (y \o z)[Len(y) + c] = z[c] /\ Len(y) + c \in 1 .. Len(y \o z)
          /\ k = Len(x) + (Len(y) + c)
      BY <1>3, <3>1
    <3>4. r[k] = (y \o z)[Len(y) + c]
      BY <1>2, <1>3, <3>3
    <3> QED
      BY <3>2, <3>3, <3>4
  <2> QED
    BY <1>3, <2>1, <2>2, <2>3
<1>6. l = r
  <2>1. PICK n \in Nat : n = Len(x) + Len(y) + Len(z)
    BY <1>3
  <2>2. l \in [1 .. n -> S] /\ r \in [1 .. n -> S]
    BY <1>4, <2>1
  <2> QED
    BY ONLY <1>5, <2>1, <2>2
<1> QED
  BY <1>1, <1>2, <1>6

\* Flattening two lists of lists after each other, or each on its own, is the same.
LEMMA FlattenJoins ==
  ASSUME NEW S, NEW p \in Seq(Seq(S)), NEW q \in Seq(Seq(S))
  PROVE  FlattenSeq(p \o q) = FlattenSeq(p) \o FlattenSeq(q)
<1>1. PICK m \in Nat, n \in Nat :
        m = Len(p) /\ DOMAIN p = 1 .. m /\ n = Len(q) /\ DOMAIN q = 1 .. n
  OBVIOUS
<1>2. PICK pq : pq = p \o q
  OBVIOUS
<1>3. /\ pq \in Seq(Seq(S)) /\ Len(pq) = m + n
      /\ \A k \in 1 .. m : pq[k] = p[k]
      /\ \A k \in 1 .. n : pq[m + k] = q[k]
  <2>1. PICK T : T = Seq(S)
    OBVIOUS
  <2>2. p \in Seq(T) /\ q \in Seq(T)
    BY <2>1
  <2> QED
    BY ONLY <1>1, <1>2, <2>1, <2>2
<1>4. PICK f : Grows(f, p) /\ FlattenSeq(p) = f[m]
  BY <1>1, FlattenGrows
<1>5. PICK g : Grows(g, q) /\ FlattenSeq(q) = g[n]
  BY <1>1, FlattenGrows
<1>6. PICK h : Grows(h, pq) /\ FlattenSeq(pq) = h[m + n]
  BY <1>3, FlattenGrows
<1>7. f[m] \in Seq(S)
  BY <1>1, <1>4, GrowsPlaces
<1>8. h[m] = f[m]
  <2>1. PICK T : T = {k \in 0 .. m : h[k] = f[k]}
    OBVIOUS
  <2>2. 0 \in T
    BY <1>4, <1>6, <2>1 DEF Grows
  <2>3. ASSUME NEW k \in 0 .. m - 1, k \in T PROVE k + 1 \in T
    <3>1. k + 1 \in 1 .. m /\ k + 1 \in 0 .. m /\ k + 1 \in 1 .. m + n
          /\ (k + 1) - 1 = k
      BY <1>1
    <3>2. f[k + 1] = f[k] \o p[k + 1]
      BY <1>1, <1>4, <3>1 DEF Grows
    <3>3. h[k + 1] = h[k] \o pq[k + 1]
      BY <1>3, <1>6, <3>1 DEF Grows
    <3> QED
      BY <1>3, <2>1, <2>3, <3>1, <3>2, <3>3
  <2>4. m \in T
    <3>1. 0 \in Int /\ m \in Int
      OBVIOUS
    <3>2. 0 .. m \subseteq T
      BY <2>2, <2>3, <3>1, InductionUpTo, Zenon
    <3> QED
      BY <3>2
  <2> QED
    BY <2>1, <2>4
<1>9. \A k \in 1 .. n : q[k] \in Seq(S)
  BY <1>1
<1>10. /\ g[n] \in Seq(S)
      /\ h[m + n] = f[m] \o g[n]
  <2>1. PICK T : T = {k \in 0 .. n : g[k] \in Seq(S) /\ h[m + k] = f[m] \o g[k]}
    OBVIOUS
  <2>2. 0 \in T
    <3>1. g[0] = <<>> /\ m + 0 = m /\ 0 \in 0 .. n
      BY <1>5 DEF Grows
    <3>2. f[m] \o <<>> = f[m] /\ <<>> \in Seq(S)
      BY ONLY <1>7
    <3>3. g[0] \in Seq(S) /\ h[m + 0] = f[m] \o g[0]
      BY <1>8, <3>1, <3>2
    <3> QED
      BY <2>1, <3>1, <3>3, Zenon
  <2>3. ASSUME NEW k \in 0 .. n - 1, k \in T PROVE k + 1 \in T
    <3>1. /\ k + 1 \in 1 .. n /\ k + 1 \in 0 .. n /\ (k + 1) - 1 = k
          /\ m + (k + 1) \in 1 .. m + n /\ (m + (k + 1)) - 1 = m + k
      BY <1>1
    <3>2. g[k + 1] = g[k] \o q[k + 1]
      BY <1>1, <1>5, <3>1 DEF Grows
    <3>3. h[m + (k + 1)] = h[m + k] \o q[k + 1]
      <4>1. h[m + (k + 1)] = h[(m + (k + 1)) - 1] \o pq[m + (k + 1)]
        BY <1>3, <1>6, <3>1 DEF Grows
      <4> QED
        BY <1>3, <3>1, <4>1
    <3>4. g[k] \in Seq(S) /\ h[m + k] = f[m] \o g[k]
      BY <2>1, <2>3, Zenon
    <3>5. q[k + 1] \in Seq(S)
      BY <1>9, <3>1, Zenon
    <3>6. (f[m] \o g[k]) \o q[k + 1] = f[m] \o (g[k] \o q[k + 1])
      <4>1. PICK x, y, z : x = f[m] /\ y = g[k] /\ z = q[k + 1]
        OBVIOUS
      <4>2. x \in Seq(S) /\ y \in Seq(S) /\ z \in Seq(S)
        BY <1>7, <3>4, <3>5, <4>1, Zenon
      <4>3. (x \o y) \o z = x \o (y \o z)
        BY ONLY <4>2, JoinAssociates
      <4> QED
        BY <4>1, <4>3, Zenon
    <3>7. g[k] \o q[k + 1] \in Seq(S)
      BY ONLY <3>4, <3>5
    <3>8. g[k + 1] \in Seq(S) /\ h[m + (k + 1)] = f[m] \o g[k + 1]
      BY <3>2, <3>3, <3>4, <3>6, <3>7, Zenon
    <3> QED
      BY <2>1, <3>1, <3>8, Zenon
  <2>4. n \in T
    <3>1. 0 \in Int /\ n \in Int
      OBVIOUS
    <3>2. 0 .. n \subseteq T
      BY <2>2, <2>3, <3>1, InductionUpTo, Zenon
    <3> QED
      BY <3>2
  <2> QED
    BY <2>1, <2>4
<1> QED
  BY <1>2, <1>4, <1>5, <1>6, <1>10

=============================================================================
