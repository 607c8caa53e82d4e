-------------------------- MODULE RoutedKernelsProofs --------------------------
(***************************************************************************)
(* The kernels that build the routing metadata (MoeRouting), and those     *)
(* that follow it, with the portable GEMM (TritonLaunch).                  *)
(*                                                                         *)
(* Routing, for any numbers of tokens, ranks and experts, any block sizes, *)
(* ids and masks, and any number of replays: whatever order the programs   *)
(* of a kernel run in and whatever the buffers held, the call leaves the   *)
(* stable sort, exact counts and a partition into tiles.  Each kernel's    *)
(* progress is said per program: what the programs that have run left, no  *)
(* matter which.  The helpers take the state's values as parameters, so    *)
(* that a step compares two values, never two states.                      *)
(*                                                                         *)
(* The launches, for any shapes, strides, block sizes, routing and width   *)
(* of the offsets: each element of the output has one program that stores  *)
(* it (a writer, named per kernel), which gives it its value from its own  *)
(* inputs; so what is in memory follows from which programs have run.      *)
(*                                                                         *)
(* Sums, searches and the longest expert are recursive functions of the    *)
(* numbers of blocks and experts.  Where one would go by induction over    *)
(* data, the least counterexample is taken: a shortest sum that fails is   *)
(* one element longer than one that holds.                                 *)
(***************************************************************************)
EXTENDS MoeRouting, TritonLaunch, FiniteSetTheorems, WellFoundedInduction, TLAPS

-----------------------------------------------------------------------------
(* The routing of any keys.                                                *)

Keys == [Assignments -> Bins]

LEMMA SlotsType == Slots \in Nat \ {0}
<1>1. Tokens * TopK \in Nat /\ Tokens * TopK > 0
  BY SizeAssumption
<1> QED BY <1>1 DEF Slots

LEMMA AssignmentsFinite == IsFiniteSet(Assignments) /\ Cardinality(Assignments) = Slots
<1>1. IsFiniteSet(0 .. Slots - 1)
      /\ Cardinality(0 .. Slots - 1) = IF 0 > Slots - 1 THEN 0 ELSE Slots - 1 - 0 + 1
  BY SlotsType, FS_Interval
<1> QED BY <1>1, SlotsType DEF Assignments

LEMMA PartFinite ==
  ASSUME NEW S, S \subseteq Assignments
  PROVE  IsFiniteSet(S) /\ Cardinality(S) \in Nat
<1>1. S \in SUBSET Assignments
  OBVIOUS
<1>2. IsFiniteSet(S)
  BY <1>1, AssignmentsFinite, FS_Subset
<1> QED BY <1>2, FS_CardinalityType

LEMMA PartLe ==
  ASSUME NEW S, NEW T, S \subseteq T, T \subseteq Assignments
  PROVE  Cardinality(S) <= Cardinality(T) /\ (Cardinality(S) = Cardinality(T) => S = T)
<1>1. IsFiniteSet(T) /\ S \in SUBSET T
  BY PartFinite
<1>2. IsFiniteSet(S) /\ Cardinality(S) \in Nat /\ Cardinality(T) \in Nat
  BY PartFinite
<1>3. Cardinality(S) <= Cardinality(T) /\ (Cardinality(T) = Cardinality(S) => T = S)
  BY <1>1, FS_Subset
<1> QED BY <1>2, <1>3

LEMMA PartLt ==
  ASSUME NEW S, NEW T, NEW x \in T, S \subseteq T, x \notin S, T \subseteq Assignments
  PROVE  Cardinality(S) < Cardinality(T)
<1>1. Cardinality(S) <= Cardinality(T) /\ (Cardinality(S) = Cardinality(T) => S = T)
  BY PartLe
<1>2. Cardinality(S) \in Nat /\ Cardinality(T) \in Nat
  <2>1. S \subseteq Assignments
    OBVIOUS
  <2> QED BY <2>1, PartFinite
<1> QED BY <1>1, <1>2

-----------------------------------------------------------------------------
(* The stable sort.                                                        *)

Before(key, a) == {b \in Assignments : Precedes(key, b, a)}

LEMMA RankBefore ==
  ASSUME NEW key \in Keys, NEW a
  PROVE  Rank(key, a) = Cardinality(Before(key, a))
BY DEF Rank, Before, Keys

LEMMA KeyOf ==
  ASSUME NEW key \in Keys, NEW a \in Assignments
  PROVE  key[a] \in 0 .. Experts /\ key[a] \in Int /\ a \in Int
BY SizeAssumption, SlotsType DEF Keys, Bins, Assignments

LEMMA Order ==
  ASSUME NEW key \in Keys, NEW a \in Assignments, NEW b \in Assignments, a # b
  PROVE  Precedes(key, a, b) \/ Precedes(key, b, a)
BY KeyOf DEF Precedes

LEMMA RankGrows ==
  ASSUME NEW key \in Keys, NEW a \in Assignments, NEW b \in Assignments,
         Precedes(key, a, b)
  PROVE  Rank(key, a) < Rank(key, b)
<1>1. a \in Before(key, b) /\ a \notin Before(key, a)
  BY KeyOf DEF Before, Precedes
<1>2. Before(key, a) \subseteq Before(key, b)
  BY KeyOf DEF Before, Precedes
<1>3. Before(key, b) \subseteq Assignments
  BY DEF Before
<1>4. Cardinality(Before(key, a)) < Cardinality(Before(key, b))
  BY <1>1, <1>2, <1>3, PartLt
<1> QED BY <1>4, RankBefore

LEMMA RankType ==
  ASSUME NEW key \in Keys, NEW a \in Assignments
  PROVE  Rank(key, a) \in Assignments
<1>1. Before(key, a) \subseteq Assignments /\ a \notin Before(key, a)
  BY KeyOf DEF Before, Precedes
<1>2. Cardinality(Before(key, a)) \in Nat
  BY <1>1, PartFinite
<1>3. Cardinality(Before(key, a)) < Slots
  BY <1>1, PartLt, AssignmentsFinite
<1> QED BY <1>2, <1>3, RankBefore, SlotsType DEF Assignments

LEMMA RankDistinct ==
  ASSUME NEW key \in Keys, NEW a \in Assignments, NEW b \in Assignments,
         Rank(key, a) = Rank(key, b)
  PROVE  a = b
<1>1. Rank(key, a) \in Int
  BY RankType, SlotsType DEF Assignments
<1>2. ASSUME a # b PROVE FALSE
  BY <1>1, <1>2, Order, RankGrows
<1> QED BY <1>2

\* Every place of the sorted order is some assignment's.
LEMMA RankCovers ==
  ASSUME NEW key \in Keys, NEW s \in Assignments
  PROVE  \E a \in Assignments : Rank(key, a) = s
<1> DEFINE f == [a \in Assignments |-> Rank(key, a)]
<1>1. f \in [Assignments -> Assignments]
  BY RankType
<1>2. \A a, b \in Assignments : f[a] = f[b] => a = b
  BY RankDistinct
<1>3. f \in Injection(Assignments, Assignments)
  BY <1>1, <1>2 DEF Injection, IsInjective
<1>4. f \in Surjection(Assignments, Assignments)
  BY <1>3, AssignmentsFinite, FS_Injection
<1> QED BY <1>4 DEF Surjection

LEMMA SortedRank ==
  ASSUME NEW key \in Keys
  PROVE  /\ \A s \in Assignments : Sorted(key)[s] \in Assignments
                                   /\ Rank(key, Sorted(key)[s]) = s
         /\ \A a \in Assignments : Sorted(key)[Rank(key, a)] = a
<1>1. \A s \in Assignments : Sorted(key)[s] \in Assignments /\ Rank(key, Sorted(key)[s]) = s
  BY RankCovers DEF Sorted
<1>2. ASSUME NEW a \in Assignments PROVE Sorted(key)[Rank(key, a)] = a
  BY <1>1, RankType, RankDistinct
<1> QED BY <1>1, <1>2

-----------------------------------------------------------------------------
(* The runs of the experts.                                                *)

With(key, e) == {a \in Assignments : key[a] = e}
Under(key, e) == {a \in Assignments : key[a] < e}

LEMMA CountTypes ==
  ASSUME NEW key \in Keys, NEW e
  PROVE  /\ CountOf(key, e) = Cardinality(With(key, e)) /\ CountOf(key, e) \in Nat
         /\ StartOf(key, e) = Cardinality(Under(key, e)) /\ StartOf(key, e) \in Nat
         /\ CountOf(key, e) <= Slots
<1>1. With(key, e) \subseteq Assignments /\ Under(key, e) \subseteq Assignments
  BY DEF With, Under
<1>2. Cardinality(With(key, e)) <= Slots
  BY <1>1, PartLe, AssignmentsFinite
<1> QED BY <1>1, <1>2, PartFinite DEF CountOf, StartOf, With, Under

LEMMA StartNext ==
  ASSUME NEW key \in Keys, NEW e \in Int
  PROVE  StartOf(key, e + 1) = StartOf(key, e) + CountOf(key, e)
<1>1. Under(key, e + 1) = Under(key, e) \cup With(key, e)
      /\ Under(key, e) \cap With(key, e) = {}
  BY KeyOf DEF Under, With
<1>2. IsFiniteSet(Under(key, e)) /\ IsFiniteSet(With(key, e))
  BY PartFinite DEF Under, With
<1>3. Cardinality(Under(key, e) \cup With(key, e))
        = Cardinality(Under(key, e)) + Cardinality(With(key, e)) - 0
  BY <1>1, <1>2, FS_Union, FS_EmptySet
<1>4. StartOf(key, e + 1) = Cardinality(Under(key, e + 1))
  BY CountTypes
<1>5. /\ StartOf(key, e) = Cardinality(Under(key, e)) /\ StartOf(key, e) \in Nat
      /\ CountOf(key, e) = Cardinality(With(key, e)) /\ CountOf(key, e) \in Nat
  BY CountTypes
<1> QED BY <1>1, <1>3, <1>4, <1>5

LEMMA StartGrows ==
  ASSUME NEW key \in Keys, NEW d \in Int, NEW e \in Int, d <= e
  PROVE  StartOf(key, d) <= StartOf(key, e)
<1>1. Under(key, d) \subseteq Under(key, e) /\ Under(key, e) \subseteq Assignments
  BY KeyOf DEF Under
<1>2. Cardinality(Under(key, d)) <= Cardinality(Under(key, e))
  BY <1>1, PartLe
<1> QED BY <1>2, CountTypes

LEMMA RankInRun ==
  ASSUME NEW key \in Keys, NEW a \in Assignments
  PROVE  /\ StartOf(key, key[a]) <= Rank(key, a)
         /\ Rank(key, a) < StartOf(key, key[a]) + CountOf(key, key[a])
<1> DEFINE e == key[a]
<1>1. e \in Int
  BY KeyOf
<1>2. Under(key, e) \subseteq Before(key, a) /\ Before(key, a) \subseteq Assignments
  BY DEF Under, Before, Precedes
<1>3. Before(key, a) \subseteq Under(key, e + 1) /\ a \in Under(key, e + 1) /\ a \notin Before(key, a)
      /\ Under(key, e + 1) \subseteq Assignments
  BY KeyOf DEF Under, Before, Precedes
<1>4. Cardinality(Under(key, e)) <= Cardinality(Before(key, a))
  BY <1>2, PartLe
<1>5. Cardinality(Before(key, a)) < Cardinality(Under(key, e + 1))
  BY <1>3, PartLt
<1> QED BY <1>1, <1>4, <1>5, RankBefore, CountTypes, StartNext

\* An assignment's key is that of the run its place is in.
LEMMA KeyOfRun ==
  ASSUME NEW key \in Keys, NEW a \in Assignments, NEW e \in Int,
         StartOf(key, e) <= Rank(key, a), Rank(key, a) < StartOf(key, e) + CountOf(key, e)
  PROVE  key[a] = e
<1>1. key[a] \in Int
  BY KeyOf
<1>2. /\ StartOf(key, key[a]) <= Rank(key, a)
      /\ Rank(key, a) < StartOf(key, key[a]) + CountOf(key, key[a])
  BY RankInRun
<1>3. Rank(key, a) \in Int
  BY RankType, SlotsType DEF Assignments
<1>4. StartOf(key, e) \in Nat /\ StartOf(key, key[a]) \in Nat /\ StartOf(key, e + 1) \in Nat
      /\ StartOf(key, key[a] + 1) \in Nat /\ CountOf(key, e) \in Nat /\ CountOf(key, key[a]) \in Nat
  BY CountTypes
<1>5. StartOf(key, e + 1) = StartOf(key, e) + CountOf(key, e)
      /\ StartOf(key, key[a] + 1) = StartOf(key, key[a]) + CountOf(key, key[a])
  BY <1>1, StartNext
<1>6. CASE key[a] < e
  <2>1. key[a] + 1 <= e /\ key[a] + 1 \in Int
    BY <1>1, <1>6
  <2>2. StartOf(key, key[a] + 1) <= StartOf(key, e)
    BY <2>1, StartGrows
  <2> QED BY <2>2, <1>2, <1>3, <1>4, <1>5
<1>7. CASE key[a] > e
  <2>1. e + 1 <= key[a] /\ e + 1 \in Int
    BY <1>1, <1>7
  <2>2. StartOf(key, e + 1) <= StartOf(key, key[a])
    BY <2>1, <1>1, StartGrows
  <2> QED BY <2>2, <1>2, <1>3, <1>4, <1>5
<1> QED BY <1>1, <1>6, <1>7

\* The routed assignments are the sorted prefix.
LEMMA RoutedPrefix ==
  ASSUME NEW key \in Keys
  PROVE  /\ StartOf(key, Experts) = Cardinality(Routed(key)) /\ StartOf(key, Experts) \in Nat
         /\ \A a \in Assignments : a \in Routed(key) <=> Rank(key, a) < StartOf(key, Experts)
<1>1. StartOf(key, Experts) = Cardinality(Routed(key)) /\ StartOf(key, Experts) \in Nat
  BY CountTypes DEF StartOf, Routed
<1>2. ASSUME NEW a \in Assignments
      PROVE  a \in Routed(key) <=> Rank(key, a) < StartOf(key, Experts)
  <2>1. key[a] \in Int /\ key[a] <= Experts /\ Experts \in Int
    BY KeyOf, SizeAssumption
  <2>2. /\ StartOf(key, key[a]) <= Rank(key, a)
        /\ Rank(key, a) < StartOf(key, key[a]) + CountOf(key, key[a])
    BY RankInRun
  <2>3. Rank(key, a) \in Int
    BY RankType, SlotsType DEF Assignments
  <2>4. StartOf(key, key[a]) \in Nat /\ CountOf(key, key[a]) \in Nat
    BY CountTypes
  <2>5. CASE key[a] < Experts
    <3>1. key[a] + 1 <= Experts
      BY <2>1, <2>5
    <3>2. StartOf(key, key[a] + 1) <= StartOf(key, Experts)
      BY <2>1, <3>1, StartGrows
    <3>3. StartOf(key, key[a] + 1) = StartOf(key, key[a]) + CountOf(key, key[a])
      BY <2>1, StartNext
    <3> QED BY <1>1, <2>2, <2>3, <2>4, <2>5, <3>2, <3>3 DEF Routed
  <2>6. CASE key[a] = Experts
    BY <1>1, <2>1, <2>2, <2>3, <2>6 DEF Routed
  <2> QED BY <2>1, <2>5, <2>6
<1> QED BY <1>1, <1>2

LEMMA EffectiveKeys ==
  ASSUME NEW id, NEW enabled
  PROVE  EffectiveIds(id, enabled) \in Keys
BY SizeAssumption DEF EffectiveIds, Keys, Bins, InRange, ExpertSet

-----------------------------------------------------------------------------
(* Arithmetic.                                                             *)

LEMMA Modulo ==
  ASSUME NEW s \in Nat, NEW d \in Nat \ {0}
  PROVE  s \div d \in Nat /\ s % d \in 0 .. d - 1 /\ s = (s \div d) * d + (s % d)
<1>1. s \div d \in Int /\ s % d \in 0 .. d - 1
  OBVIOUS
<1>2. s = d * (s \div d) + (s % d)
  OBVIOUS
<1>3. \A q \in Int, r \in 0 .. d - 1 : s = d * q + r => q >= 0 /\ d * q = q * d
  OBVIOUS
<1> QED BY <1>1, <1>2, <1>3

LEMMA Division ==
  ASSUME NEW d \in Nat \ {0}, NEW q \in Nat, NEW r \in 0 .. d - 1, NEW s, s = q * d + r
  PROVE  s \in Nat /\ s \div d = q /\ s % d = r
<1>1. s \in Nat
  <2>1. q * d \in Nat
    OBVIOUS
  <2> QED BY <2>1
<1>2. s \div d \in Nat /\ s % d \in 0 .. d - 1 /\ s = (s \div d) * d + (s % d)
  BY <1>1, Modulo
<1>3. PICK p, x : p = s \div d /\ x = s % d
  OBVIOUS
<1>4. p \in Int /\ x \in 0 .. d - 1 /\ q * d + r = p * d + x
  BY <1>2, <1>3
<1>5. q = p
  BY ONLY <1>4, d \in Nat \ {0}, q \in Nat, r \in 0 .. d - 1
<1>6. r = x
  BY <1>4, <1>5
<1> QED BY <1>1, <1>3, <1>5, <1>6

LEMMA Multiples ==
  ASSUME NEW d \in Nat \ {0}, NEW p \in Nat, NEW q \in Nat, p * d < q * d + d
  PROVE  p * d <= q * d
<1>1. CASE p <= q
  BY <1>1
<1>2. CASE q < p
  <2>1. PICK m \in Nat : p = q + 1 + m
    <3>1. p - q - 1 \in Nat /\ p = q + 1 + (p - q - 1)
      BY <1>2
    <3> QED BY <3>1
  <2>2. (q + 1 + m) * d = q * d + d + m * d /\ m * d \in Nat /\ q * d \in Nat
    OBVIOUS
  <2> QED BY <2>1, <2>2
<1> QED BY <1>1, <1>2

LEMMA Multiply ==
  ASSUME NEW d \in Nat \ {0}, NEW p \in Nat, NEW q \in Nat
  PROVE  /\ p * d \in Nat /\ (p + 1) * d = p * d + d
         /\ (p <= q => p * d <= q * d) /\ (p * d < q * d => p < q)
<1>1. p * d \in Nat /\ q * d \in Nat /\ (p + 1) * d = p * d + d
  OBVIOUS
<1>2. ASSUME NEW x \in Nat, NEW y \in Nat, x <= y PROVE x * d <= y * d
  <2>1. PICK m \in Nat : y = x + m
    <3>1. y - x \in Nat /\ y = x + (y - x)
      BY <1>2
    <3> QED BY <3>1
  <2>2. (x + m) * d = x * d + m * d /\ m * d \in Nat /\ x * d \in Nat
    OBVIOUS
  <2> QED BY <2>1, <2>2
<1>3. p <= q => p * d <= q * d
  BY <1>2
<1>4. q <= p => q * d <= p * d
  BY <1>2
<1> QED BY <1>1, <1>3, <1>4

\* The blocks of size d that n elements take.
LEMMA CeilDivIs ==
  ASSUME NEW n \in Nat, NEW d \in Nat \ {0}
  PROVE  /\ CeilDiv(n, d) \in Nat /\ n <= CeilDiv(n, d) * d /\ CeilDiv(n, d) * d < n + d
         /\ (n # 0 => CeilDiv(n, d) # 0)
         /\ \A x \in 0 .. n - 1 : x \div d \in 0 .. CeilDiv(n, d) - 1
<1>1. n + d - 1 \in Nat
  OBVIOUS
<1>2. PICK c, r : c = (n + d - 1) \div d /\ r = (n + d - 1) % d
  OBVIOUS
<1>3. c \in Nat /\ r \in 0 .. d - 1 /\ n + d - 1 = c * d + r /\ c * d \in Nat
  <2>1. c \in Nat /\ r \in 0 .. d - 1 /\ n + d - 1 = c * d + r
    BY <1>1, <1>2, Modulo
  <2> QED BY <2>1, Multiply
<1>4. CeilDiv(n, d) = c
  BY <1>2 DEF CeilDiv
<1>5. n <= c * d /\ c * d < n + d
  BY <1>3
<1>6. ASSUME n # 0 PROVE c # 0
  <2>1. 0 * d = 0
    OBVIOUS
  <2> QED BY <1>5, <1>6, <2>1
<1>7. ASSUME NEW x \in 0 .. n - 1 PROVE x \div d \in 0 .. c - 1
  <2>0. x \in Nat
    OBVIOUS
  <2>1. x \div d \in Nat /\ x % d \in 0 .. d - 1 /\ x = (x \div d) * d + (x % d)
    BY <2>0, Modulo
  <2>2. PICK p, y : p = x \div d /\ y = x % d
    OBVIOUS
  <2>3. p \in Nat /\ p * d \in Nat /\ p * d <= x
    BY <2>1, <2>2, Multiply
  <2>4. p * d < c * d
    BY <1>5, <1>3, <2>3
  <2>5. p < c
    BY <1>3, <2>3, <2>4, Multiply
  <2> QED BY <1>3, <2>2, <2>3, <2>5
<1> QED BY <1>3, <1>4, <1>5, <1>6, <1>7

-----------------------------------------------------------------------------
(* Sums.                                                                   *)

\* A set of numbers has a least one.
LEMMA LeastOf ==
  ASSUME NEW S, S \subseteq Nat, S # {}
  PROVE  \E m \in S : \A k \in S : m <= k
<1> DEFINE R == OpToRel(<, Nat)
<1>1. IsWellFoundedOn(R, Nat)
  BY NatLessThanWellFounded
<1> HIDE DEF R
<1>2. \E m \in S : \A k \in S : ~(<<k, m>> \in R)
  BY <1>1, WFMin, Zenon
<1>3. \A k, m \in Nat : k < m => <<k, m>> \in R
  BY DEF R, OpToRel
<1>4. PICK m \in S : \A k \in S : ~(<<k, m>> \in R)
  BY <1>2
<1>5. ASSUME NEW k \in S PROVE m <= k
  <2>1. ~(k < m)
    BY <1>3, <1>4, Zenon
  <2> QED BY <2>1
<1> QED BY <1>5

\* So what holds at 0, and at n + 1 if at n, holds: a set that has 0 and the
\* successor of each of its numbers has them all.
LEMMA AllOf ==
  ASSUME NEW S, 0 \in S, \A k \in Nat : k \in S => k + 1 \in S
  PROVE  Nat \subseteq S
<1> DEFINE F == Nat \ S
<1> SUFFICES ASSUME F # {} PROVE FALSE
  OBVIOUS
<1>1. PICK m \in F : \A k \in F : m <= k
  BY LeastOf
<1>2. m # 0 /\ m - 1 \in Nat
  BY <1>1
<1>3. m - 1 \in S
  BY <1>1, <1>2
<1>4. m - 1 + 1 = m
  BY <1>2
<1> QED BY <1>1, <1>2, <1>3, <1>4

Summing(sum, f, n) == sum = [i \in 0 .. n |-> IF i = 0 THEN 0 ELSE sum[i - 1] + f[i - 1]]

LEMMA SumExists ==
  ASSUME NEW f, NEW n \in Nat
  PROVE  \E sum : Summing(sum, f, n)
<1> DEFINE S == {k \in Nat : \E sum : Summing(sum, f, k)}
<1>1. 0 \in S
  <2>1. Summing([i \in 0 .. 0 |-> 0], f, 0)
    BY DEF Summing
  <2> QED BY <2>1
<1>2. ASSUME NEW k \in Nat, k \in S PROVE k + 1 \in S
  <2>1. PICK g : Summing(g, f, k)
    BY <1>2
  <2> DEFINE h == [i \in 0 .. k + 1 |-> IF i = k + 1 THEN g[k] + f[k] ELSE g[i]]
             r == [i \in 0 .. k + 1 |-> IF i = 0 THEN 0 ELSE h[i - 1] + f[i - 1]]
  <2>2. ASSUME NEW i \in 0 .. k + 1 PROVE h[i] = r[i]
    <3>1. CASE i = k + 1
      <4>1. i - 1 = k /\ k \in 0 .. k + 1 /\ i # 0 /\ k # k + 1
        BY <3>1
      <4>2. h[i] = g[k] + f[k] /\ h[k] = g[k]
        BY <3>1, <4>1
      <4> QED BY <4>1, <4>2
    <3>2. CASE i # k + 1
      <4>1. i \in 0 .. k /\ i # k + 1 /\ (i # 0 => i - 1 \in 0 .. k + 1 /\ i - 1 # k + 1)
        BY <3>2
      <4>2. g[i] = IF i = 0 THEN 0 ELSE g[i - 1] + f[i - 1]
        BY <2>1, <4>1 DEF Summing
      <4>3. h[i] = g[i] /\ (i # 0 => h[i - 1] = g[i - 1])
        BY <4>1
      <4> QED BY <4>2, <4>3
    <3> QED BY <3>1, <3>2
  <2>3. h = r
    <3>1. h = [i \in 0 .. k + 1 |-> h[i]] /\ r = [i \in 0 .. k + 1 |-> r[i]]
      OBVIOUS
    <3> HIDE DEF h, r
    <3> QED BY <2>2, <3>1
  <2>4. Summing(h, f, k + 1)
    <3> HIDE DEF h
    <3> QED BY <2>3 DEF Summing
  <2> QED BY <2>4
<1> HIDE DEF S
<1>3. Nat \subseteq S
  BY <1>1, <1>2, AllOf
<1> QED BY <1>3 DEF S

LEMMA SumsAgree ==
  ASSUME NEW f, NEW n \in Nat, NEW m \in Nat, n <= m, NEW s, NEW t, Summing(s, f, n), Summing(t, f, m)
  PROVE  \A i \in 0 .. n : s[i] = t[i]
<1> DEFINE S == {i \in Nat : i <= n => s[i] = t[i]}
<1>1. 0 \in S
  BY DEF Summing
<1>2. ASSUME NEW k \in Nat, k \in S PROVE k + 1 \in S
  <2> SUFFICES ASSUME k + 1 <= n PROVE s[k + 1] = t[k + 1]
    OBVIOUS
  <2>1. k + 1 \in 0 .. n /\ k + 1 \in 0 .. m /\ k + 1 # 0 /\ k + 1 - 1 = k
    OBVIOUS
  <2>2. s[k + 1] = s[k] + f[k] /\ t[k + 1] = t[k] + f[k]
    BY <2>1 DEF Summing
  <2>3. s[k] = t[k]
    BY <1>2
  <2> QED BY <2>2, <2>3
<1> HIDE DEF S
<1>3. Nat \subseteq S
  BY <1>1, <1>2, AllOf
<1> QED BY <1>3 DEF S

LEMMA PrefixOf ==
  ASSUME NEW f, NEW n \in Nat
  PROVE  Prefix(f, 0) = 0 /\ Prefix(f, n + 1) = Prefix(f, n) + f[n]
<1>1. ASSUME NEW k \in Nat
      PROVE  \E s : Summing(s, f, k) /\ Prefix(f, k) = s[k]
  <2> DEFINE s == CHOOSE sum : Summing(sum, f, k)
  <2>1. Summing(s, f, k)
    BY SumExists
  <2>2. Prefix(f, k) = s[k]
    BY DEF Prefix, Summing
  <2> QED BY <2>1, <2>2
<1>2. PICK z : Summing(z, f, 0) /\ Prefix(f, 0) = z[0]
  BY <1>1
<1>3. PICK s : Summing(s, f, n) /\ Prefix(f, n) = s[n]
  BY <1>1
<1>4. n + 1 \in Nat
  OBVIOUS
<1>5. PICK t : Summing(t, f, n + 1) /\ Prefix(f, n + 1) = t[n + 1]
  BY <1>1, <1>4
<1>6. z[0] = 0
  BY <1>2 DEF Summing
<1>7. s[n] = t[n]
  <2>1. n <= n + 1 /\ n \in 0 .. n
    OBVIOUS
  <2> QED BY <1>3, <1>4, <1>5, <2>1, SumsAgree
<1>8. t[n + 1] = t[n] + f[n]
  <2>1. n + 1 \in 0 .. n + 1 /\ n + 1 # 0 /\ n + 1 - 1 = n
    OBVIOUS
  <2> QED BY <1>5, <2>1 DEF Summing
<1> QED BY <1>2, <1>3, <1>5, <1>6, <1>7, <1>8

\* The sizes of the parts below n add up to the size of all of them.
LEMMA PrefixCounts ==
  ASSUME NEW S, IsFiniteSet(S), NEW part, \A a \in S : part[a] \in Nat, NEW f, NEW n \in Nat,
         \A i \in 0 .. n - 1 : f[i] = Cardinality({a \in S : part[a] = i})
  PROVE  Prefix(f, n) = Cardinality({a \in S : part[a] < n})
<1> DEFINE Below(k) == {a \in S : part[a] < k}
           At(k) == {a \in S : part[a] = k}
           G == {k \in Nat : k <= n => Prefix(f, k) = Cardinality(Below(k))}
<1>1. 0 \in G
  <2>1. Below(0) = {}
    OBVIOUS
  <2> QED BY <2>1, PrefixOf, FS_EmptySet
<1>2. ASSUME NEW k \in Nat, k \in G PROVE k + 1 \in G
  <2> SUFFICES ASSUME k + 1 <= n PROVE Prefix(f, k + 1) = Cardinality(Below(k + 1))
    OBVIOUS
  <2>1. Prefix(f, k + 1) = Prefix(f, k) + f[k]
    BY PrefixOf
  <2>2. Prefix(f, k) = Cardinality(Below(k)) /\ f[k] = Cardinality(At(k))
    <3>1. k \in 0 .. n - 1 /\ k <= n
      OBVIOUS
    <3> QED BY <1>2, <3>1
  <2>3. Below(k) \cup At(k) = Below(k + 1) /\ Below(k) \cap At(k) = {}
    OBVIOUS
  <2>4. IsFiniteSet(Below(k)) /\ IsFiniteSet(At(k))
    <3>1. Below(k) \in SUBSET S /\ At(k) \in SUBSET S
      OBVIOUS
    <3> QED BY <3>1, FS_Subset
  <2>5. Cardinality(Below(k) \cup At(k)) = Cardinality(Below(k)) + Cardinality(At(k)) - 0
    BY <2>3, <2>4, FS_Union, FS_EmptySet
  <2>6. Cardinality(Below(k)) \in Nat /\ Cardinality(At(k)) \in Nat
    BY <2>4, FS_CardinalityType
  <2>7. Cardinality(Below(k) \cup At(k)) = Cardinality(Below(k + 1))
    BY <2>3
  <2> HIDE DEF Below, At
  <2> QED BY ONLY <2>1, <2>2, <2>5, <2>6, <2>7
<1> HIDE DEF G
<1>3. n \in G
  BY <1>1, <1>2, AllOf
<1> QED BY <1>3 DEF G

\* A sum of natural numbers grows, and depends on the values it adds only.
LEMMA PrefixGrows ==
  ASSUME NEW f, NEW n \in Nat, \A i \in 0 .. n - 1 : f[i] \in Nat
  PROVE  /\ Prefix(f, n) \in Nat
         /\ \A i, j \in 0 .. n : i <= j => Prefix(f, i) \in Nat /\ Prefix(f, i) <= Prefix(f, j)
<1> DEFINE G == {k \in Nat : k <= n => /\ Prefix(f, k) \in Nat
                                       /\ \A i \in 0 .. k : Prefix(f, i) \in Nat /\ Prefix(f, i) <= Prefix(f, k)}
<1>1. 0 \in G
  <2>1. Prefix(f, 0) = 0
    BY PrefixOf
  <2> QED BY <2>1
<1>2. ASSUME NEW k \in Nat, k \in G PROVE k + 1 \in G
  <2> SUFFICES ASSUME k + 1 <= n
               PROVE  /\ Prefix(f, k + 1) \in Nat
                      /\ \A i \in 0 .. k + 1 :
                           Prefix(f, i) \in Nat /\ Prefix(f, i) <= Prefix(f, k + 1)
    OBVIOUS
  <2>1. Prefix(f, k + 1) = Prefix(f, k) + f[k]
    BY PrefixOf
  <2>2. f[k] \in Nat
    <3>1. k \in 0 .. n - 1
      OBVIOUS
    <3> QED BY <3>1
  <2>3. Prefix(f, k) \in Nat /\ \A i \in 0 .. k : Prefix(f, i) \in Nat /\ Prefix(f, i) <= Prefix(f, k)
    BY <1>2
  <2>4. ASSUME NEW i \in 0 .. k + 1
        PROVE  Prefix(f, i) \in Nat /\ Prefix(f, i) <= Prefix(f, k + 1)
    <3>1. CASE i = k + 1
      BY <2>1, <2>2, <2>3, <3>1
    <3>2. CASE i # k + 1
      <4>1. i \in 0 .. k
        BY <3>2
      <4>2. Prefix(f, i) \in Nat /\ Prefix(f, i) <= Prefix(f, k)
        BY <2>3, <4>1
      <4> QED BY ONLY <2>1, <2>2, <2>3, <4>2
    <3> QED BY <3>1, <3>2
  <2> QED BY <2>1, <2>2, <2>3, <2>4
<1> HIDE DEF G
<1>3. Nat \subseteq G
  BY <1>1, <1>2, AllOf
<1> QED BY <1>3 DEF G

LEMMA PrefixSame ==
  ASSUME NEW f, NEW g, NEW n \in Nat, \A i \in 0 .. n - 1 : f[i] = g[i]
  PROVE  Prefix(f, n) = Prefix(g, n)
<1> DEFINE G == {k \in Nat : k <= n => Prefix(f, k) = Prefix(g, k)}
<1>1. 0 \in G
  BY PrefixOf
<1>2. ASSUME NEW k \in Nat, k \in G PROVE k + 1 \in G
  <2> SUFFICES ASSUME k + 1 <= n PROVE Prefix(f, k + 1) = Prefix(g, k + 1)
    OBVIOUS
  <2>1. k \in 0 .. n - 1 /\ k <= n
    OBVIOUS
  <2>2. Prefix(f, k + 1) = Prefix(f, k) + f[k] /\ Prefix(g, k + 1) = Prefix(g, k) + g[k]
    BY PrefixOf
  <2>3. f[k] = g[k] /\ Prefix(f, k) = Prefix(g, k)
    BY <1>2, <2>1
  <2> QED BY <2>2, <2>3
<1> HIDE DEF G
<1>3. n \in G
  BY <1>1, <1>2, AllOf
<1> QED BY <1>3 DEF G

LEMMA KeySums ==
  ASSUME NEW key \in Keys, NEW f, NEW e \in Bins,
         \A x \in ExpertSet : f[x] = CountOf(key, x)
  PROVE  Prefix(f, e) = StartOf(key, e)
<1>1. \A a \in Assignments : key[a] \in Nat
  BY KeyOf, SizeAssumption
<1>2. e \in Nat /\ \A i \in 0 .. e - 1 : i \in ExpertSet
  BY SizeAssumption DEF Bins, ExpertSet
<1>3. \A i \in 0 .. e - 1 : f[i] = Cardinality({a \in Assignments : key[a] = i})
  BY <1>2 DEF CountOf
<1>4. Prefix(f, e) = Cardinality({a \in Assignments : key[a] < e})
  BY <1>1, <1>2, <1>3, AssignmentsFinite, PrefixCounts
<1> QED BY <1>4 DEF StartOf

-----------------------------------------------------------------------------
(* The tiles of h rows that the experts take.                              *)

TileRoom(h) == CeilDiv(Slots, h) + Experts
TileCount(w, e, h) == CeilDiv(CountOf(w, e), h)
TilesUnder(w, e, h) == Prefix([x \in ExpertSet |-> TileCount(w, x, h)], e)

LEMMA TilesUnderAre ==
  ASSUME NEW w \in Keys, NEW h \in Nat \ {0}
  PROVE  /\ TilesUnder(w, 0, h) = 0
         /\ \A e \in Bins : TilesUnder(w, e, h) \in Nat
         /\ \A e \in ExpertSet : /\ TileCount(w, e, h) \in Nat
                                 /\ TilesUnder(w, e + 1, h) = TilesUnder(w, e, h) + TileCount(w, e, h)
         /\ \A d, e \in Bins : d <= e => TilesUnder(w, d, h) <= TilesUnder(w, e, h)
<1> DEFINE f == [x \in ExpertSet |-> TileCount(w, x, h)]
<1>1. \A e \in ExpertSet : TileCount(w, e, h) \in Nat
  BY CountTypes, SizeAssumption, SlotsType, CeilDivIs DEF TileCount
<1>2. \A i \in 0 .. Experts - 1 : f[i] \in Nat
  BY <1>1 DEF ExpertSet
<1>3. ASSUME NEW e \in ExpertSet PROVE TilesUnder(w, e + 1, h) = TilesUnder(w, e, h) + TileCount(w, e, h)
  <2>1. e \in Nat /\ f[e] = TileCount(w, e, h)
    BY SizeAssumption, SlotsType DEF ExpertSet
  <2> HIDE DEF f
  <2> QED BY <2>1, PrefixOf DEF TilesUnder, f
<1>4. TilesUnder(w, 0, h) = 0
  BY PrefixOf DEF TilesUnder
<1>5. \A d, e \in 0 .. Experts : d <= e => Prefix(f, d) \in Nat /\ Prefix(f, d) <= Prefix(f, e)
  <2> HIDE DEF f
  <2> QED BY <1>2, SizeAssumption, SlotsType, PrefixGrows
<1>6. \A e \in 0 .. Experts : e <= e
  BY SizeAssumption, SlotsType
<1> QED BY <1>1, <1>3, <1>4, <1>5, <1>6 DEF TilesUnder, Bins

\* The fixed number of tiles is enough for any counts.
LEMMA TilesSuffice ==
  ASSUME NEW w \in Keys, NEW h \in Nat \ {0}
  PROVE  TilesUnder(w, Experts, h) <= TileRoom(h) /\ TileRoom(h) \in Nat \ {0}
<1> DEFINE G == {e \in Nat : e <= Experts =>
                   TilesUnder(w, e, h) * h <= StartOf(w, e) + e * h}
<1>1. 0 \in G
  <2>1. TilesUnder(w, 0, h) = 0 /\ 0 * h = 0 /\ StartOf(w, 0) \in Nat
    BY TilesUnderAre, CountTypes, SizeAssumption, SlotsType
  <2> QED BY <2>1
<1>2. ASSUME NEW e \in Nat, e \in G PROVE e + 1 \in G
  <2> SUFFICES ASSUME e + 1 <= Experts
               PROVE  TilesUnder(w, e + 1, h) * h <= StartOf(w, e + 1) + (e + 1) * h
    OBVIOUS
  <2>1. e \in ExpertSet /\ e \in Bins
    BY SizeAssumption, SlotsType DEF ExpertSet, Bins
  <2>2. PICK b, p, q, c, s : /\ b = h /\ p = TilesUnder(w, e, h) /\ q = TileCount(w, e, h)
                             /\ c = CountOf(w, e) /\ s = StartOf(w, e)
    OBVIOUS
  <2>3. b \in Nat \ {0} /\ p \in Nat /\ q \in Nat /\ c \in Nat /\ s \in Nat
    BY <2>1, <2>2, SizeAssumption, SlotsType, TilesUnderAre, CountTypes
  <2>4. TilesUnder(w, e + 1, h) = p + q /\ StartOf(w, e + 1) = s + c
    <3>1. e \in Int
      OBVIOUS
    <3> QED BY <2>1, <2>2, <3>1, TilesUnderAre, StartNext
  <2>5. q * b < c + b
    BY <2>2, <2>3, CeilDivIs DEF TileCount
  <2>6. p * b <= s + e * b
    <3>1. e <= Experts
      BY SizeAssumption, SlotsType
    <3> QED BY <1>2, <2>2, <3>1
  <2>7. (p + q) * b = p * b + q * b /\ (e + 1) * b = e * b + b
        /\ p * b \in Nat /\ q * b \in Nat /\ e * b \in Nat
    BY <2>3
  <2> QED BY <2>2, <2>3, <2>4, <2>5, <2>6, <2>7
<1> HIDE DEF G
<1>3. Experts \in G
  BY <1>1, <1>2, SizeAssumption, SlotsType, AllOf
<1>4. PICK b, p, m : b = h /\ p = TilesUnder(w, Experts, h) /\ m = CeilDiv(Slots, h)
  OBVIOUS
<1>5. b \in Nat \ {0} /\ p \in Nat /\ m \in Nat /\ Slots <= m * b
  <2>1. Experts \in Bins
    BY SizeAssumption, SlotsType DEF Bins
  <2> QED BY <1>4, <2>1, SizeAssumption, SlotsType, TilesUnderAre, CeilDivIs
<1>6. p * b <= StartOf(w, Experts) + Experts * b
  BY <1>3, <1>4, SizeAssumption, SlotsType DEF G
<1>7. StartOf(w, Experts) \in Nat /\ StartOf(w, Experts) <= Slots
  <2>1. Routed(w) \subseteq Assignments
    BY DEF Routed
  <2> QED BY <2>1, RoutedPrefix, PartLe, AssignmentsFinite
<1>8. p <= m + Experts
  <2>1. (m + Experts) * b = m * b + Experts * b /\ p * b \in Nat /\ m * b \in Nat /\ Experts * b \in Nat
        /\ m + Experts \in Nat /\ (m + Experts) * b \in Nat
    BY <1>5, SizeAssumption, SlotsType
  <2>2. p * b <= (m + Experts) * b
    BY <1>5, <1>6, <1>7, <2>1, SizeAssumption, SlotsType
  <2>3. m + Experts < p => (m + Experts) * b < p * b
    <3>1. ASSUME m + Experts < p PROVE (m + Experts) * b < p * b
      <4>1. m + Experts + 1 <= p /\ m + Experts + 1 \in Nat
        BY <1>5, <2>1, <3>1
      <4>2. (m + Experts + 1) * b <= p * b
        BY <1>5, <4>1, Multiply
      <4>3. (m + Experts + 1) * b = (m + Experts) * b + b
        BY <1>5, <2>1, Multiply
      <4> QED BY <1>5, <2>1, <4>2, <4>3
    <3> QED BY <3>1
  <2> QED BY <1>5, <2>1, <2>2, <2>3
<1> QED BY <1>4, <1>5, <1>8, SizeAssumption, SlotsType DEF TileRoom

\* Runs of slots, or of tiles, of two experts do not meet.
LEMMA OneOwner ==
  ASSUME NEW w \in Keys, NEW h \in Nat \ {0}, NEW s \in Int, NEW d \in ExpertSet, NEW e \in ExpertSet,
         \/ /\ StartOf(w, d) <= s /\ s < StartOf(w, d + 1)
            /\ StartOf(w, e) <= s /\ s < StartOf(w, e + 1)
         \/ /\ TilesUnder(w, d, h) <= s /\ s < TilesUnder(w, d + 1, h)
            /\ TilesUnder(w, e, h) <= s /\ s < TilesUnder(w, e + 1, h)
  PROVE  d = e
<1>1. /\ d \in Int /\ e \in Int /\ d + 1 \in Int /\ e + 1 \in Int
      /\ {d, e, d + 1, e + 1} \subseteq Bins
  BY SizeAssumption, SlotsType DEF ExpertSet, Bins
<1>2. /\ {StartOf(w, d), StartOf(w, e), StartOf(w, d + 1), StartOf(w, e + 1)} \subseteq Nat
      /\ {TilesUnder(w, d, h), TilesUnder(w, e, h), TilesUnder(w, d + 1, h), TilesUnder(w, e + 1, h)}
           \subseteq Nat
  BY <1>1, CountTypes, TilesUnderAre
<1>3. ~(d < e)
  <2> SUFFICES ASSUME d < e PROVE FALSE
    OBVIOUS
  <2>1. d + 1 <= e
    BY <1>1
  <2>2. StartOf(w, d + 1) <= StartOf(w, e) /\ TilesUnder(w, d + 1, h) <= TilesUnder(w, e, h)
    BY <1>1, <2>1, StartGrows, TilesUnderAre
  <2> QED BY <1>2, <2>2
<1>4. ~(e < d)
  <2> SUFFICES ASSUME e < d PROVE FALSE
    OBVIOUS
  <2>1. e + 1 <= d
    BY <1>1
  <2>2. StartOf(w, e + 1) <= StartOf(w, d) /\ TilesUnder(w, e + 1, h) <= TilesUnder(w, d, h)
    BY <1>1, <2>1, StartGrows, TilesUnderAre
  <2> QED BY <1>2, <2>2
<1> QED BY <1>1, <1>3, <1>4

\* Every slot of an expert is in one of its tiles.
LEMMA SlotInTile ==
  ASSUME NEW w \in Keys, NEW h \in Nat \ {0}, NEW e \in ExpertSet, NEW s \in Int,
         StartOf(w, e) <= s, s < StartOf(w, e + 1)
  PROVE  \E t \in 0 .. TileRoom(h) - 1 :
           /\ TilesUnder(w, e, h) <= t /\ t < TilesUnder(w, e + 1, h) /\ t < TilesUnder(w, Experts, h)
           /\ StartOf(w, e) + (t - TilesUnder(w, e, h)) * h <= s
           /\ s < StartOf(w, e) + (t - TilesUnder(w, e, h)) * h + h
<1>1. /\ e \in Int /\ e + 1 \in Bins /\ e \in Bins /\ Experts \in Bins /\ e + 1 <= Experts
  BY SizeAssumption, SlotsType DEF ExpertSet, Bins
<1>2. PICK b, p, q, c, o : /\ b = h /\ p = TilesUnder(w, e, h) /\ q = TileCount(w, e, h)
                           /\ c = CountOf(w, e) /\ o = StartOf(w, e)
  OBVIOUS
<1>3. /\ b \in Nat \ {0} /\ p \in Nat /\ q \in Nat /\ c \in Nat /\ o \in Nat
      /\ TilesUnder(w, e + 1, h) = p + q /\ StartOf(w, e + 1) = o + c
  BY <1>1, <1>2, SizeAssumption, SlotsType, TilesUnderAre, CountTypes, StartNext
<1>4. s - o \in 0 .. c - 1 /\ s - o \in Nat
  BY <1>2, <1>3
<1>5. PICK i, r : i = (s - o) \div b /\ r = (s - o) % b
  OBVIOUS
<1>6. i \in 0 .. q - 1
  BY <1>2, <1>3, <1>4, <1>5, CeilDivIs DEF TileCount
<1>7. r \in 0 .. b - 1 /\ s - o = i * b + r
  BY <1>3, <1>4, <1>5, Modulo
<1>8. p + i < TilesUnder(w, Experts, h) /\ TilesUnder(w, Experts, h) <= TileRoom(h)
      /\ TilesUnder(w, Experts, h) \in Nat /\ TileRoom(h) \in Nat
  BY <1>1, <1>3, <1>6, TilesUnderAre, TilesSuffice
<1>9. p + i \in 0 .. TileRoom(h) - 1
  BY <1>3, <1>6, <1>8 
<1>10. p + i - p = i /\ i * b \in Int
  BY <1>3, <1>6
<1>11. o + i * b <= s /\ s < o + i * b + b
  BY <1>3, <1>7, <1>10
<1> QED BY <1>2, <1>3, <1>6, <1>8, <1>9, <1>10, <1>11

-----------------------------------------------------------------------------
(* The blocks of a kernel.                                                 *)

LEMMA Sizes ==
  /\ Experts \in Nat \ {0} /\ Slots \in Nat \ {0}
  /\ Chunk \in Nat \ {0} /\ KeyBlock \in Nat \ {0} /\ BlockM \in Nat \ {0} /\ TileBlock \in Nat \ {0}
  /\ Calls \in Nat \ {0} /\ 2 ^ Width \in Nat /\ Experts < 2 ^ Width
BY SizeAssumption, ShapeAssumption, SlotsType

SizeOf(c) == IF c THEN Chunk ELSE KeyBlock
BlocksOf(c) == 0 .. CeilDiv(Slots, SizeOf(c)) - 1
Part(c, b) == {a \in Assignments : a \div SizeOf(c) = b}

LEMMA BlockIs ==
  ASSUME NEW c
  PROVE  /\ SizeOf(c) \in Nat \ {0} /\ CeilDiv(Slots, SizeOf(c)) \in Nat \ {0}
         /\ \A a \in Assignments : a \in Nat /\ a \div SizeOf(c) \in BlocksOf(c) /\ a \div SizeOf(c) \in Nat
<1>1. SizeOf(c) \in Nat \ {0}
  BY Sizes DEF SizeOf
<1>2. CeilDiv(Slots, SizeOf(c)) \in Nat \ {0}
  BY <1>1, Sizes, CeilDivIs
<1>3. ASSUME NEW a \in Assignments PROVE a \in Nat /\ a \div SizeOf(c) \in BlocksOf(c)
  <2>1. a \in 0 .. Slots - 1 /\ a \in Nat
    BY Sizes DEF Assignments
  <2> QED BY <1>1, <2>1, Sizes, CeilDivIs DEF BlocksOf
<1>4. \A b \in BlocksOf(c) : b \in Nat
  BY <1>2 DEF BlocksOf
<1> QED BY <1>1, <1>2, <1>3, <1>4

\* Blocks are runs of assignments.
LEMMA BlockOrder ==
  ASSUME NEW c, NEW x \in Assignments, NEW y \in Assignments
  PROVE  /\ x < y => x \div SizeOf(c) <= y \div SizeOf(c)
         /\ x \div SizeOf(c) < y \div SizeOf(c) => x < y
<1>1. SizeOf(c) \in Nat \ {0} /\ x \in Nat /\ y \in Nat
  BY BlockIs
<1>2. PICK d, p, q, r, s : d = SizeOf(c) /\ p = x \div d /\ q = y \div d /\ r = x % d /\ s = y % d
  OBVIOUS
<1>3. d \in Nat \ {0} /\ p \in Nat /\ q \in Nat /\ r \in 0 .. d - 1 /\ s \in 0 .. d - 1
      /\ x = p * d + r /\ y = q * d + s
  BY <1>1, <1>2, Modulo
<1>4. p * d \in Nat /\ q * d \in Nat /\ (p + 1) * d = p * d + d /\ (q + 1) * d = q * d + d
  BY <1>3, Multiply
<1>5. ASSUME p < q PROVE x < y
  <2>1. p + 1 <= q /\ p + 1 \in Nat
    BY <1>3, <1>5
  <2>2. (p + 1) * d <= q * d
    BY <1>3, <2>1, Multiply
  <2> QED BY <1>1, <1>3, <1>4, <2>2
<1>6. ASSUME q < p PROVE y < x
  <2>1. q + 1 <= p /\ q + 1 \in Nat
    BY <1>3, <1>6
  <2>2. (q + 1) * d <= p * d
    BY <1>3, <2>1, Multiply
  <2> QED BY <1>1, <1>3, <1>4, <2>2
<1>7. (x < y => p <= q) /\ (p < q => x < y)
  BY ONLY <1>1, <1>3, <1>5, <1>6
<1> QED BY <1>2, <1>7

-----------------------------------------------------------------------------
(* Counting by blocks and by experts.                                      *)

LEMMA WithFinite ==
  ASSUME NEW key, NEW e
  PROVE  IsFiniteSet({a \in Assignments : key[a] = e})
<1>1. {a \in Assignments : key[a] = e} \subseteq Assignments
  OBVIOUS
<1> QED BY <1>1, PartFinite

\* How much of S is in block b, and what of it is in the blocks before.
InPart(S, c, b) == Cardinality({a \in S : a \div SizeOf(c) = b})
Ahead(S, c, b) == {a \in S : a \div SizeOf(c) < b}

LEMMA BlockSums ==
  ASSUME NEW S, S \subseteq Assignments, NEW c, NEW f, NEW n \in 0 .. CeilDiv(Slots, SizeOf(c)),
         \A b \in BlocksOf(c) : f[b] = InPart(S, c, b)
  PROVE  /\ Prefix(f, n) = Cardinality(Ahead(S, c, n))
         /\ n = CeilDiv(Slots, SizeOf(c)) => Prefix(f, n) = Cardinality(S)
<1> DEFINE part == [a \in S |-> a \div SizeOf(c)]
<1>1. IsFiniteSet(S)
  BY PartFinite
<1>2. \A a \in S : a \div SizeOf(c) \in BlocksOf(c) /\ a \div SizeOf(c) \in Nat
  BY BlockIs
<1>3. n \in Nat /\ CeilDiv(Slots, SizeOf(c)) \in Nat
  BY BlockIs
<1>4. \A i \in 0 .. n - 1 : i \in BlocksOf(c)
  BY <1>3 DEF BlocksOf
<1>5. \A i \in 0 .. n - 1 : f[i] = Cardinality({a \in S : part[a] = i})
  <2>1. ASSUME NEW i \in 0 .. n - 1 PROVE f[i] = Cardinality({a \in S : part[a] = i})
    <3>1. {a \in S : part[a] = i} = {a \in S : a \div SizeOf(c) = i}
      OBVIOUS
    <3> QED BY <3>1, <1>4 DEF InPart
  <2> QED BY <2>1
<1>6. \A a \in S : part[a] \in Nat
  BY <1>2
<1>7. Prefix(f, n) = Cardinality({a \in S : part[a] < n})
  <2> HIDE DEF part
  <2> QED BY <1>1, <1>3, <1>5, <1>6, PrefixCounts
<1>8. {a \in S : part[a] < n} = {a \in S : a \div SizeOf(c) < n}
  OBVIOUS
<1>9. n = CeilDiv(Slots, SizeOf(c)) => {a \in S : a \div SizeOf(c) < n} = S
  BY <1>2, <1>3 DEF BlocksOf
<1> QED BY <1>7, <1>8, <1>9 DEF Ahead

LEMMA BlockTotals ==
  ASSUME NEW S, S \subseteq Assignments, NEW c, NEW f,
         \A b \in BlocksOf(c) : f[b] = InPart(S, c, b)
  PROVE  /\ Prefix(f, CeilDiv(Slots, SizeOf(c))) = Cardinality(S)
         /\ \A b \in BlocksOf(c) : Prefix(f, b) = Cardinality(Ahead(S, c, b))
<1>1. PICK n : n = CeilDiv(Slots, SizeOf(c))
  OBVIOUS
<1>2. n \in Nat /\ BlocksOf(c) = 0 .. n - 1
  BY <1>1, BlockIs DEF BlocksOf
<1>3. n \in 0 .. n /\ \A b \in BlocksOf(c) : b \in 0 .. n
  BY <1>2
<1>4. Prefix(f, n) = Cardinality(S)
  BY <1>1, <1>3, BlockSums
<1>5. ASSUME NEW b \in BlocksOf(c) PROVE Prefix(f, b) = Cardinality(Ahead(S, c, b))
  <2>1. b \in 0 .. CeilDiv(Slots, SizeOf(c))
    BY <1>1, <1>3
  <2> QED BY <2>1, BlockSums
<1> QED BY <1>1, <1>4, <1>5

Share(key, c, b, e) == {x \in Assignments : x \div SizeOf(c) = b /\ key[x] = e}

\* The place of an assignment: the bins before its own, its bin's share of
\* the blocks before its own, and its place in its block's share.
LEMMA RankByBlocks ==
  ASSUME NEW key \in Keys, NEW c, NEW a \in Assignments, NEW b, b = a \div SizeOf(c),
         NEW e, e = key[a], NEW mine, mine = Share(key, c, b, e)
  PROVE  Rank(key, a) = StartOf(key, e) + Cardinality(Ahead(With(key, e), c, b))
                        + Cardinality({x \in mine : x < a})
<1> DEFINE U == Under(key, e)
           V == Ahead(With(key, e), c, b)
           X == {x \in mine : x < a}
<1>1. e \in Int /\ a \in Int
  BY KeyOf
<1>2. U \subseteq Assignments /\ V \subseteq Assignments /\ X \subseteq Assignments
  BY DEF Under, With, Ahead, Share
<1>3. IsFiniteSet(U) /\ IsFiniteSet(V) /\ IsFiniteSet(X)
      /\ Cardinality(U) \in Nat /\ Cardinality(V) \in Nat /\ Cardinality(X) \in Nat
  BY <1>2, PartFinite
<1>4. U \cap V = {}
  BY KeyOf DEF Under, With, Ahead, Share
<1>5. V \cap X = {} /\ U \cap X = {}
  BY KeyOf, BlockIs DEF Under, With, Ahead, Share
<1>6. Before(key, a) = (U \cup V) \cup X
  <2>1. ASSUME NEW x \in Assignments
        PROVE  x \in Before(key, a) <=> (x \in U \/ x \in V \/ x \in X)
    <3>1. key[x] \in Int /\ x \in Int
      BY KeyOf
    <3>2. x \div SizeOf(c) \in Nat /\ a \div SizeOf(c) \in Nat
      BY BlockIs
    <3>3. (x < a => x \div SizeOf(c) <= a \div SizeOf(c)) /\ (x \div SizeOf(c) < a \div SizeOf(c) => x < a)
      BY BlockOrder
    <3>4. x \in Before(key, a) <=> (key[x] < e \/ (key[x] = e /\ x < a))
      BY DEF Before, Precedes
    <3>5. /\ x \in U <=> key[x] < e
          /\ x \in V <=> (key[x] = e /\ x \div SizeOf(c) < b)
          /\ x \in X <=> (key[x] = e /\ x \div SizeOf(c) = b /\ x < a)
      BY DEF Under, With, Ahead, Share
    <3> HIDE DEF U, V, X
    <3> QED BY <3>1, <3>2, <3>3, <3>4, <3>5
  <2>2. Before(key, a) \subseteq Assignments
    BY DEF Before
  <2> HIDE DEF U, V, X
  <2> QED BY <1>2, <2>1, <2>2
<1> HIDE DEF U, V, X
<1>7. Cardinality(U \cup V) = Cardinality(U) + Cardinality(V) /\ IsFiniteSet(U \cup V)
  <2>1. Cardinality(U \cup V) = Cardinality(U) + Cardinality(V) - Cardinality(U \cap V)
        /\ IsFiniteSet(U \cup V)
    BY <1>3, FS_Union
  <2>2. Cardinality(U \cap V) = 0
    BY <1>4, FS_EmptySet
  <2> QED BY <1>3, <2>1, <2>2
<1>8. Cardinality((U \cup V) \cup X) = Cardinality(U \cup V) + Cardinality(X)
  <2>1. Cardinality((U \cup V) \cup X) = Cardinality(U \cup V) + Cardinality(X) - Cardinality((U \cup V) \cap X)
    BY <1>3, <1>7, FS_Union
  <2>2. (U \cup V) \cap X = {}
    BY <1>5
  <2>3. Cardinality((U \cup V) \cap X) = 0
    BY <2>2, FS_EmptySet
  <2> QED BY <1>3, <1>7, <2>1, <2>3
<1>9. StartOf(key, e) = Cardinality(U)
  BY CountTypes DEF U
<1> QED BY <1>3, <1>6, <1>7, <1>8, <1>9, RankBefore DEF V, X

-----------------------------------------------------------------------------
(* The loops.                                                              *)

\* A loop of n rounds has a run.
Iterates(x, D, first, g, n) ==
  x \in [0 .. n -> D] /\ x[0] = first /\ \A i \in 0 .. n - 1 : x[i + 1] = g[<<i, x[i]>>]

LEMMA LoopExists ==
  ASSUME NEW D, NEW first \in D, NEW n \in Nat, NEW g \in [(0 .. n - 1) \X D -> D]
  PROVE  \E x : Iterates(x, D, first, g, n)
<1> DEFINE S == {k \in Nat : k <= n => \E x : Iterates(x, D, first, g, k)}
<1>1. 0 \in S
  <2>1. Iterates([i \in 0 .. 0 |-> first], D, first, g, 0)
    BY DEF Iterates
  <2> QED BY <2>1
<1>2. ASSUME NEW k \in Nat, k \in S PROVE k + 1 \in S
  <2> SUFFICES ASSUME k + 1 <= n PROVE \E x : Iterates(x, D, first, g, k + 1)
    OBVIOUS
  <2>1. PICK x : Iterates(x, D, first, g, k)
    <3>1. k <= n
      OBVIOUS
    <3> QED BY <1>2, <3>1
  <2>2. k \in 0 .. n - 1 /\ k \in 0 .. k /\ 0 \in 0 .. k /\ x \in [0 .. k -> D] /\ x[0] = first
    BY <2>1 DEF Iterates
  <2>3. g[<<k, x[k]>>] \in D
    BY <2>2
  <2> DEFINE y == [i \in 0 .. k + 1 |-> IF i = k + 1 THEN g[<<k, x[k]>>] ELSE x[i]]
  <2>4. y \in [0 .. k + 1 -> D]
    <3>1. ASSUME NEW i \in 0 .. k + 1 PROVE (IF i = k + 1 THEN g[<<k, x[k]>>] ELSE x[i]) \in D
      <4>1. CASE i = k + 1
        BY <2>3, <4>1
      <4>2. CASE i # k + 1
        <5>1. i \in 0 .. k
          BY <4>2
        <5> QED BY <2>2, <4>2, <5>1
      <4> QED BY <4>1, <4>2
    <3> QED BY <3>1
  <2>5. y[0] = first
    <3>1. 0 \in 0 .. k + 1 /\ 0 # k + 1
      OBVIOUS
    <3> QED BY <2>2, <3>1
  <2>6. ASSUME NEW i \in 0 .. k PROVE y[i + 1] = g[<<i, y[i]>>]
    <3>1. i \in 0 .. k + 1 /\ i + 1 \in 0 .. k + 1 /\ i # k + 1
      OBVIOUS
    <3>2. y[i] = x[i]
      BY <3>1
    <3>3. CASE i = k
      BY <3>1, <3>2, <3>3
    <3>4. CASE i # k
      <4>1. i \in 0 .. k - 1 /\ i + 1 # k + 1
        BY <3>4
      <4>2. y[i + 1] = x[i + 1] /\ x[i + 1] = g[<<i, x[i]>>]
        BY <2>1, <3>1, <4>1 DEF Iterates
      <4> QED BY <3>2, <4>2
    <3> QED BY <3>3, <3>4
  <2> HIDE DEF y
  <2>7. k + 1 - 1 = k
    OBVIOUS
  <2>8. Iterates(y, D, first, g, k + 1)
    BY <2>4, <2>5, <2>6, <2>7 DEF Iterates
  <2> QED BY <2>8
<1> HIDE DEF S
<1>3. n \in S
  BY <1>1, <1>2, AllOf
<1> QED BY <1>3 DEF S

Topping(x, f, n) == x = [i \in 0 .. n |-> IF i = 0 THEN 0 ELSE Larger(f[i - 1], x[i - 1])]

LEMMA TopExists ==
  ASSUME NEW n \in Nat, NEW f, \A i \in 0 .. n - 1 : f[i] \in Nat
  PROVE  \E x : Topping(x, f, n)
<1> DEFINE g == [p \in (0 .. n - 1) \X Nat |-> Larger(f[p[1]], p[2])]
<1>1. g \in [(0 .. n - 1) \X Nat -> Nat]
  <2>1. ASSUME NEW i \in 0 .. n - 1, NEW v \in Nat PROVE Larger(f[i], v) \in Nat
    BY DEF Larger
  <2> QED BY <2>1
<1>2. PICK x : Iterates(x, Nat, 0, g, n)
  <2> HIDE DEF g
  <2> QED BY <1>1, LoopExists
<1>3. x \in [0 .. n -> Nat] /\ x[0] = 0
  BY <1>2 DEF Iterates
<1>4. ASSUME NEW i \in 0 .. n, i # 0 PROVE x[i] = Larger(f[i - 1], x[i - 1])
  <2>1. i - 1 \in 0 .. n - 1 /\ i - 1 + 1 = i /\ i - 1 \in 0 .. n
    BY <1>4
  <2>2. x[i] = g[<<i - 1, x[i - 1]>>]
    <3> HIDE DEF g
    <3> QED BY <1>2, <2>1 DEF Iterates
  <2>3. x[i - 1] \in Nat
    BY <1>3, <2>1
  <2> QED BY <2>1, <2>2, <2>3
<1>5. x = [i \in 0 .. n |-> x[i]]
  BY <1>3
<1>6. Topping(x, f, n)
  BY <1>3, <1>4, <1>5 DEF Topping
<1> QED BY <1>6

\* The greatest of some natural numbers.
LEMMA LargestIs ==
  ASSUME NEW n \in Nat, NEW f, \A i \in 0 .. n - 1 : f[i] \in Nat
  PROVE  /\ Largest(f, n) \in Nat
         /\ \A i \in 0 .. n - 1 : f[i] <= Largest(f, n)
         /\ n # 0 => \E i \in 0 .. n - 1 : f[i] = Largest(f, n)
<1>1. PICK x : Topping(x, f, n) /\ Largest(f, n) = x[n]
  <2> DEFINE x == CHOOSE y : Topping(y, f, n)
  <2>1. Topping(x, f, n)
    BY TopExists
  <2>2. Largest(f, n) = x[n]
    BY DEF Largest, Topping
  <2> QED BY <2>1, <2>2
<1> DEFINE G == {k \in Nat : k <= n => /\ x[k] \in Nat /\ \A i \in 0 .. k - 1 : f[i] <= x[k]
                                       /\ k # 0 => \E i \in 0 .. k - 1 : f[i] = x[k]}
<1>2. 0 \in G
  <2>1. x[0] = 0
    BY <1>1 DEF Topping
  <2> QED BY <2>1
<1>3. ASSUME NEW k \in Nat, k \in G PROVE k + 1 \in G
  <2> SUFFICES ASSUME k + 1 <= n
               PROVE  /\ x[k + 1] \in Nat /\ \A i \in 0 .. k : f[i] <= x[k + 1]
                      /\ \E i \in 0 .. k : f[i] = x[k + 1]
    OBVIOUS
  <2>1. x[k + 1] = Larger(f[k], x[k])
    <3>1. k + 1 \in 0 .. n /\ k + 1 # 0 /\ k + 1 - 1 = k
      OBVIOUS
    <3> QED BY <1>1, <3>1 DEF Topping
  <2>2. f[k] \in Nat /\ k \in 0 .. k
    <3>1. k \in 0 .. n - 1
      OBVIOUS
    <3> QED BY <3>1
  <2>3. x[k] \in Nat /\ (\A i \in 0 .. k - 1 : f[i] <= x[k])
        /\ (k # 0 => \E i \in 0 .. k - 1 : f[i] = x[k])
    BY <1>3
  <2>4. x[k + 1] \in Nat /\ f[k] <= x[k + 1] /\ x[k] <= x[k + 1]
    BY <2>1, <2>2, <2>3 DEF Larger
  <2>5. ASSUME NEW i \in 0 .. k PROVE f[i] <= x[k + 1]
    <3>1. CASE i = k
      BY <2>4, <3>1
    <3>2. CASE i # k
      <4>1. i \in 0 .. k - 1 /\ i \in 0 .. n - 1
        BY <3>2
      <4>2. f[i] <= x[k] /\ f[i] \in Nat
        BY <2>3, <4>1
      <4> QED BY <2>3, <2>4, <4>2
    <3> QED BY <3>1, <3>2
  <2>6. \E i \in 0 .. k : f[i] = x[k + 1]
    <3>1. CASE x[k + 1] = f[k]
      BY <2>2, <3>1
    <3>2. CASE x[k + 1] # f[k]
      <4>1. x[k + 1] = x[k] /\ ~(f[k] > x[k])
        BY <2>1, <3>2 DEF Larger
      <4>2. CASE k = 0
        <5>1. x[k] = 0
          BY <1>1, <4>2 DEF Topping
        <5> QED BY <2>2, <3>2, <4>1, <5>1
      <4>3. CASE k # 0
        <5>1. PICK i \in 0 .. k - 1 : f[i] = x[k]
          BY <2>3, <4>3
        <5>2. i \in 0 .. k
          OBVIOUS
        <5> QED BY <4>1, <5>1, <5>2
      <4> QED BY <4>2, <4>3
    <3> QED BY <3>1, <3>2
  <2> QED BY <2>4, <2>5, <2>6
<1> HIDE DEF G
<1>4. n \in G
  BY <1>2, <1>3, AllOf
<1> QED BY <1>1, <1>4 DEF G

-----------------------------------------------------------------------------
(* The rounds of the search.                                               *)

Bitting(x, n) == x = [k \in 0 .. n |-> IF k = 0 THEN 0 ELSE 1 + x[k \div 2]]

LEMMA BitsExist ==
  ASSUME NEW n \in Nat
  PROVE  \E x : Bitting(x, n)
<1> DEFINE S == {k \in Nat : \E x : Bitting(x, k)}
<1>1. 0 \in S
  <2>1. Bitting([k \in 0 .. 0 |-> 0], 0)
    BY DEF Bitting
  <2> QED BY <2>1
<1>2. ASSUME NEW k \in Nat, k \in S PROVE k + 1 \in S
  <2>1. PICK x : Bitting(x, k)
    BY <1>2
  <2> DEFINE y == [i \in 0 .. k + 1 |-> IF i = k + 1 THEN 1 + x[(k + 1) \div 2] ELSE x[i]]
             z == [i \in 0 .. k + 1 |-> IF i = 0 THEN 0 ELSE 1 + y[i \div 2]]
  <2>2. ASSUME NEW i \in 0 .. k + 1 PROVE y[i] = z[i]
    <3>1. i # 0 => i \div 2 \in 0 .. k /\ i \div 2 \in 0 .. k + 1 /\ i \div 2 # k + 1
      OBVIOUS
    <3>2. i # 0 => y[i \div 2] = x[i \div 2]
      BY <3>1
    <3>3. CASE i = k + 1
      BY <3>1, <3>2, <3>3
    <3>4. CASE i # k + 1
      <4>1. i \in 0 .. k
        BY <3>4
      <4>2. x[i] = IF i = 0 THEN 0 ELSE 1 + x[i \div 2]
        BY <2>1, <4>1 DEF Bitting
      <4> QED BY <3>2, <3>4, <4>2
    <3> QED BY <3>3, <3>4
  <2>3. y = [i \in 0 .. k + 1 |-> y[i]] /\ z = [i \in 0 .. k + 1 |-> z[i]]
    OBVIOUS
  <2>4. y = z
    <3> HIDE DEF y, z
    <3> QED BY <2>2, <2>3
  <2>5. Bitting(y, k + 1)
    <3> HIDE DEF y
    <3> QED BY <2>4 DEF Bitting
  <2> QED BY <2>5
<1> HIDE DEF S
<1>3. n \in S
  BY <1>1, <1>2, AllOf
<1> QED BY <1>3 DEF S

LEMMA BitsAre ==
  ASSUME NEW n \in Nat
  PROVE  \E x : /\ BitLength(n) = x[n] /\ x[0] = 0 /\ \A k \in 0 .. n : x[k] \in Nat
                /\ \A k \in 1 .. n : x[k] = 1 + x[k \div 2] /\ k \div 2 \in 0 .. n
<1> DEFINE x == CHOOSE y : Bitting(y, n)
<1>1. Bitting(x, n)
  BY BitsExist
<1>2. BitLength(n) = x[n]
  BY DEF BitLength, Bitting
<1> HIDE DEF x
<1>3. ASSUME NEW k \in 1 .. n PROVE x[k] = 1 + x[k \div 2] /\ k \div 2 \in 0 .. n
  <2>1. k \in 0 .. n /\ k # 0 /\ k \div 2 \in 0 .. n
    OBVIOUS
  <2> QED BY <1>1, <2>1 DEF Bitting
<1>4. x[0] = 0
  BY <1>1 DEF Bitting
<1>5. ASSUME NEW k \in 0 .. n PROVE x[k] \in Nat
  <2> DEFINE F == {j \in 0 .. n : x[j] \notin Nat}
  <2> SUFFICES ASSUME F # {} PROVE FALSE
    OBVIOUS
  <2>1. F \subseteq Nat
    OBVIOUS
  <2>2. PICK m \in F : \A j \in F : m <= j
    BY <2>1, LeastOf
  <2>3. m \in 1 .. n /\ m \div 2 < m /\ m \div 2 \in 0 .. n
    BY <1>4, <2>2
  <2>4. m \div 2 \notin F
    BY <2>2, <2>3
  <2>5. x[m \div 2] \in Nat
    BY <2>3, <2>4
  <2> QED BY <1>3, <2>2, <2>3, <2>5
<1> QED BY <1>2, <1>3, <1>4, <1>5

-----------------------------------------------------------------------------
(* The search.                                                             *)

\* Ranges that hold the expert of tile t: the first whose end is above t.
RangesOf(T, t) ==
  {r \in [lo : Bins, hi : Bins] :
     r.lo <= r.hi /\ T[r.lo] <= t /\ (r.hi = Experts \/ t < T[r.hi + 1])}

LEMMA HalveIs ==
  ASSUME NEW t \in Int, \A e \in Bins : tile_offsets[e] \in Int,
         NEW r \in RangesOf(tile_offsets, t)
  PROVE  /\ Halve(r, t) \in RangesOf(tile_offsets, t)
         /\ Halve(r, t).hi - Halve(r, t).lo <= (r.hi - r.lo) \div 2
<1>1. r \in [lo : Bins, hi : Bins] /\ r.lo \in 0 .. Experts /\ r.hi \in 0 .. Experts /\ r.lo <= r.hi
      /\ tile_offsets[r.lo] <= t /\ (r.hi = Experts \/ t < tile_offsets[r.hi + 1])
      /\ Experts \in Nat
  BY Sizes DEF RangesOf, Bins
<1>2. PICK mid : mid = (r.lo + r.hi) \div 2
  OBVIOUS
<1>3. CASE r.lo >= r.hi
  <2>1. Halve(r, t) = r
    BY <1>3 DEF Halve
  <2>2. r.hi - r.lo = 0 /\ (r.hi - r.lo) \div 2 = 0
    BY <1>1, <1>3
  <2> QED BY <2>1, <2>2
<1>4. CASE ~(r.lo >= r.hi)
  <2>1. mid \in 0 .. Experts - 1 /\ r.lo <= mid /\ mid < r.hi
        /\ r.hi - (mid + 1) <= (r.hi - r.lo) \div 2 /\ mid - r.lo <= (r.hi - r.lo) \div 2
    BY <1>1, <1>2, <1>4
  <2>2. mid \in Bins /\ mid + 1 \in Bins /\ mid < Experts
    BY <1>1, <2>1 DEF Bins
  <2>3. CASE tile_offsets[mid + 1] <= t
    <3>1. Halve(r, t) = [r EXCEPT !.lo = mid + 1]
      BY <1>2, <1>4, <2>2, <2>3 DEF Halve
    <3>2. [r EXCEPT !.lo = mid + 1] = [lo |-> mid + 1, hi |-> r.hi]
      BY <1>1
    <3> QED BY <1>1, <2>1, <2>2, <2>3, <3>1, <3>2 DEF RangesOf
  <2>4. CASE ~(tile_offsets[mid + 1] <= t)
    <3>1. Halve(r, t) = [r EXCEPT !.hi = mid]
      BY <1>2, <1>4, <2>2, <2>4 DEF Halve
    <3>2. [r EXCEPT !.hi = mid] = [lo |-> r.lo, hi |-> mid]
      BY <1>1
    <3>3. t < tile_offsets[mid + 1]
      BY <2>2, <2>4
    <3> QED BY <1>1, <2>1, <2>2, <3>1, <3>2, <3>3 DEF RangesOf
  <2> QED BY <2>3, <2>4
<1> QED BY <1>3, <1>4

After(x, t, n) ==
  x = [i \in 0 .. n |-> IF i = 0 THEN [lo |-> 0, hi |-> Experts] ELSE Halve(x[i - 1], t)]

LEMMA SearchIs ==
  ASSUME NEW t \in Int, \A e \in Bins : tile_offsets[e] \in Int,
         tile_offsets[0] <= t, t < tile_offsets[Experts]
  PROVE  /\ Search(t) \in ExpertSet
         /\ tile_offsets[Search(t)] <= t /\ t < tile_offsets[Search(t) + 1]
<1> DEFINE D == RangesOf(tile_offsets, t)
           first == [lo |-> 0, hi |-> Experts]
<1>1. PICK b : /\ SearchSteps = b[Experts + 1] /\ b[0] = 0 /\ \A k \in 0 .. Experts + 1 : b[k] \in Nat
               /\ \A k \in 1 .. Experts + 1 : b[k] = 1 + b[k \div 2] /\ k \div 2 \in 0 .. Experts + 1
  <2>1. Experts + 1 \in Nat
    BY Sizes
  <2> QED BY <2>1, BitsAre DEF SearchSteps
<1>2. PICK n : n = SearchSteps
  OBVIOUS
<1>3. n \in Nat
  <2>1. Experts + 1 \in 0 .. Experts + 1
    BY Sizes
  <2> QED BY <1>1, <1>2, <2>1
<1>4. first \in D
  BY Sizes DEF RangesOf, Bins
<1>5. \E x : After(x, t, n)
  <2> DEFINE g == [p \in (0 .. n - 1) \X D |-> Halve(p[2], t)]
  <2>1. g \in [(0 .. n - 1) \X D -> D]
    <3>1. \A r \in D : Halve(r, t) \in D
      BY HalveIs
    <3> HIDE DEF D
    <3> QED BY <3>1
  <2>2. PICK x : Iterates(x, D, first, g, n)
    <3> HIDE DEF g, D, first
    <3> QED BY <1>3, <1>4, <2>1, LoopExists
  <2> HIDE DEF D, first
  <2>3. x \in [0 .. n -> D] /\ x[0] = first
    BY <2>2 DEF Iterates
  <2>4. ASSUME NEW i \in 0 .. n, i # 0 PROVE x[i] = Halve(x[i - 1], t)
    <3>1. i - 1 \in 0 .. n - 1 /\ i - 1 + 1 = i /\ i - 1 \in 0 .. n
      BY <1>3, <2>4
    <3>2. x[i] = g[<<i - 1, x[i - 1]>>]
      <4> HIDE DEF g
      <4> QED BY <2>2, <3>1 DEF Iterates
    <3>3. x[i - 1] \in D
      BY <2>3, <3>1
    <3> QED BY <3>1, <3>2, <3>3
  <2>5. x = [i \in 0 .. n |-> x[i]]
    BY <2>3
  <2>6. After(x, t, n)
    BY <2>3, <2>4, <2>5 DEF After, first
  <2> QED BY <2>6
<1>6. PICK x : After(x, t, n) /\ Search(t) = x[n].lo
  <2> DEFINE x == CHOOSE y : After(y, t, n)
  <2>1. After(x, t, n)
    BY <1>5
  <2>2. Search(t) = x[n].lo
    BY <1>2 DEF Search, After
  <2> QED BY <2>1, <2>2
<1> HIDE DEF D
\* A range is never wider than what is left of Experts + 1 after as many halvings.
<1> DEFINE G == {i \in Nat : i <= n => /\ x[i] \in D
                   /\ \E h \in 0 .. Experts + 1 : x[i].hi - x[i].lo <= h /\ b[h] = n - i}
<1>7. 0 \in G
  <2>1. x[0] = first
    <3>1. 0 \in 0 .. n
      BY <1>3
    <3> QED BY <1>6, <3>1 DEF After
  <2>2. Experts + 1 \in 0 .. Experts + 1 /\ first.hi - first.lo <= Experts + 1 /\ b[Experts + 1] = n - 0
    BY <1>1, <1>2, <1>3, Sizes
  <2> HIDE DEF first
  <2> QED BY <1>4, <2>1, <2>2
<1>8. ASSUME NEW i \in Nat, i \in G PROVE i + 1 \in G
  <2> SUFFICES ASSUME i + 1 <= n
               PROVE  /\ x[i + 1] \in D
                      /\ \E h \in 0 .. Experts + 1 : x[i + 1].hi - x[i + 1].lo <= h /\ b[h] = n - (i + 1)
    OBVIOUS
  <2>1. x[i] \in D
    BY <1>3, <1>8
  <2>2. PICK h \in 0 .. Experts + 1 : x[i].hi - x[i].lo <= h /\ b[h] = n - i
    BY <1>3, <1>8
  <2>3. x[i + 1] = Halve(x[i], t)
    <3>1. PICK j, k : j = i + 1 /\ k = j - 1
      OBVIOUS
    <3>2. j \in 0 .. n /\ j # 0 /\ k = i
      BY <1>3, <3>1
    <3>3. x[j] = Halve(x[j - 1], t)
      BY <1>6, <3>2 DEF After
    <3> QED BY <3>1, <3>2, <3>3
  <2>4. x[i + 1] \in D /\ x[i + 1].hi - x[i + 1].lo <= (x[i].hi - x[i].lo) \div 2
    BY <2>1, <2>3, HalveIs DEF D
  <2>5. x[i].hi \in Int /\ x[i].lo \in Int /\ x[i].lo <= x[i].hi
        /\ x[i + 1].hi \in Int /\ x[i + 1].lo \in Int
    BY <2>1, <2>4, Sizes DEF D, RangesOf, Bins
  <2>6. CASE h = 0
    <3>1. n - i = 0
      BY <1>1, <2>2, <2>6
    <3> QED BY <1>3, <3>1
  <2>7. CASE h # 0
    <3>1. h \in 1 .. Experts + 1
      BY <2>7
    <3>2. h \div 2 \in 0 .. Experts + 1 /\ b[h] = 1 + b[h \div 2]
      BY <1>1, <3>1
    <3>3. b[h \div 2] \in Nat
      BY <1>1, <3>2
    <3>4. x[i + 1].hi - x[i + 1].lo <= h \div 2
      BY <2>2, <2>4, <2>5
    <3>5. b[h \div 2] = n - (i + 1)
      BY <1>3, <2>2, <3>2, <3>3
    <3> QED BY <2>4, <3>2, <3>4, <3>5
  <2> QED BY <2>6, <2>7
<1> HIDE DEF G
<1>9. n \in G
  BY <1>3, <1>7, <1>8, AllOf
<1>10. x[n] \in D /\ \E h \in 0 .. Experts + 1 : x[n].hi - x[n].lo <= h /\ b[h] = n - n
  BY <1>3, <1>9 DEF G
<1>11. PICK h \in 0 .. Experts + 1 : x[n].hi - x[n].lo <= h /\ b[h] = 0
  BY <1>3, <1>10
<1>12. h = 0
  <2>1. ASSUME h # 0 PROVE FALSE
    <3>1. h \in 1 .. Experts + 1
      BY <2>1
    <3>2. h \div 2 \in 0 .. Experts + 1 /\ b[h] = 1 + b[h \div 2]
      BY <1>1, <3>1
    <3>3. b[h \div 2] \in Nat
      BY <1>1, <3>2
    <3> QED BY <1>11, <3>2, <3>3
  <2> QED BY <2>1
<1>13. x[n].lo \in 0 .. Experts /\ x[n].hi \in 0 .. Experts /\ x[n].lo <= x[n].hi
       /\ tile_offsets[x[n].lo] <= t /\ (x[n].hi = Experts \/ t < tile_offsets[x[n].hi + 1])
  BY <1>10 DEF D, RangesOf, Bins
<1>14. x[n].lo = x[n].hi
  BY <1>11, <1>12, <1>13
<1>15. PICK e : e = x[n].lo
  OBVIOUS
<1>16. e \in 0 .. Experts /\ tile_offsets[e] <= t /\ (e = Experts \/ t < tile_offsets[e + 1])
  BY <1>13, <1>14, <1>15
<1>17. e # Experts
  <2>1. Experts \in Bins
    BY Sizes DEF Bins
  <2>2. tile_offsets[Experts] \in Int
    BY <2>1
  <2> QED BY <1>16, <2>2
<1> QED BY <1>6, <1>15, <1>16, <1>17, Sizes DEF ExpertSet

-----------------------------------------------------------------------------
(* The tiles of the experts.                                               *)

ExpertTiles(w, e) == CeilDiv(CountOf(w, e), BlockM)
TilesBefore(w, e) == Prefix([x \in ExpertSet |-> ExpertTiles(w, x)], e)

LEMMA TilesAre ==
  ASSUME NEW w \in Keys
  PROVE  /\ TilesBefore(w, 0) = 0
         /\ \A e \in Bins : TilesBefore(w, e) \in Nat
         /\ \A e \in ExpertSet : /\ ExpertTiles(w, e) \in Nat
                                 /\ TilesBefore(w, e + 1) = TilesBefore(w, e) + ExpertTiles(w, e)
         /\ \A d, e \in Bins : d <= e => TilesBefore(w, d) <= TilesBefore(w, e)
BY Sizes, TilesUnderAre DEF ExpertTiles, TilesBefore, TileCount, TilesUnder

LEMMA TilesEnough ==
  ASSUME NEW w \in Keys
  PROVE  TilesBefore(w, Experts) <= MaxTiles /\ MaxTiles \in Nat \ {0}
BY Sizes, TilesSuffice DEF ExpertTiles, TilesBefore, TileCount, TilesUnder, MaxTiles, TileRoom

\* A tile of an expert, and the one that has a slot of it.
TileRight(w, t, expert, first) ==
  IF t < TilesBefore(w, Experts)
    THEN /\ expert \in ExpertSet /\ TilesBefore(w, expert) <= t /\ t < TilesBefore(w, expert + 1)
         /\ first = StartOf(w, expert) + (t - TilesBefore(w, expert)) * BlockM
    ELSE expert = -1

LEMMA OneRun ==
  ASSUME NEW w \in Keys, NEW s \in Int, NEW d \in ExpertSet, NEW e \in ExpertSet,
         \/ /\ StartOf(w, d) <= s /\ s < StartOf(w, d + 1)
            /\ StartOf(w, e) <= s /\ s < StartOf(w, e + 1)
         \/ /\ TilesBefore(w, d) <= s /\ s < TilesBefore(w, d + 1)
            /\ TilesBefore(w, e) <= s /\ s < TilesBefore(w, e + 1)
  PROVE  d = e
<1>1. \A x : TilesBefore(w, x) = TilesUnder(w, x, BlockM)
  BY DEF ExpertTiles, TilesBefore, TileCount, TilesUnder
<1> QED BY <1>1, Sizes, OneOwner

LEMMA TileOfSlot ==
  ASSUME NEW w \in Keys, NEW e \in ExpertSet, NEW s \in Int,
         StartOf(w, e) <= s, s < StartOf(w, e + 1)
  PROVE  \E t \in Tiles :
           /\ TilesBefore(w, e) <= t /\ t < TilesBefore(w, e + 1) /\ t < TilesBefore(w, Experts)
           /\ StartOf(w, e) + (t - TilesBefore(w, e)) * BlockM <= s
           /\ s < StartOf(w, e) + (t - TilesBefore(w, e)) * BlockM + BlockM
<1>1. \A x : TilesBefore(w, x) = TilesUnder(w, x, BlockM)
  BY DEF ExpertTiles, TilesBefore, TileCount, TilesUnder
<1>2. Tiles = 0 .. TileRoom(BlockM) - 1
  BY DEF Tiles, MaxTiles, TileRoom
<1> QED BY <1>1, <1>2, Sizes, SlotInTile

-----------------------------------------------------------------------------
(* The invariant, in the effective ids w and the invalid assignments bad.  *)

CountedKernels == {"histogram", "prefix", "scatter"}
GeneralKernels == {"keys", "argsort", "zero", "inverse", "prefix"}

\* Which kernel runs.
Course(c, include, k) ==
  /\ c \in BOOLEAN /\ include \in BOOLEAN
  /\ k \in (IF c THEN CountedKernels ELSE GeneralKernels) \cup Routes
  /\ k = "deferred" => ~include

\* What the programs of the first kernel leave, those still to run excepted.
Keyed(w, bad, c, k, left, ky, inv, hist) ==
  /\ DOMAIN inv = BlocksOf(c) /\ DOMAIN hist = BlocksOf(c)
  /\ \A b \in BlocksOf(c) : (k \in {"histogram", "keys"} => b \notin left) =>
       /\ \A a \in Part(c, b) : ky[a] = w[a]
       /\ inv[b] = InPart(bad, c, b)
       /\ c => \A e \in Bins : hist[b][e] = InPart(With(w, e), c, b)

\* Where the scatter puts a bin's share of a block.
Based(w, c, k, base) ==
  k = "scatter" => \A b \in BlocksOf(c), e \in Bins :
    base[b][e] = StartOf(w, e) + Cardinality(Ahead(With(w, e), c, b))

\* An assignment is in its place, and knows it.
Placed(w, a, sorted, back) ==
  /\ sorted[Rank(w, a)] = a
  /\ back[a] = IF a \in Routed(w) THEN Rank(w, a) ELSE -1

Scattered(w, c, k, left, sorted, back) ==
  k = "scatter" => \A a \in Assignments :
    <<a \div SizeOf(c), w[a]>> \notin left => Placed(w, a, sorted, back)

\* After the argsort; and what the lanes of the histogram have counted.
Argsorted(c, k) == ~c /\ k \in {"zero", "inverse", "prefix"}
LanesRun(k, left) == IF k = "inverse" THEN Assignments \ left ELSE Assignments
Ranked(w, e, D) == {a \in Assignments : w[a] = e /\ Rank(w, a) \in D}
Counting(w, c, k, left, sorted, count, back) ==
  /\ Argsorted(c, k) => sorted = Sorted(w)
  /\ ~c /\ k \in {"inverse", "prefix"} =>
       /\ \A e \in ExpertSet : count[e] = Cardinality(Ranked(w, e, LanesRun(k, left)))
       /\ \A a \in Assignments : Rank(w, a) \in LanesRun(k, left) => Placed(w, a, sorted, back)

\* The counts, the offsets and the three totals.
Exact(w, bad, count, offset, stats) ==
  /\ \A e \in ExpertSet : count[e] = CountOf(w, e)
  /\ \A e \in Bins : offset[e] = StartOf(w, e)
  /\ stats.total = Cardinality(Routed(w))
  /\ \A e \in ExpertSet : CountOf(w, e) <= stats.maximum
  /\ \E e \in ExpertSet : CountOf(w, e) = stats.maximum
  /\ stats.invalid = Cardinality(bad)
Measured(w, bad, k, count, offset, stats) ==
  k \in Routes \cup {"scatter"} => Exact(w, bad, count, offset, stats)

Sorting(w, k, sorted, back) == k \in Routes => \A a \in Assignments : Placed(w, a, sorted, back)

TileOffsets(w, include, k, ends) ==
  k \in {"tiles", "ready"} \/ (k = "scatter" /\ include) =>
    \A e \in Bins : ends[e] = TilesBefore(w, e)

Tiled(w, k, left, experts, firsts) ==
  /\ DOMAIN experts = Tiles /\ DOMAIN firsts = Tiles
  /\ k \in {"tiles", "ready"} => \A t \in Tiles :
       (k = "tiles" => t \div TileBlock \notin left) => TileRight(w, t, experts[t], firsts[t])

\* The types of the buffers, and of what is launched.
Progs(c, k) ==
  CASE k \in {"histogram", "keys"} -> BlocksOf(c)
    [] k = "scatter" -> BlocksOf(c) \X Bins
    [] k = "inverse" -> Assignments
    [] k = "tiles" -> TileBlocks
    [] OTHER -> {0}
Launch(c, k, left) == left \subseteq Progs(c, k) /\ left # {}
Typed(in, ky, count, offset, sorted, back, n) ==
  /\ in[1] \in [Assignments -> Ids] /\ in[2] \in [0 .. Tokens - 1 -> BOOLEAN] /\ n \in 1 .. Calls
  /\ ky \in [Assignments -> Bins \cup {Stale}]
  /\ count \in [ExpertSet -> (0 .. Slots) \cup {Stale}]
  /\ offset \in [Bins -> (0 .. Slots) \cup {Stale}]
  /\ sorted \in [Assignments -> Assignments \cup {Stale}]
  /\ back \in [Assignments -> Assignments \cup {-1, Stale}]

Promise(w, bad) ==
  /\ Typed(<<ids, mask>>, keys, counts, offsets, order, inverse, call)
  /\ Course(counted, include_tiles, kernel)
  /\ Launch(counted, kernel, todo)
  /\ Keyed(w, bad, counted, kernel, todo, keys, invalid, histogram)
  /\ Based(w, counted, kernel, bases)
  /\ Scattered(w, counted, kernel, todo, order, inverse)
  /\ Counting(w, counted, kernel, todo, order, counts, inverse)
  /\ Measured(w, bad, kernel, counts, offsets, statistics)
  /\ Sorting(w, kernel, order, inverse)
  /\ TileOffsets(w, include_tiles, kernel, tile_offsets)
  /\ Tiled(w, kernel, todo, tile_experts, tile_starts)

\* What holds in every state.
RouteInv == Promise(EffectiveIds(ids, mask), InvalidIds(ids, mask))

LEMMA TypesFollow ==
  ASSUME NEW w, NEW bad, Promise(w, bad)
  PROVE  TypeOK
<1>1. Launch(counted, kernel, todo) /\ Course(counted, include_tiles, kernel)
      /\ Typed(<<ids, mask>>, keys, counts, offsets, order, inverse, call)
  BY DEF Promise
<1>2. todo \subseteq Programs(kernel) /\ todo # {}
  BY <1>1 DEF Launch, Progs, Programs, Blocks, BlockCount, Block, BlocksOf, SizeOf
<1>3. kernel \in {"histogram", "prefix", "scatter", "keys", "argsort", "zero",
                  "inverse", "deferred", "tiles", "ready"}
  BY <1>1 DEF Course, CountedKernels, GeneralKernels, Routes
<1> QED BY <1>1, <1>2, <1>3 DEF Typed, TypeOK

LEMMA Keyword ==
  /\ EffectiveIds(ids, mask) \in Keys /\ InvalidIds(ids, mask) \subseteq Assignments
  /\ \A a \in Assignments : Key(a) = EffectiveIds(ids, mask)[a]
  /\ \A a \in Assignments : (Enabled(a) /\ ~InRange(ids[a])) <=> a \in InvalidIds(ids, mask)
BY EffectiveKeys DEF EffectiveIds, InvalidIds, Key, Enabled

LEMMA BlockNames ==
  /\ Block = SizeOf(counted) /\ BlockCount = CeilDiv(Slots, SizeOf(counted))
  /\ Blocks = BlocksOf(counted)
  /\ \A b : InBlock(b) = Part(counted, b)
BY DEF Block, SizeOf, BlockCount, Blocks, BlocksOf, InBlock, Part

LEMMA LaunchesNonempty ==
  ASSUME NEW c, NEW k
  PROVE  /\ Progs(c, k) # {} /\ \A t \in Tiles : t \div TileBlock \in TileBlocks
         /\ 0 \in TileBlocks /\ \A t \in Tiles : t \in Nat
<1>1. 0 \in BlocksOf(c) /\ 0 \in Bins /\ 0 \in Assignments
  BY BlockIs, Sizes DEF BlocksOf, Bins, Assignments
<1>2. PICK key : key \in Keys
  BY EffectiveKeys
<1>3. MaxTiles \in Nat \ {0}
  BY <1>2, TilesEnough
<1>4. CeilDiv(MaxTiles, TileBlock) \in Nat \ {0}
      /\ \A x \in 0 .. MaxTiles - 1 : x \div TileBlock \in 0 .. CeilDiv(MaxTiles, TileBlock) - 1
  BY <1>3, Sizes, CeilDivIs
<1>5. 0 \in TileBlocks /\ \A t \in Tiles : t \div TileBlock \in TileBlocks /\ t \in Nat
  BY <1>3, <1>4 DEF TileBlocks, Tiles
<1>6. BlocksOf(c) \X Bins # {}
  <2>1. <<0, 0>> \in BlocksOf(c) \X Bins
    BY <1>1
  <2> QED BY <2>1
<1> QED BY <1>1, <1>5, <1>6 DEF Progs

\* One program runs: the launch goes on, or the stream does.
LEMMA RunIs ==
  ASSUME NEW k, NEW p, NEW next, Run(k, p, next), UNCHANGED counted,
         Launch(counted, kernel, todo)
  PROVE  /\ kernel = k /\ p \in Progs(counted, k) /\ p \in todo
         /\ Launch(counted', kernel', todo')
         /\ \/ kernel' = next /\ todo = {p} /\ todo' = Progs(counted, next)
            \/ kernel' = k /\ todo' = todo \ {p}
<1>1. kernel = k /\ p \in todo /\ p \in Progs(counted, k)
  BY DEF Run, Launch
<1>2. Programs(next) = Progs(counted, next)
  BY DEF Progs, Programs, Blocks, BlockCount, Block, BlocksOf, SizeOf
<1>3. CASE todo = {p}
  <2>1. kernel' = next /\ todo' = Progs(counted, next)
    BY <1>2, <1>3 DEF Run
  <2>2. Progs(counted, next) # {}
    BY LaunchesNonempty
  <2> QED BY <1>1, <1>3, <2>1, <2>2 DEF Launch
<1>4. CASE todo # {p}
  <2>1. kernel' = kernel /\ todo' = todo \ {p}
    BY <1>4 DEF Run
  <2> QED BY <1>1, <1>4, <2>1 DEF Launch
<1> QED BY <1>3, <1>4

-----------------------------------------------------------------------------
(* The steps.                                                              *)

Given(w, bad) ==
  /\ w \in Keys /\ bad \subseteq Assignments /\ Promise(w, bad)
  /\ w = EffectiveIds(ids, mask) /\ bad = InvalidIds(ids, mask)

\* A program of the first kernel, of either sort.
LEMMA KeysKept ==
  ASSUME NEW w, NEW bad, Given(w, bad), NEW b \in BlocksOf(counted),
         keys' = [a \in Assignments |-> IF a \in InBlock(b) THEN Key(a) ELSE keys[a]]
  PROVE  /\ \A a \in Part(counted, b) : keys'[a] = w[a]
         /\ \A d \in BlocksOf(counted) : d # b => \A a \in Part(counted, d) : keys'[a] = keys[a]
         /\ keys' \in [Assignments -> Bins \cup {Stale}]
         /\ InvalidIn(b) = InPart(bad, counted, b)
<1>1. \A a \in Assignments : Key(a) = w[a] /\ w[a] \in Bins
  BY Keyword DEF Given, Keys
<1>2. InBlock(b) = Part(counted, b)
  BY BlockNames
<1>3. keys \in [Assignments -> Bins \cup {Stale}]
  BY DEF Given, Promise, Typed
<1>4. {a \in InBlock(b) : Enabled(a) /\ ~InRange(ids[a])} = {a \in bad : a \div SizeOf(counted) = b}
  <2>1. \A a \in Assignments : (Enabled(a) /\ ~InRange(ids[a])) <=> a \in bad
    BY Keyword DEF Given
  <2> QED BY <1>2, <2>1 DEF Given, Part
<1> QED BY <1>1, <1>2, <1>3, <1>4 DEF Part, InvalidIn, InPart

LEMMA HistogramStep ==
  ASSUME NEW w, NEW bad, Given(w, bad), NEW b \in Blocks, ChunkHistogram(b)
  PROVE  Promise(w, bad)'
<1>1. Promise(w, bad) /\ w \in Keys /\ UNCHANGED <<inputs, bases, metadata, permutation, tiles>>
      /\ Run("histogram", b, "prefix") /\ b \in BlocksOf(counted)
  BY BlockNames DEF Given, ChunkHistogram
<1>2. UNCHANGED counted /\ UNCHANGED include_tiles
  BY <1>1 DEF inputs
<1>3. /\ kernel = "histogram" /\ b \in todo /\ Launch(counted', kernel', todo')
      /\ \/ kernel' = "prefix" /\ todo = {b}
         \/ kernel' = "histogram" /\ todo' = todo \ {b}
  BY <1>1, <1>2, RunIs DEF Promise
<1>4. counted /\ Course(counted, include_tiles, kernel) /\ Course(counted', include_tiles', kernel')
  BY <1>1, <1>2, <1>3 DEF Promise, Course, CountedKernels, GeneralKernels, Routes
<1>5. keys' = [a \in Assignments |-> IF a \in InBlock(b) THEN Key(a) ELSE keys[a]]
  BY DEF ChunkHistogram
<1>6. /\ \A a \in Part(counted, b) : keys'[a] = w[a]
      /\ \A d \in BlocksOf(counted) : d # b => \A a \in Part(counted, d) : keys'[a] = keys[a]
      /\ keys' \in [Assignments -> Bins \cup {Stale}]
      /\ InvalidIn(b) = InPart(bad, counted, b)
  BY <1>1, <1>5, KeysKept
<1>7. Typed(<<ids, mask>>, keys, counts, offsets, order, inverse, call)'
  BY <1>1, <1>6 DEF Promise, Typed, inputs, metadata, permutation
<1>8. Keyed(w, bad, counted, kernel, todo, keys, invalid, histogram)
  BY <1>1 DEF Promise
<1>9. \A e \in Bins : Cardinality({a \in InBlock(b) : Key(a) % 2 ^ Width = e})
                      = InPart(With(w, e), counted, b)
  <2>1. ASSUME NEW a \in Assignments PROVE Key(a) % 2 ^ Width = w[a]
    <3>1. Key(a) = w[a] /\ w[a] \in 0 .. Experts
      BY <1>1, Keyword, KeyOf DEF Given
    <3>2. PICK d, v : d = 2 ^ Width /\ v = w[a]
      OBVIOUS
    <3>3. d \in Nat \ {0} /\ v \in 0 .. d - 1 /\ v = 0 * d + v /\ 0 \in Nat
      BY <3>1, <3>2, Sizes
    <3>4. v % d = v
      BY ONLY <3>3, Division
    <3> QED BY <3>1, <3>2, <3>4
  <2>2. ASSUME NEW e \in Bins
        PROVE  {a \in InBlock(b) : Key(a) % 2 ^ Width = e}
                 = {a \in With(w, e) : a \div SizeOf(counted) = b}
    BY <2>1, BlockNames DEF Part, With
  <2> QED BY <2>2 DEF InPart
<1>10. /\ DOMAIN invalid' = BlocksOf(counted) /\ DOMAIN histogram' = BlocksOf(counted)
       /\ invalid'[b] = InvalidIn(b) /\ \A d \in BlocksOf(counted) : d # b => invalid'[d] = invalid[d]
       /\ \A d \in BlocksOf(counted) : d # b => histogram'[d] = histogram[d]
       /\ \A e \in Bins : histogram'[b][e] = InPart(With(w, e), counted, b)
  BY <1>1, <1>8, <1>9 DEF ChunkHistogram, Keyed
<1>11. Keyed(w, bad, counted, kernel, todo, keys, invalid, histogram)'
  <2>1. ASSUME NEW d \in BlocksOf(counted), kernel' \in {"histogram", "keys"} => d \notin todo', d # b
        PROVE  d \notin todo
    BY <1>3, <2>1
  <2>2. ASSUME NEW d \in BlocksOf(counted), kernel' \in {"histogram", "keys"} => d \notin todo'
        PROVE  /\ \A a \in Part(counted, d) : keys'[a] = w[a]
               /\ invalid'[d] = InPart(bad, counted, d)
               /\ \A e \in Bins : histogram'[d][e] = InPart(With(w, e), counted, d)
    <3>1. CASE d = b
      BY <1>6, <1>9, <1>10, <3>1
    <3>2. CASE d # b
      <4>1. d \notin todo
        BY <2>1, <2>2, <3>2
      <4>2. /\ \A a \in Part(counted, d) : keys[a] = w[a]
            /\ invalid[d] = InPart(bad, counted, d)
            /\ \A e \in Bins : histogram[d][e] = InPart(With(w, e), counted, d)
        BY <1>4, <1>8, <4>1 DEF Keyed
      <4>3. \A a \in Part(counted, d) : keys'[a] = w[a]
        BY <1>6, <3>2, <4>2
      <4> QED BY <1>10, <3>2, <4>2, <4>3
    <3> QED BY <3>1, <3>2
  <2> QED BY <1>2, <1>10, <2>2 DEF Keyed
<1>12. Based(w, counted, kernel, bases)' /\ Scattered(w, counted, kernel, todo, order, inverse)'
       /\ Counting(w, counted, kernel, todo, order, counts, inverse)'
       /\ Measured(w, bad, kernel, counts, offsets, statistics)' /\ Sorting(w, kernel, order, inverse)'
       /\ TileOffsets(w, include_tiles, kernel, tile_offsets)'
  BY <1>2, <1>3, <1>4 DEF Based, Scattered, Counting, Argsorted, Measured, Sorting, TileOffsets, Routes
<1>13. Tiled(w, kernel, todo, tile_experts, tile_starts)'
  BY <1>1, <1>3 DEF Promise, Tiled, tiles
<1> QED BY <1>3, <1>4, <1>7, <1>11, <1>12, <1>13 DEF Promise

LEMMA KeysStep ==
  ASSUME NEW w, NEW bad, Given(w, bad), NEW b \in Blocks, RoutingKeys(b)
  PROVE  Promise(w, bad)'
<1>1. Promise(w, bad) /\ w \in Keys /\ UNCHANGED <<inputs, bases, metadata, permutation, tiles>>
      /\ UNCHANGED histogram /\ Run("keys", b, "argsort") /\ b \in BlocksOf(counted)
  BY BlockNames DEF Given, RoutingKeys
<1>2. UNCHANGED counted /\ UNCHANGED include_tiles
  BY <1>1 DEF inputs
<1>3. /\ kernel = "keys" /\ b \in todo /\ Launch(counted', kernel', todo')
      /\ \/ kernel' = "argsort" /\ todo = {b}
         \/ kernel' = "keys" /\ todo' = todo \ {b}
  BY <1>1, <1>2, RunIs DEF Promise
<1>4. ~counted /\ Course(counted, include_tiles, kernel) /\ Course(counted', include_tiles', kernel')
  BY <1>1, <1>2, <1>3 DEF Promise, Course, CountedKernels, GeneralKernels, Routes
<1>5. keys' = [a \in Assignments |-> IF a \in InBlock(b) THEN Key(a) ELSE keys[a]]
  BY DEF RoutingKeys
<1>6. /\ \A a \in Part(counted, b) : keys'[a] = w[a]
      /\ \A d \in BlocksOf(counted) : d # b => \A a \in Part(counted, d) : keys'[a] = keys[a]
      /\ keys' \in [Assignments -> Bins \cup {Stale}]
      /\ InvalidIn(b) = InPart(bad, counted, b)
  BY <1>1, <1>5, KeysKept
<1>7. Typed(<<ids, mask>>, keys, counts, offsets, order, inverse, call)'
  BY <1>1, <1>6 DEF Promise, Typed, inputs, metadata, permutation
<1>8. Keyed(w, bad, counted, kernel, todo, keys, invalid, histogram)
  BY <1>1 DEF Promise
<1>9. /\ DOMAIN invalid' = BlocksOf(counted) /\ DOMAIN histogram' = BlocksOf(counted)
      /\ invalid'[b] = InvalidIn(b) /\ \A d \in BlocksOf(counted) : d # b => invalid'[d] = invalid[d]
  BY <1>1, <1>8 DEF RoutingKeys, Keyed
<1>10. Keyed(w, bad, counted, kernel, todo, keys, invalid, histogram)'
  <2>1. ASSUME NEW d \in BlocksOf(counted), kernel' \in {"histogram", "keys"} => d \notin todo', d # b
        PROVE  d \notin todo
    BY <1>3, <2>1
  <2>2. ASSUME NEW d \in BlocksOf(counted), kernel' \in {"histogram", "keys"} => d \notin todo'
        PROVE  /\ \A a \in Part(counted, d) : keys'[a] = w[a]
               /\ invalid'[d] = InPart(bad, counted, d)
    <3>1. CASE d = b
      BY <1>6, <1>9, <3>1
    <3>2. CASE d # b
      <4>1. d \notin todo
        BY <2>1, <2>2, <3>2
      <4> QED BY <1>4, <1>6, <1>8, <1>9, <3>2, <4>1 DEF Keyed
    <3> QED BY <3>1, <3>2
  <2> QED BY <1>2, <1>4, <1>9, <2>2 DEF Keyed
<1>11. Based(w, counted, kernel, bases)' /\ Scattered(w, counted, kernel, todo, order, inverse)'
       /\ Counting(w, counted, kernel, todo, order, counts, inverse)'
       /\ Measured(w, bad, kernel, counts, offsets, statistics)' /\ Sorting(w, kernel, order, inverse)'
       /\ TileOffsets(w, include_tiles, kernel, tile_offsets)'
  BY <1>2, <1>3, <1>4 DEF Based, Scattered, Counting, Argsorted, Measured, Sorting, TileOffsets, Routes
<1>12. Tiled(w, kernel, todo, tile_experts, tile_starts)'
  BY <1>1, <1>3 DEF Promise, Tiled, tiles
<1> QED BY <1>3, <1>4, <1>7, <1>10, <1>11, <1>12 DEF Promise

\* What the prefix kernels compute from exact counts.
LEMMA StatisticsExact ==
  ASSUME NEW w, NEW bad, Given(w, bad), kernel \notin {"histogram", "keys"},
         NEW count, \A e \in ExpertSet : count[e] = CountOf(w, e),
         NEW offset, \A e \in Bins : offset[e] = StartOf(w, e)
  PROVE  Exact(w, bad, count, offset, StatisticsOf(count))
<1>1. w \in Keys /\ bad \subseteq Assignments /\ Experts \in Nat /\ Experts # 0
      /\ Keyed(w, bad, counted, kernel, todo, keys, invalid, histogram)
  BY Sizes DEF Given, Promise
<1>2. \A i \in 0 .. Experts - 1 : i \in ExpertSet /\ count[i] = CountOf(w, i) /\ count[i] \in Nat
  BY <1>1, CountTypes DEF ExpertSet
<1>3. Largest(count, Experts) = StatisticsOf(count).maximum
      /\ Prefix(count, Experts) = StatisticsOf(count).total
      /\ Prefix(invalid, BlockCount) = StatisticsOf(count).invalid
  BY DEF StatisticsOf
<1>4. /\ \A i \in 0 .. Experts - 1 : count[i] <= Largest(count, Experts)
      /\ \E i \in 0 .. Experts - 1 : count[i] = Largest(count, Experts)
  BY <1>1, <1>2, LargestIs
<1>5. Prefix(count, Experts) = Cardinality(Routed(w))
  <2>1. Experts \in Bins
    BY <1>1 DEF Bins
  <2>2. Prefix(count, Experts) = StartOf(w, Experts)
    BY <1>1, <2>1, KeySums
  <2> QED BY <1>1, <2>2, RoutedPrefix
<1>6. Prefix(invalid, BlockCount) = Cardinality(bad)
  <2>1. \A b \in BlocksOf(counted) : invalid[b] = InPart(bad, counted, b)
    BY <1>1 DEF Keyed
  <2>2. Prefix(invalid, CeilDiv(Slots, SizeOf(counted))) = Cardinality(bad)
    BY <1>1, <2>1, BlockTotals
  <2> QED BY <2>2, BlockNames
<1>7. /\ \A e \in ExpertSet : CountOf(w, e) <= Largest(count, Experts)
      /\ \E e \in ExpertSet : CountOf(w, e) = Largest(count, Experts)
  BY <1>2, <1>4 DEF ExpertSet
<1> QED BY <1>3, <1>5, <1>6, <1>7 DEF Exact

LEMMA TileEndsExact ==
  ASSUME NEW w, NEW count, \A e \in ExpertSet : count[e] = CountOf(w, e), NEW e \in Bins
  PROVE  TileEnds(count)[e] = TilesBefore(w, e)
<1>1. [x \in ExpertSet |-> CeilDiv(count[x], BlockM)] = [x \in ExpertSet |-> ExpertTiles(w, x)]
  BY DEF ExpertTiles
<1> QED BY <1>1 DEF TileEnds, TilesBefore

LEMMA TotalsExact ==
  ASSUME NEW w, NEW bad, Given(w, bad), kernel = "prefix", counted
  PROVE  /\ \A e \in Bins : Totals[e] = CountOf(w, e)
         /\ \A e \in Bins : Prefix(Totals, e) = StartOf(w, e)
         /\ \A b \in Blocks, e \in Bins :
              Base(b, e) = StartOf(w, e) + Cardinality(Ahead(With(w, e), counted, b))
<1>1. w \in Keys /\ Keyed(w, bad, counted, kernel, todo, keys, invalid, histogram)
  BY DEF Given, Promise
<1>2. ASSUME NEW e \in Bins
      PROVE  \A b \in BlocksOf(counted) : InChunks(e)[b] = InPart(With(w, e), counted, b)
  BY <1>1, BlockNames DEF InChunks, Keyed
<1>3. ASSUME NEW e \in Bins, NEW f, f = InChunks(e)
      PROVE  /\ Prefix(f, CeilDiv(Slots, SizeOf(counted))) = Cardinality(With(w, e))
             /\ \A b \in BlocksOf(counted) : Prefix(f, b) = Cardinality(Ahead(With(w, e), counted, b))
  <2>1. \A b \in BlocksOf(counted) : f[b] = InPart(With(w, e), counted, b)
    BY <1>2, <1>3
  <2>2. With(w, e) \subseteq Assignments
    BY DEF With
  <2> QED BY ONLY <2>1, <2>2, BlockTotals
<1>4. ASSUME NEW e \in Bins
      PROVE  /\ Totals[e] = CountOf(w, e)
             /\ \A b \in Blocks : Prefix(InChunks(e), b) = Cardinality(Ahead(With(w, e), counted, b))
  <2>1. Totals[e] = Prefix(InChunks(e), CeilDiv(Slots, SizeOf(counted)))
    BY BlockNames DEF Totals
  <2>2. CountOf(w, e) = Cardinality(With(w, e))
    BY <1>1, CountTypes
  <2> QED BY <1>3, <2>1, <2>2, BlockNames
<1>5. \A e \in ExpertSet : Totals[e] = CountOf(w, e)
  <2>1. \A e \in ExpertSet : e \in Bins
    BY Sizes DEF ExpertSet, Bins
  <2> QED BY <1>4, <2>1
<1>6. \A e \in Bins : Prefix(Totals, e) = StartOf(w, e)
  BY <1>1, <1>5, KeySums
<1> QED BY <1>4, <1>6 DEF Base

LEMMA StartsType ==
  ASSUME NEW w \in Keys, NEW e \in Bins
  PROVE  StartOf(w, e) \in 0 .. Slots /\ CountOf(w, e) \in 0 .. Slots
<1>1. Under(w, e) \subseteq Assignments
  BY DEF Under
<1>2. Cardinality(Under(w, e)) <= Slots
  BY <1>1, PartLe, AssignmentsFinite
<1> QED BY <1>2, CountTypes, Sizes

LEMMA PrefixStep ==
  ASSUME NEW w, NEW bad, Given(w, bad), ChunkPrefix
  PROVE  Promise(w, bad)'
<1>1. /\ Promise(w, bad) /\ w \in Keys /\ counted /\ Run("prefix", 0, "scatter")
      /\ UNCHANGED <<inputs, keys, invalid, histogram, permutation, tile_experts, tile_starts>>
  BY DEF Given, ChunkPrefix
<1>2. UNCHANGED counted /\ UNCHANGED include_tiles
  BY <1>1 DEF inputs
<1>3. /\ kernel = "prefix" /\ 0 \in todo /\ Launch(counted', kernel', todo')
      /\ \/ kernel' = "scatter" /\ todo' = Progs(counted, "scatter")
         \/ kernel' = "prefix" /\ todo' = todo \ {0}
  BY <1>1, <1>2, RunIs DEF Promise
<1>4. kernel' = "scatter" /\ todo' = BlocksOf(counted) \X Bins
  <2>1. todo \subseteq {0}
    BY <1>1, <1>3 DEF Promise, Launch, Progs
  <2> QED BY <1>3, <2>1 DEF Launch, Progs
<1>5. Course(counted, include_tiles, kernel)'
  BY <1>1, <1>2, <1>4 DEF Promise, Course, CountedKernels, GeneralKernels, Routes
<1>6. /\ \A e \in Bins : Totals[e] = CountOf(w, e)
      /\ \A e \in Bins : Prefix(Totals, e) = StartOf(w, e)
      /\ \A b \in Blocks, e \in Bins :
           Base(b, e) = StartOf(w, e) + Cardinality(Ahead(With(w, e), counted, b))
  BY <1>1, <1>3, TotalsExact
<1>7. PICK count : count = [e \in ExpertSet |-> Totals[e]]
  OBVIOUS
<1>8. /\ counts' = count /\ offsets' = [e \in Bins |-> Prefix(Totals, e)]
      /\ bases' = [b \in Blocks |-> [e \in Bins |-> Base(b, e)]]
      /\ tile_offsets' = IF include_tiles THEN TileEnds(count) ELSE tile_offsets
      /\ statistics' = StatisticsOf(count)
  BY <1>7 DEF ChunkPrefix
<1>9. /\ \A e \in ExpertSet : count[e] = CountOf(w, e)
      /\ \A e \in Bins : offsets'[e] = StartOf(w, e)
  <2>1. \A e \in ExpertSet : e \in Bins
    BY Sizes DEF ExpertSet, Bins
  <2> QED BY <1>6, <1>7, <1>8, <2>1
<1>10. Exact(w, bad, counts', offsets', statistics')
  BY <1>3, <1>8, <1>9, StatisticsExact
<1>11. Typed(<<ids, mask>>, keys, counts, offsets, order, inverse, call)'
  <2>1. \A e \in ExpertSet : e \in Bins
    BY Sizes DEF ExpertSet, Bins
  <2>2. \A e \in Bins : StartOf(w, e) \in 0 .. Slots /\ CountOf(w, e) \in 0 .. Slots
    BY <1>1, StartsType
  <2>3. counts' \in [ExpertSet -> (0 .. Slots) \cup {Stale}]
        /\ offsets' \in [Bins -> (0 .. Slots) \cup {Stale}]
    BY <1>7, <1>8, <1>9, <2>1, <2>2
  <2> QED BY <1>1, <2>3 DEF Promise, Typed, inputs, permutation
<1>12. Keyed(w, bad, counted, kernel, todo, keys, invalid, histogram)'
  <2>1. Keyed(w, bad, counted, kernel, todo, keys, invalid, histogram)
    BY <1>1 DEF Promise
  <2> QED BY <1>1, <1>2, <1>3, <1>4, <2>1 DEF Keyed
<1>13. Based(w, counted, kernel, bases)'
  BY <1>2, <1>6, <1>8, BlockNames DEF Based
<1>14. Scattered(w, counted, kernel, todo, order, inverse)'
  <2>1. ASSUME NEW a \in Assignments PROVE <<a \div SizeOf(counted), w[a]>> \in todo'
    BY <1>1, <1>4, BlockIs DEF Keys
  <2> QED BY <1>2, <2>1 DEF Scattered
<1>15. Counting(w, counted, kernel, todo, order, counts, inverse)' /\ Sorting(w, kernel, order, inverse)'
       /\ Measured(w, bad, kernel, counts, offsets, statistics)'
  BY <1>1, <1>2, <1>4, <1>10 DEF Counting, Argsorted, Sorting, Measured, Routes
<1>16. TileOffsets(w, include_tiles, kernel, tile_offsets)'
  BY <1>2, <1>4, <1>8, <1>9, TileEndsExact DEF TileOffsets
<1>17. Tiled(w, kernel, todo, tile_experts, tile_starts)'
  BY <1>1, <1>4 DEF Promise, Tiled
<1> QED BY <1>3, <1>5, <1>11, <1>12, <1>13, <1>14, <1>15, <1>16, <1>17 DEF Promise

\* After the first kernel every assignment has its key.
LEMMA AllKeyed ==
  ASSUME NEW w, NEW bad, Given(w, bad), kernel \notin {"histogram", "keys"}
  PROVE  \A a \in Assignments : keys[a] = w[a]
<1>1. Keyed(w, bad, counted, kernel, todo, keys, invalid, histogram)
  BY DEF Given, Promise
<1>2. ASSUME NEW a \in Assignments PROVE keys[a] = w[a]
  <2>1. a \div SizeOf(counted) \in BlocksOf(counted) /\ a \in Part(counted, a \div SizeOf(counted))
    BY BlockIs DEF Part
  <2> QED BY <1>1, <2>1 DEF Keyed
<1> QED BY <1>2

\* What one program of the scatter stores: its share, each assignment to its
\* place in the stable sort.
LEMMA ScatterPlaces ==
  ASSUME NEW w, NEW bad, Given(w, bad), kernel = "scatter",
         NEW b \in Blocks, NEW e \in Bins, ChunkScatter(b, e),
         NEW mine, mine = Share(w, counted, b, e)
  PROVE  /\ \A a \in mine : Placed(w, a, order', inverse')
         /\ \A a \in Assignments \ mine : order'[Rank(w, a)] = order[Rank(w, a)] /\ inverse'[a] = inverse[a]
         /\ order' \in [Assignments -> Assignments \cup {Stale}]
         /\ inverse' \in [Assignments -> Assignments \cup {-1, Stale}]
<1>1. /\ w \in Keys /\ b \in BlocksOf(counted) /\ Based(w, counted, kernel, bases)
      /\ order \in [Assignments -> Assignments \cup {Stale}]
      /\ inverse \in [Assignments -> Assignments \cup {-1, Stale}]
  BY BlockNames DEF Given, Promise, Typed
<1>2. \A a \in Assignments : keys[a] = w[a]
  BY AllKeyed
<1>3. {a \in InBlock(b) : keys[a] = e} = mine
  BY <1>2, BlockNames DEF Part, Share
<1>4. ASSUME NEW a \in mine
      PROVE  bases[b][e] + Cardinality({x \in mine : x < a}) = Rank(w, a)
  <2>1. bases[b][e] = StartOf(w, e) + Cardinality(Ahead(With(w, e), counted, b))
    BY <1>1 DEF Based
  <2>2. a \in Assignments /\ b = a \div SizeOf(counted) /\ e = w[a]
    BY DEF Share
  <2>3. Rank(w, a) = StartOf(w, e) + Cardinality(Ahead(With(w, e), counted, b))
                     + Cardinality({x \in mine : x < a})
    BY <1>1, <2>2, RankByBlocks
  <2> QED BY <2>1, <2>3
<1> DEFINE source(s) == {a \in mine : Rank(w, a) = s}
<1>5. /\ order' = [s \in Assignments |-> order'[s]]
      /\ \A s \in Assignments : IF source(s) = {} THEN order'[s] = order[s] ELSE order'[s] \in source(s)
      /\ inverse' = [a \in Assignments |->
           IF a \notin mine THEN inverse[a] ELSE IF e < Experts THEN Rank(w, a) ELSE -1]
  <2> DEFINE chosen == {a \in InBlock(b) : keys[a] = e}
             slot(a) == bases[b][e] + Cardinality({x \in chosen : x < a})
             drawn(s) == {a \in chosen : slot(a) = s}
  <2>1. /\ order' = [s \in Assignments |-> IF drawn(s) = {} THEN order[s] ELSE CHOOSE a \in drawn(s) : TRUE]
        /\ inverse' = [a \in Assignments |->
             IF a \notin chosen THEN inverse[a] ELSE IF e < Experts THEN slot(a) ELSE -1]
    BY DEF ChunkScatter
  <2>2. chosen = mine
    BY <1>3
  <2> HIDE DEF chosen
  <2>3. \A a \in mine : slot(a) = Rank(w, a)
    BY <1>4, <2>2
  <2> HIDE DEF slot
  <2>4. \A s : drawn(s) = source(s)
    BY <2>2, <2>3
  <2> HIDE DEF drawn, source
  <2>5. \A s : drawn(s) # {} => (CHOOSE a \in drawn(s) : TRUE) \in drawn(s)
    OBVIOUS
  <2>6. \A s \in Assignments : IF drawn(s) = {} THEN order'[s] = order[s] ELSE order'[s] \in drawn(s)
    BY <2>1, <2>5
  <2>7. order' = [s \in Assignments |-> order'[s]]
    BY <2>1
  <2>8. \A s \in Assignments : IF source(s) = {} THEN order'[s] = order[s] ELSE order'[s] \in source(s)
    BY <2>4, <2>6
  <2> QED BY <2>1, <2>2, <2>3, <2>7, <2>8
<1>6. \A a \in mine : a \in Assignments /\ Rank(w, a) \in Assignments /\ source(Rank(w, a)) = {a}
  BY <1>1, RankType, RankDistinct DEF Share
<1>7. \A a \in Assignments \ mine : Rank(w, a) \in Assignments /\ source(Rank(w, a)) = {}
  BY <1>1, RankType, RankDistinct DEF Share
<1>8. \A s \in Assignments : source(s) \subseteq Assignments
  BY DEF Share
<1>9. \A a \in mine : a \in Routed(w) <=> e < Experts
  BY DEF Routed, Share
<1> HIDE DEF source
<1>10. ASSUME NEW a \in mine PROVE Placed(w, a, order', inverse')
  <2>1. order'[Rank(w, a)] \in {a}
    BY <1>5, <1>6
  <2>2. a \in Assignments
    BY <1>6
  <2>3. inverse'[a] = IF e < Experts THEN Rank(w, a) ELSE -1
    BY <1>5, <2>2
  <2> QED BY <1>9, <2>1, <2>3 DEF Placed
<1>11. ASSUME NEW a \in Assignments \ mine
       PROVE  order'[Rank(w, a)] = order[Rank(w, a)] /\ inverse'[a] = inverse[a]
  BY <1>5, <1>7
<1>12. order' \in [Assignments -> Assignments \cup {Stale}]
  <2>1. \A s \in Assignments : order'[s] \in Assignments \cup {Stale}
    BY <1>1, <1>5, <1>8
  <2> QED BY <1>5, <2>1
<1>13. inverse' \in [Assignments -> Assignments \cup {-1, Stale}]
  BY <1>1, <1>5, <1>6
<1> QED BY <1>10, <1>11, <1>12, <1>13

LEMMA ScatterStep ==
  ASSUME NEW w, NEW bad, Given(w, bad), NEW b \in Blocks, NEW e \in Bins, ChunkScatter(b, e)
  PROVE  Promise(w, bad)'
<1>1. /\ Promise(w, bad) /\ w \in Keys /\ Run("scatter", <<b, e>>, AfterRoutes)
      /\ UNCHANGED <<inputs, sorting, metadata, tiles>>
  BY DEF Given, ChunkScatter
<1>2. UNCHANGED counted /\ UNCHANGED include_tiles
  BY <1>1 DEF inputs
<1>3. /\ kernel = "scatter" /\ <<b, e>> \in todo /\ Launch(counted', kernel', todo')
      /\ \/ kernel' = AfterRoutes /\ todo = {<<b, e>>} /\ todo' = Progs(counted, AfterRoutes)
         \/ kernel' = "scatter" /\ todo' = todo \ {<<b, e>>}
  BY <1>1, <1>2, RunIs DEF Promise
<1>4. counted /\ Course(counted, include_tiles, kernel) /\ Course(counted', include_tiles', kernel')
      /\ kernel' \in {"scatter", AfterRoutes} /\ AfterRoutes \in {"tiles", "deferred"}
      /\ (AfterRoutes = "tiles" <=> include_tiles)
  BY <1>1, <1>2, <1>3 DEF Promise, Course, CountedKernels, GeneralKernels, Routes, AfterRoutes
<1>5. PICK mine : mine = Share(w, counted, b, e)
  OBVIOUS
<1>6. /\ \A a \in mine : Placed(w, a, order', inverse')
      /\ \A a \in Assignments \ mine : order'[Rank(w, a)] = order[Rank(w, a)] /\ inverse'[a] = inverse[a]
      /\ order' \in [Assignments -> Assignments \cup {Stale}]
      /\ inverse' \in [Assignments -> Assignments \cup {-1, Stale}]
  BY <1>3, <1>5, ScatterPlaces
<1>7. Typed(<<ids, mask>>, keys, counts, offsets, order, inverse, call)'
  BY <1>1, <1>6 DEF Promise, Typed, inputs, metadata, sorting
<1>8. Keyed(w, bad, counted, kernel, todo, keys, invalid, histogram)'
  BY <1>1, <1>2, <1>3, <1>4 DEF Promise, Keyed, sorting
<1>9. Based(w, counted, kernel, bases)'
  BY <1>1, <1>2, <1>3 DEF Promise, Based, sorting
<1>10. ASSUME NEW a \in Assignments, <<a \div SizeOf(counted), w[a]>> \notin todo \ {<<b, e>>}
       PROVE  Placed(w, a, order', inverse')
  <2>1. CASE a \in mine
    BY <1>6, <2>1
  <2>2. CASE a \notin mine
    <3>1. <<a \div SizeOf(counted), w[a]>> # <<b, e>>
      BY <1>5, <2>2 DEF Share
    <3>2. Placed(w, a, order, inverse)
      BY <1>1, <1>3, <1>10, <3>1 DEF Promise, Scattered
    <3> QED BY <1>6, <2>2, <3>2 DEF Placed
  <2> QED BY <2>1, <2>2
<1>11. Scattered(w, counted, kernel, todo, order, inverse)'
  BY <1>2, <1>3, <1>4, <1>10 DEF Scattered
<1>12. Sorting(w, kernel, order, inverse)'
  <2>1. CASE kernel' = "scatter"
    BY <2>1 DEF Sorting, Routes
  <2>2. CASE kernel' # "scatter"
    <3>1. todo \ {<<b, e>>} = {}
      BY <1>3, <2>2
    <3> QED BY <1>10, <3>1 DEF Sorting
  <2> QED BY <2>1, <2>2
<1>13. Counting(w, counted, kernel, todo, order, counts, inverse)'
  BY <1>2, <1>4 DEF Counting, Argsorted
<1>14. Measured(w, bad, kernel, counts, offsets, statistics)'
  BY <1>1, <1>3 DEF Promise, Measured, metadata
<1>15. TileOffsets(w, include_tiles, kernel, tile_offsets)'
  BY <1>1, <1>2, <1>3, <1>4 DEF Promise, TileOffsets, tiles
<1>16. Tiled(w, kernel, todo, tile_experts, tile_starts)'
  <2>1. kernel' = "tiles" => todo' = TileBlocks
    BY <1>3, <1>4 DEF Progs
  <2>2. kernel' # "ready"
    BY <1>4
  <2>3. \A t \in Tiles : t \div TileBlock \in TileBlocks
    BY LaunchesNonempty
  <2> QED BY <1>1, <2>1, <2>2, <2>3 DEF Promise, Tiled, tiles
<1> QED BY <1>3, <1>4, <1>7, <1>8, <1>9, <1>11, <1>12, <1>13, <1>14, <1>15, <1>16 DEF Promise

LEMMA ArgsortStep ==
  ASSUME NEW w, NEW bad, Given(w, bad), Argsort
  PROVE  Promise(w, bad)'
<1>1. /\ Promise(w, bad) /\ w \in Keys /\ Run("argsort", 0, "zero") /\ order' = Sorted(keys)
      /\ UNCHANGED <<inputs, sorting, metadata, inverse, tiles>>
  BY DEF Given, Argsort
<1>2. UNCHANGED counted /\ UNCHANGED include_tiles
  BY <1>1 DEF inputs
<1>3. /\ kernel = "argsort" /\ 0 \in todo /\ Launch(counted', kernel', todo')
      /\ \/ kernel' = "zero"
         \/ kernel' = "argsort" /\ todo' = todo \ {0}
  BY <1>1, <1>2, RunIs DEF Promise
<1>4. kernel' = "zero"
  <2>1. todo \subseteq {0}
    BY <1>1, <1>3 DEF Promise, Launch, Progs
  <2> QED BY <1>3, <2>1 DEF Launch
<1>5. ~counted /\ Course(counted', include_tiles', kernel')
  BY <1>1, <1>2, <1>3, <1>4 DEF Promise, Course, CountedKernels, GeneralKernels, Routes
<1>6. keys = w
  <2>1. \A a \in Assignments : keys[a] = w[a]
    BY <1>3, AllKeyed
  <2>2. DOMAIN keys = Assignments /\ keys = [a \in Assignments |-> keys[a]] /\ w = [a \in Assignments |-> w[a]]
    BY <1>1 DEF Promise, Typed, Keys
  <2> QED BY <2>1, <2>2
<1>7. order' = Sorted(w) /\ order' \in [Assignments -> Assignments \cup {Stale}]
  <2>1. \A s \in Assignments : Sorted(w)[s] \in Assignments
    BY <1>1, SortedRank
  <2>2. Sorted(w) = [s \in Assignments |-> Sorted(w)[s]]
    BY DEF Sorted
  <2> QED BY <1>1, <1>6, <2>1, <2>2
<1>8. Typed(<<ids, mask>>, keys, counts, offsets, order, inverse, call)'
  BY <1>1, <1>7 DEF Promise, Typed, inputs, metadata, sorting
<1>9. Keyed(w, bad, counted, kernel, todo, keys, invalid, histogram)'
  BY <1>1, <1>2, <1>3, <1>4 DEF Promise, Keyed, sorting
<1>10. Counting(w, counted, kernel, todo, order, counts, inverse)'
  BY <1>4, <1>7 DEF Counting
<1>11. Based(w, counted, kernel, bases)' /\ Scattered(w, counted, kernel, todo, order, inverse)'
       /\ Measured(w, bad, kernel, counts, offsets, statistics)' /\ Sorting(w, kernel, order, inverse)'
       /\ TileOffsets(w, include_tiles, kernel, tile_offsets)'
  BY <1>2, <1>4 DEF Based, Scattered, Measured, Sorting, TileOffsets, Routes
<1>12. Tiled(w, kernel, todo, tile_experts, tile_starts)'
  BY <1>1, <1>4 DEF Promise, Tiled, tiles
<1> QED BY <1>3, <1>5, <1>8, <1>9, <1>10, <1>11, <1>12 DEF Promise

LEMMA ZeroStep ==
  ASSUME NEW w, NEW bad, Given(w, bad), ZeroCounts
  PROVE  Promise(w, bad)'
<1>1. /\ Promise(w, bad) /\ w \in Keys /\ Run("zero", 0, "inverse")
      /\ counts' = [e \in ExpertSet |-> 0]
      /\ UNCHANGED <<inputs, sorting, offsets, statistics, permutation, tiles>>
  BY DEF Given, ZeroCounts, CountsCleared
<1>2. UNCHANGED counted /\ UNCHANGED include_tiles
  BY <1>1 DEF inputs
<1>3. /\ kernel = "zero" /\ 0 \in todo /\ Launch(counted', kernel', todo')
      /\ \/ kernel' = "inverse" /\ todo' = Progs(counted, "inverse")
         \/ kernel' = "zero" /\ todo' = todo \ {0}
  BY <1>1, <1>2, RunIs DEF Promise
<1>4. kernel' = "inverse" /\ todo' = Assignments
  <2>1. todo \subseteq {0}
    BY <1>1, <1>3 DEF Promise, Launch, Progs
  <2> QED BY <1>3, <2>1 DEF Launch, Progs
<1>5. ~counted /\ Course(counted', include_tiles', kernel')
  BY <1>1, <1>2, <1>3, <1>4 DEF Promise, Course, CountedKernels, GeneralKernels, Routes
<1>6. Typed(<<ids, mask>>, keys, counts, offsets, order, inverse, call)'
  BY <1>1, Sizes DEF Promise, Typed, inputs, permutation, sorting
<1>7. Keyed(w, bad, counted, kernel, todo, keys, invalid, histogram)'
  BY <1>1, <1>2, <1>3, <1>4 DEF Promise, Keyed, sorting
<1>8. Counting(w, counted, kernel, todo, order, counts, inverse)'
  <2>1. order = Sorted(w)
    BY <1>1, <1>3, <1>5 DEF Promise, Counting, Argsorted
  <2>2. LanesRun(kernel', todo') = {}
    BY <1>4 DEF LanesRun
  <2>3. \A e : Ranked(w, e, {}) = {}
    BY DEF Ranked
  <2>4. Cardinality({}) = 0
    BY FS_EmptySet
  <2>5. \A e \in ExpertSet : counts'[e] = Cardinality(Ranked(w, e, LanesRun(kernel', todo')))
    BY <1>1, <2>2, <2>3, <2>4
  <2> QED BY <1>1, <2>1, <2>2, <2>5 DEF Counting, permutation
<1>9. Based(w, counted, kernel, bases)' /\ Scattered(w, counted, kernel, todo, order, inverse)'
      /\ Measured(w, bad, kernel, counts, offsets, statistics)' /\ Sorting(w, kernel, order, inverse)'
      /\ TileOffsets(w, include_tiles, kernel, tile_offsets)'
  BY <1>2, <1>4 DEF Based, Scattered, Measured, Sorting, TileOffsets, Routes
<1>10. Tiled(w, kernel, todo, tile_experts, tile_starts)'
  BY <1>1, <1>4 DEF Promise, Tiled, tiles
<1> QED BY <1>3, <1>5, <1>6, <1>7, <1>8, <1>9, <1>10 DEF Promise

\* A lane adds one to the count of its assignment's expert: the assignments
\* whose lanes have run are one more.
LEMMA LaneCounts ==
  ASSUME NEW w \in Keys, NEW D, D \subseteq Assignments, NEW s \in Assignments \ D,
         NEW a \in Assignments, Rank(w, a) = s, NEW e,
         NEW old, old = Ranked(w, e, D), NEW new, new = Ranked(w, e, D \cup {s})
  PROVE  /\ Cardinality(new) = IF w[a] = e THEN Cardinality(old) + 1 ELSE Cardinality(old)
         /\ Cardinality(new) \in 0 .. Slots
<1>1. \A x \in Assignments : Rank(w, x) = s <=> x = a
  BY RankDistinct
<1>2. /\ w[a] = e => new = old \cup {a}
      /\ w[a] # e => new = old
  BY <1>1 DEF Ranked
<1>3. a \notin old /\ old \subseteq Assignments /\ new \subseteq Assignments
  BY DEF Ranked
<1>4. IsFiniteSet(old) /\ Cardinality(old) \in Nat
  BY <1>3, PartFinite
<1>5. Cardinality(old \cup {a}) = Cardinality(old) + 1
  BY <1>3, <1>4, FS_AddElement
<1>6. Cardinality(new) \in Nat /\ Cardinality(new) <= Slots
  BY <1>3, PartFinite, PartLe, AssignmentsFinite
<1>7. Cardinality(new) = IF w[a] = e THEN Cardinality(old) + 1 ELSE Cardinality(old)
  BY <1>2, <1>5
<1>8. Cardinality(new) \in 0 .. Slots
  BY <1>6, Sizes
<1> QED BY <1>7, <1>8

LEMMA InverseStep ==
  ASSUME NEW w, NEW bad, Given(w, bad), NEW s \in Assignments, HistogramInverse(s)
  PROVE  Promise(w, bad)'
<1>1. /\ Promise(w, bad) /\ w \in Keys /\ Run("inverse", s, "prefix")
      /\ UNCHANGED <<inputs, sorting, offsets, statistics, order, tiles>>
  BY DEF Given, HistogramInverse
<1>2. UNCHANGED counted /\ UNCHANGED include_tiles
  BY <1>1 DEF inputs
<1>3. /\ kernel = "inverse" /\ s \in todo /\ Launch(counted', kernel', todo')
      /\ \/ kernel' = "prefix" /\ todo = {s}
         \/ kernel' = "inverse" /\ todo' = todo \ {s}
  BY <1>1, <1>2, RunIs DEF Promise
<1>4. ~counted /\ Course(counted', include_tiles', kernel') /\ todo \subseteq Assignments
  BY <1>1, <1>2, <1>3 DEF Promise, Course, Launch, Progs, CountedKernels, GeneralKernels, Routes
<1>5. PICK D, a : D = Assignments \ todo /\ a = order[s]
  OBVIOUS
<1>6. D \subseteq Assignments /\ s \notin D /\ LanesRun(kernel', todo') = D \cup {s}
  BY <1>3, <1>4, <1>5 DEF LanesRun
<1>7. /\ order = Sorted(w)
      /\ \A e \in ExpertSet : counts[e] = Cardinality(Ranked(w, e, D))
      /\ \A x \in Assignments : Rank(w, x) \in D => Placed(w, x, order, inverse)
  BY <1>1, <1>3, <1>4, <1>5 DEF Promise, Counting, Argsorted, LanesRun
<1>8. a \in Assignments /\ Rank(w, a) = s /\ keys[a] = w[a] /\ w[a] \in Bins
  <2>1. \A x \in Assignments : keys[x] = w[x]
    BY <1>3, AllKeyed
  <2> QED BY <1>1, <1>5, <1>7, <2>1, SortedRank DEF Keys
<1>9. /\ counts' = IF w[a] \in ExpertSet THEN [counts EXCEPT ![w[a]] = @ + 1] ELSE counts
      /\ inverse' = [inverse EXCEPT ![a] = IF w[a] \in ExpertSet THEN s ELSE -1]
  BY <1>5, <1>8 DEF HistogramInverse, InRange
<1>10. /\ counts \in [ExpertSet -> (0 .. Slots) \cup {Stale}]
       /\ inverse \in [Assignments -> Assignments \cup {-1, Stale}]
  BY <1>1 DEF Promise, Typed
<1>11. \A e \in ExpertSet :
         /\ counts'[e] = Cardinality(Ranked(w, e, D \cup {s}))
         /\ counts'[e] \in 0 .. Slots
  <2>1. ASSUME NEW e \in ExpertSet, NEW old, NEW new,
               old = Ranked(w, e, D), new = Ranked(w, e, D \cup {s})
        PROVE  counts'[e] = Cardinality(new) /\ counts'[e] \in 0 .. Slots
    <3>1. /\ Cardinality(new) = IF w[a] = e THEN Cardinality(old) + 1 ELSE Cardinality(old)
          /\ Cardinality(new) \in 0 .. Slots
      BY <1>1, <1>6, <1>8, <2>1, LaneCounts
    <3>2. counts[e] = Cardinality(old)
      BY <1>7, <2>1
    <3>3. counts'[e] = IF w[a] = e THEN counts[e] + 1 ELSE counts[e]
      BY <1>9, <1>10
    <3> QED BY <3>1, <3>2, <3>3
  <2> QED BY <2>1
<1>12. ASSUME NEW x \in Assignments, Rank(w, x) \in D \cup {s}
       PROVE  Placed(w, x, order, inverse')
  <2>1. CASE x = a
    <3>1. w[a] \in ExpertSet <=> a \in Routed(w)
      BY <1>8, Sizes DEF Routed, ExpertSet, Bins
    <3>2. inverse'[a] = IF w[a] \in ExpertSet THEN s ELSE -1
      BY <1>8, <1>9, <1>10
    <3> QED BY <1>5, <1>8, <2>1, <3>1, <3>2 DEF Placed
  <2>2. CASE x # a
    <3>1. Rank(w, x) # s
      BY <1>1, <1>8, <2>2, RankDistinct
    <3>2. Placed(w, x, order, inverse) /\ inverse'[x] = inverse[x]
      BY <1>7, <1>9, <1>10, <1>12, <2>2, <3>1
    <3> QED BY <3>2 DEF Placed
  <2> QED BY <2>1, <2>2
<1>13. Typed(<<ids, mask>>, keys, counts, offsets, order, inverse, call)'
  <2>1. inverse' \in [Assignments -> Assignments \cup {-1, Stale}]
    BY <1>9, <1>10
  <2>2. counts' \in [ExpertSet -> (0 .. Slots) \cup {Stale}]
    <3>1. counts' = [e \in ExpertSet |-> counts'[e]]
      BY <1>9, <1>10
    <3> QED BY <1>11, <3>1
  <2> QED BY <1>1, <2>1, <2>2 DEF Promise, Typed, inputs, sorting
<1>14. Keyed(w, bad, counted, kernel, todo, keys, invalid, histogram)'
  BY <1>1, <1>2, <1>3 DEF Promise, Keyed, sorting
<1>15. Counting(w, counted, kernel, todo, order, counts, inverse)'
  BY <1>1, <1>6, <1>7, <1>11, <1>12 DEF Counting
<1>16. Based(w, counted, kernel, bases)' /\ Scattered(w, counted, kernel, todo, order, inverse)'
       /\ Measured(w, bad, kernel, counts, offsets, statistics)' /\ Sorting(w, kernel, order, inverse)'
       /\ TileOffsets(w, include_tiles, kernel, tile_offsets)'
  BY <1>2, <1>3 DEF Based, Scattered, Measured, Sorting, TileOffsets, Routes
<1>17. Tiled(w, kernel, todo, tile_experts, tile_starts)'
  BY <1>1, <1>3 DEF Promise, Tiled, tiles
<1> QED BY <1>3, <1>4, <1>13, <1>14, <1>15, <1>16, <1>17 DEF Promise

LEMMA GeneralPrefixStep ==
  ASSUME NEW w, NEW bad, Given(w, bad), RoutingPrefix
  PROVE  Promise(w, bad)'
<1>1. /\ Promise(w, bad) /\ w \in Keys /\ Run("prefix", 0, AfterRoutes)
      /\ offsets' = [e \in Bins |-> Prefix(counts, e)]
      /\ tile_offsets' = IF include_tiles THEN TileEnds(counts) ELSE tile_offsets
      /\ statistics' = StatisticsOf(counts)
      /\ UNCHANGED <<inputs, sorting, counts, permutation, tile_experts, tile_starts>>
  BY DEF Given, RoutingPrefix
<1>2. UNCHANGED counted /\ UNCHANGED include_tiles
  BY <1>1 DEF inputs
<1>3. /\ kernel = "prefix" /\ 0 \in todo /\ Launch(counted', kernel', todo')
      /\ \/ kernel' = AfterRoutes /\ todo' = Progs(counted, AfterRoutes)
         \/ kernel' = "prefix" /\ todo' = todo \ {0}
  BY <1>1, <1>2, RunIs DEF Promise
<1>4. AfterRoutes \in {"tiles", "deferred"} /\ (AfterRoutes = "tiles" <=> include_tiles)
  BY <1>1 DEF Promise, Course, AfterRoutes
<1>5. kernel' = AfterRoutes /\ todo' = Progs(counted, AfterRoutes)
  <2>1. todo \subseteq {0}
    BY <1>1, <1>3 DEF Promise, Launch, Progs
  <2> QED BY <1>3, <2>1 DEF Launch
<1>6. ~counted /\ Course(counted', include_tiles', kernel')
  <2>1. ~counted
    BY DEF RoutingPrefix
  <2> QED BY <1>1, <1>2, <1>4, <1>5, <2>1 DEF Promise, Course, CountedKernels, GeneralKernels, Routes
<1>7. /\ order = Sorted(w) /\ LanesRun(kernel, todo) = Assignments
      /\ \A e \in ExpertSet : counts[e] = Cardinality(Ranked(w, e, LanesRun(kernel, todo)))
      /\ \A a \in Assignments : Rank(w, a) \in LanesRun(kernel, todo) => Placed(w, a, order, inverse)
  BY <1>1, <1>3, <1>6 DEF Promise, Counting, Argsorted, LanesRun
<1>8. \A e \in ExpertSet : counts[e] = CountOf(w, e)
  <2>1. ASSUME NEW e \in ExpertSet PROVE counts[e] = CountOf(w, e)
    <3>1. Ranked(w, e, Assignments) = {a \in Assignments : w[a] = e}
      BY <1>1, RankType DEF Ranked
    <3> QED BY <1>7, <3>1 DEF CountOf
  <2> QED BY <2>1
<1>9. \A a \in Assignments : Placed(w, a, order', inverse')
  BY <1>1, <1>7, RankType DEF permutation
<1>10. \A e \in Bins : offsets'[e] = StartOf(w, e)
  BY <1>1, <1>8, KeySums
<1>11. Exact(w, bad, counts', offsets', statistics')
  <2>1. PICK offset : offset = offsets'
    OBVIOUS
  <2>2. Exact(w, bad, counts, offset, StatisticsOf(counts))
    BY <1>3, <1>8, <1>10, <2>1, StatisticsExact
  <2> QED BY <1>1, <2>1, <2>2
<1>12. Typed(<<ids, mask>>, keys, counts, offsets, order, inverse, call)'
  <2>1. \A e \in Bins : StartOf(w, e) \in 0 .. Slots
    BY <1>1, StartsType
  <2>2. offsets' \in [Bins -> (0 .. Slots) \cup {Stale}]
    BY <1>1, <1>10, <2>1
  <2> QED BY <1>1, <2>2 DEF Promise, Typed, inputs, permutation, sorting
<1>13. Keyed(w, bad, counted, kernel, todo, keys, invalid, histogram)'
  BY <1>1, <1>2, <1>3, <1>4, <1>5 DEF Promise, Keyed, sorting
<1>14. Based(w, counted, kernel, bases)' /\ Scattered(w, counted, kernel, todo, order, inverse)'
       /\ Counting(w, counted, kernel, todo, order, counts, inverse)'
  BY <1>4, <1>5 DEF Based, Scattered, Counting, Argsorted
<1>15. Measured(w, bad, kernel, counts, offsets, statistics)' /\ Sorting(w, kernel, order, inverse)'
  BY <1>9, <1>11 DEF Measured, Sorting
<1>16. TileOffsets(w, include_tiles, kernel, tile_offsets)'
  BY <1>1, <1>2, <1>4, <1>5, <1>8, TileEndsExact DEF TileOffsets
<1>17. Tiled(w, kernel, todo, tile_experts, tile_starts)'
  <2>1. kernel' = "tiles" => todo' = TileBlocks
    BY <1>5 DEF Progs
  <2>2. kernel' # "ready"
    BY <1>4, <1>5
  <2>3. \A t \in Tiles : t \div TileBlock \in TileBlocks
    BY LaunchesNonempty
  <2> QED BY <1>1, <2>1, <2>2, <2>3 DEF Promise, Tiled
<1> QED BY <1>3, <1>6, <1>12, <1>13, <1>14, <1>15, <1>16, <1>17 DEF Promise

LEMMA TilePrefixStep ==
  ASSUME NEW w, NEW bad, Given(w, bad), TilePrefix
  PROVE  Promise(w, bad)'
<1>1. /\ Promise(w, bad) /\ w \in Keys /\ Run("deferred", 0, "tiles")
      /\ tile_offsets' = TileEnds(counts)
      /\ UNCHANGED <<inputs, sorting, metadata, permutation, tile_experts, tile_starts>>
  BY DEF Given, TilePrefix
<1>2. UNCHANGED counted /\ UNCHANGED include_tiles
  BY <1>1 DEF inputs
<1>3. /\ kernel = "deferred" /\ 0 \in todo /\ Launch(counted', kernel', todo')
      /\ \/ kernel' = "tiles" /\ todo' = Progs(counted, "tiles")
         \/ kernel' = "deferred" /\ todo' = todo \ {0}
  BY <1>1, <1>2, RunIs DEF Promise
<1>4. kernel' = "tiles" /\ todo' = TileBlocks
  <2>1. todo \subseteq {0}
    BY <1>1, <1>3 DEF Promise, Launch, Progs
  <2> QED BY <1>3, <2>1 DEF Launch, Progs
<1>5. Course(counted', include_tiles', kernel')
  BY <1>1, <1>2, <1>4 DEF Promise, Course, CountedKernels, GeneralKernels, Routes
<1>6. Exact(w, bad, counts, offsets, statistics) /\ \A a \in Assignments : Placed(w, a, order, inverse)
  BY <1>1, <1>3 DEF Promise, Measured, Sorting, Routes
<1>7. Typed(<<ids, mask>>, keys, counts, offsets, order, inverse, call)'
  BY <1>1 DEF Promise, Typed, inputs, permutation, sorting, metadata
<1>8. Keyed(w, bad, counted, kernel, todo, keys, invalid, histogram)'
  BY <1>1, <1>2, <1>3, <1>4 DEF Promise, Keyed, sorting
<1>9. Based(w, counted, kernel, bases)' /\ Scattered(w, counted, kernel, todo, order, inverse)'
      /\ Counting(w, counted, kernel, todo, order, counts, inverse)'
  BY <1>4 DEF Based, Scattered, Counting, Argsorted
<1>10. Measured(w, bad, kernel, counts, offsets, statistics)' /\ Sorting(w, kernel, order, inverse)'
  BY <1>1, <1>6 DEF Measured, Sorting, metadata, permutation
<1>11. TileOffsets(w, include_tiles, kernel, tile_offsets)'
  BY <1>1, <1>6, TileEndsExact DEF TileOffsets, Exact
<1>12. Tiled(w, kernel, todo, tile_experts, tile_starts)'
  <2>1. \A t \in Tiles : t \div TileBlock \in TileBlocks
    BY LaunchesNonempty
  <2> QED BY <1>1, <1>4, <2>1 DEF Promise, Tiled
<1> QED BY <1>3, <1>5, <1>7, <1>8, <1>9, <1>10, <1>11, <1>12 DEF Promise

LEMMA TilesStep ==
  ASSUME NEW w, NEW bad, Given(w, bad), NEW b \in TileBlocks, RoutingTiles(b)
  PROVE  Promise(w, bad)'
<1>1. /\ Promise(w, bad) /\ w \in Keys /\ Run("tiles", b, "ready")
      /\ UNCHANGED <<inputs, sorting, metadata, permutation, tile_offsets>>
  BY DEF Given, RoutingTiles
<1>2. UNCHANGED counted /\ UNCHANGED include_tiles
  BY <1>1 DEF inputs
<1>3. /\ kernel = "tiles" /\ b \in todo /\ Launch(counted', kernel', todo')
      /\ \/ kernel' = "ready" /\ todo = {b}
         \/ kernel' = "tiles" /\ todo' = todo \ {b}
  BY <1>1, <1>2, RunIs DEF Promise
<1>4. Course(counted', include_tiles', kernel')
  BY <1>1, <1>2, <1>3 DEF Promise, Course, CountedKernels, GeneralKernels, Routes
<1>5. /\ Exact(w, bad, counts, offsets, statistics) /\ \A a \in Assignments : Placed(w, a, order, inverse)
      /\ \A e \in Bins : tile_offsets[e] = TilesBefore(w, e)
      /\ Tiled(w, kernel, todo, tile_experts, tile_starts)
  BY <1>1, <1>3 DEF Promise, Measured, Sorting, Routes, TileOffsets
<1>6. /\ \A e \in Bins : tile_offsets[e] \in Int
      /\ tile_offsets[0] = 0 /\ tile_offsets[Experts] = TilesBefore(w, Experts)
      /\ \A e \in ExpertSet : e \in Bins /\ e + 1 \in Bins
  <2>1. 0 \in Bins /\ Experts \in Bins /\ \A e \in ExpertSet : e \in Bins /\ e + 1 \in Bins
    BY Sizes DEF Bins, ExpertSet
  <2> QED BY <1>1, <1>5, <2>1, TilesAre
<1>7. /\ DOMAIN tile_experts' = Tiles /\ DOMAIN tile_starts' = Tiles
      /\ \A t \in Tiles : t \div TileBlock # b =>
           tile_experts'[t] = tile_experts[t] /\ tile_starts'[t] = tile_starts[t]
  BY DEF RoutingTiles
<1>8. ASSUME NEW t \in Tiles, t \div TileBlock = b
      PROVE  TileRight(w, t, tile_experts'[t], tile_starts'[t])
  <2>1. t \in Int /\ 0 <= t
    BY LaunchesNonempty
  <2>2. CASE t < tile_offsets[Experts]
    <3>1. /\ tile_experts'[t] = Search(t)
          /\ tile_starts'[t] = offsets[Search(t)] + (t - tile_offsets[Search(t)]) * BlockM
      BY <1>8, <2>2 DEF RoutingTiles
    <3>2. /\ Search(t) \in ExpertSet
          /\ tile_offsets[Search(t)] <= t /\ t < tile_offsets[Search(t) + 1]
      BY <1>6, <2>1, <2>2, SearchIs
    <3>3. PICK e \in ExpertSet : e = Search(t)
      BY <3>2
    <3>4. e \in Bins /\ e + 1 \in Bins /\ offsets[e] = StartOf(w, e)
      BY <1>5, <1>6 DEF Exact
    <3> QED BY <1>5, <1>6, <2>2, <3>1, <3>2, <3>3, <3>4 DEF TileRight
  <2>3. CASE ~(t < tile_offsets[Experts])
    <3>1. tile_experts'[t] = -1
      BY <1>8, <2>3 DEF RoutingTiles
    <3> QED BY <1>6, <2>3, <3>1 DEF TileRight
  <2> QED BY <2>2, <2>3
<1>9. Tiled(w, kernel, todo, tile_experts, tile_starts)'
  <2>1. ASSUME NEW t \in Tiles, kernel' = "tiles" => t \div TileBlock \notin todo'
        PROVE  TileRight(w, t, tile_experts'[t], tile_starts'[t])
    <3>1. CASE t \div TileBlock = b
      BY <1>8, <3>1
    <3>2. CASE t \div TileBlock # b
      <4>1. t \div TileBlock \notin todo
        BY <1>3, <2>1, <3>2
      <4>2. TileRight(w, t, tile_experts[t], tile_starts[t])
        BY <1>3, <1>5, <4>1 DEF Tiled
      <4> QED BY <1>7, <3>2, <4>2
    <3> QED BY <3>1, <3>2
  <2> QED BY <1>7, <2>1 DEF Tiled
<1>10. Typed(<<ids, mask>>, keys, counts, offsets, order, inverse, call)'
  BY <1>1 DEF Promise, Typed, inputs, permutation, sorting, metadata
<1>11. Keyed(w, bad, counted, kernel, todo, keys, invalid, histogram)'
  BY <1>1, <1>2, <1>3 DEF Promise, Keyed, sorting
<1>12. Based(w, counted, kernel, bases)' /\ Scattered(w, counted, kernel, todo, order, inverse)'
       /\ Counting(w, counted, kernel, todo, order, counts, inverse)'
  BY <1>3 DEF Based, Scattered, Counting, Argsorted
<1>13. Measured(w, bad, kernel, counts, offsets, statistics)' /\ Sorting(w, kernel, order, inverse)'
  BY <1>1, <1>5 DEF Measured, Sorting, metadata, permutation
<1>14. TileOffsets(w, include_tiles, kernel, tile_offsets)'
  BY <1>1, <1>5 DEF TileOffsets
<1> QED BY <1>3, <1>4, <1>9, <1>10, <1>11, <1>12, <1>13, <1>14 DEF Promise

Described(w, bad, c, include, k, left, ky, inv, hist, base, sorted, back, count, offset,
      stats, ends, experts, firsts) ==
  /\ Course(c, include, k) /\ Launch(c, k, left) /\ Keyed(w, bad, c, k, left, ky, inv, hist)
  /\ Based(w, c, k, base) /\ Scattered(w, c, k, left, sorted, back)
  /\ Counting(w, c, k, left, sorted, count, back)
  /\ Measured(w, bad, k, count, offset, stats) /\ Sorting(w, k, sorted, back)
  /\ TileOffsets(w, include, k, ends) /\ Tiled(w, k, left, experts, firsts)

\* At the start of a call nothing is promised of the buffers.
LEMMA Begins ==
  ASSUME NEW w, NEW bad, NEW c \in BOOLEAN, NEW include \in BOOLEAN,
         NEW k, k = IF c THEN "histogram" ELSE "keys", NEW left, left = BlocksOf(c),
         NEW ky, NEW inv, NEW hist, DOMAIN inv = BlocksOf(c), DOMAIN hist = BlocksOf(c),
         NEW experts, NEW firsts, DOMAIN experts = Tiles, DOMAIN firsts = Tiles,
         NEW base, NEW sorted, NEW back, NEW count, NEW offset, NEW stats, NEW ends
  PROVE  Described(w, bad, c, include, k, left, ky, inv, hist, base, sorted, back, count, offset,
                   stats, ends, experts, firsts)
<1>1. k \in {"histogram", "keys"}
  OBVIOUS
<1>2. Course(c, include, k)
  BY DEF Course, CountedKernels, GeneralKernels, Routes
<1>3. Launch(c, k, left)
  <2>1. Progs(c, k) = left
    BY <1>1 DEF Progs
  <2> QED BY <2>1, LaunchesNonempty DEF Launch
<1>4. Keyed(w, bad, c, k, left, ky, inv, hist)
  BY <1>1 DEF Keyed
<1>5. /\ Based(w, c, k, base) /\ Scattered(w, c, k, left, sorted, back)
      /\ Counting(w, c, k, left, sorted, count, back)
      /\ Measured(w, bad, k, count, offset, stats) /\ Sorting(w, k, sorted, back)
      /\ TileOffsets(w, include, k, ends) /\ Tiled(w, k, left, experts, firsts)
  BY <1>1 DEF Based, Scattered, Counting, Argsorted, Measured, Sorting, TileOffsets, Tiled, Routes
<1> QED BY <1>2, <1>3, <1>4, <1>5 DEF Described

LEMMA FirstIs ==
  /\ First = IF counted THEN "histogram" ELSE "keys"
  /\ Programs(First) = BlocksOf(counted)
<1>1. First = IF counted THEN "histogram" ELSE "keys"
  BY DEF First
<1> QED BY <1>1, BlockNames DEF Programs

LEMMA ReplayStep ==
  ASSUME NEW w, NEW bad, Given(w, bad), Replay, NEW v, NEW worse
  PROVE  Promise(v, worse)'
<1>1. /\ kernel' = First /\ todo' = Programs(First) /\ call < Calls /\ call' = call + 1
      /\ UNCHANGED <<counted, include_tiles, sorting, metadata, permutation, tiles>>
  BY DEF Replay
<1>2. PICK in \in ReplayInputs : ids' = in[1] /\ mask' = in[2]
  BY DEF Replay
<1>3. ids' \in [Assignments -> Ids] /\ mask' \in [0 .. Tokens - 1 -> BOOLEAN]
  BY <1>2, ShapeAssumption
<1>4. Promise(w, bad)
  BY DEF Given
<1>5. counted' \in BOOLEAN /\ include_tiles' \in BOOLEAN
  BY <1>1, <1>4 DEF Promise, Course
<1>6. kernel' = (IF counted' THEN "histogram" ELSE "keys") /\ todo' = BlocksOf(counted')
  BY <1>1, FirstIs
<1>7. DOMAIN invalid' = BlocksOf(counted') /\ DOMAIN histogram' = BlocksOf(counted')
  BY <1>1, <1>4 DEF Promise, Keyed, sorting
<1>8. DOMAIN tile_experts' = Tiles /\ DOMAIN tile_starts' = Tiles
  BY <1>1, <1>4 DEF Promise, Tiled, tiles
<1>9. Typed(<<ids, mask>>, keys, counts, offsets, order, inverse, call)'
  BY <1>1, <1>3, <1>4, Sizes DEF Promise, Typed, sorting, metadata, permutation
<1>10. Described(v, worse, counted', include_tiles', kernel', todo', keys', invalid', histogram', bases',
                 order', inverse', counts', offsets', statistics', tile_offsets', tile_experts', tile_starts')
  BY ONLY <1>5, <1>6, <1>7, <1>8, Begins
<1> QED BY <1>9, <1>10 DEF Promise, Described

LEMMA RouteInit == Init => RouteInv
<1> SUFFICES ASSUME Init PROVE RouteInv
  OBVIOUS
<1>1. PICK w, bad : w = EffectiveIds(ids, mask) /\ bad = InvalidIds(ids, mask)
  OBVIOUS
<1>2. /\ ids \in [Assignments -> Ids] /\ mask \in [0 .. Tokens - 1 -> BOOLEAN]
      /\ counted \in BOOLEAN /\ include_tiles \in BOOLEAN
  BY DEF Init, Inputs
<1>3. kernel = (IF counted THEN "histogram" ELSE "keys") /\ todo = BlocksOf(counted)
  BY FirstIs DEF Init
<1>4. DOMAIN invalid = BlocksOf(counted) /\ DOMAIN histogram = BlocksOf(counted)
  BY BlockNames DEF Init
<1>5. DOMAIN tile_experts = Tiles /\ DOMAIN tile_starts = Tiles
  BY DEF Init
<1>6. Typed(<<ids, mask>>, keys, counts, offsets, order, inverse, call)
  BY <1>2, Sizes DEF Init, Typed
<1>7. Described(w, bad, counted, include_tiles, kernel, todo, keys, invalid, histogram, bases,
                 order, inverse, counts, offsets, statistics, tile_offsets, tile_experts, tile_starts)
  BY ONLY <1>2, <1>3, <1>4, <1>5, Begins
<1>8. Promise(w, bad)
  BY <1>6, <1>7 DEF Promise, Described
<1> QED BY <1>1, <1>8 DEF RouteInv

LEMMA RouteSame == RouteInv /\ UNCHANGED vars => RouteInv'
<1> SUFFICES ASSUME RouteInv, UNCHANGED vars PROVE RouteInv'
  OBVIOUS
<1>1. UNCHANGED <<ids, mask, counted, include_tiles, call, kernel, todo>>
      /\ UNCHANGED <<keys, invalid, histogram, bases, counts, offsets, statistics>>
      /\ UNCHANGED <<order, inverse, tile_offsets, tile_experts, tile_starts>>
  BY DEF vars, inputs, sorting, metadata, permutation, tiles
<1> QED BY <1>1 DEF RouteInv, Promise

LEMMA RouteNext == RouteInv /\ [Next]_vars => RouteInv'
<1> SUFFICES ASSUME RouteInv, [Next]_vars PROVE RouteInv'
  OBVIOUS
<1>1. PICK w, bad : w = EffectiveIds(ids, mask) /\ bad = InvalidIds(ids, mask)
  OBVIOUS
<1>2. Given(w, bad)
  BY <1>1, Keyword DEF Given, RouteInv
<1>3. ASSUME Promise(w, bad)', UNCHANGED inputs PROVE RouteInv'
  BY <1>1, <1>3 DEF RouteInv, inputs
<1>4. CASE UNCHANGED vars
  BY <1>4, RouteSame
<1>5. ASSUME NEW b \in Blocks, ChunkHistogram(b) PROVE RouteInv'
  BY <1>2, <1>3, <1>5, HistogramStep DEF ChunkHistogram
<1>6. CASE ChunkPrefix
  BY <1>2, <1>3, <1>6, PrefixStep DEF ChunkPrefix
<1>7. ASSUME NEW b \in Blocks, NEW e \in Bins, ChunkScatter(b, e) PROVE RouteInv'
  BY <1>2, <1>3, <1>7, ScatterStep DEF ChunkScatter
<1>8. ASSUME NEW b \in Blocks, RoutingKeys(b) PROVE RouteInv'
  BY <1>2, <1>3, <1>8, KeysStep DEF RoutingKeys
<1>9. CASE Argsort
  BY <1>2, <1>3, <1>9, ArgsortStep DEF Argsort
<1>10. CASE ZeroCounts
  BY <1>2, <1>3, <1>10, ZeroStep DEF ZeroCounts
<1>11. ASSUME NEW s \in Assignments, HistogramInverse(s) PROVE RouteInv'
  BY <1>2, <1>3, <1>11, InverseStep DEF HistogramInverse
<1>12. CASE RoutingPrefix
  BY <1>2, <1>3, <1>12, GeneralPrefixStep DEF RoutingPrefix
<1>13. CASE TilePrefix
  BY <1>2, <1>3, <1>13, TilePrefixStep DEF TilePrefix
<1>14. ASSUME NEW b \in TileBlocks, RoutingTiles(b) PROVE RouteInv'
  BY <1>2, <1>3, <1>14, TilesStep DEF RoutingTiles
<1>15. CASE Replay
  <2>1. PICK v, worse : v = EffectiveIds(ids', mask') /\ worse = InvalidIds(ids', mask')
    OBVIOUS
  <2>2. Promise(v, worse)'
    BY <1>2, <1>15, ReplayStep
  <2> QED BY <2>1, <2>2 DEF RouteInv
<1> QED
  BY <1>4, <1>5, <1>6, <1>7, <1>8, <1>9, <1>10, <1>11, <1>12, <1>13, <1>14, <1>15 DEF Next

\* At every kernel, each program that has run left in its part of the buffers
\* exactly what the call's ids and mask require, and what earlier kernels left
\* is untouched: the invariant from which the rest follows.
THEOREM RoutingHolds == Spec => []RouteInv
<1>1. Init => RouteInv
  BY RouteInit
<1>2. RouteInv /\ [Next]_vars => RouteInv'
  BY RouteNext
<1> QED BY <1>1, <1>2, PTL DEF Spec

-----------------------------------------------------------------------------
(* The promises.                                                           *)

LEMMA OrderFollows == RouteInv => StableOrder
<1> SUFFICES ASSUME RouteInv, kernel \in Routes, NEW a \in Assignments
             PROVE  /\ order[Rank(Wanted, a)] = a
                    /\ inverse[a] = IF a \in Routed(Wanted) THEN Rank(Wanted, a) ELSE -1
  BY DEF StableOrder
<1>1. Sorting(Wanted, kernel, order, inverse)
  BY DEF RouteInv, Promise, Wanted
<1> QED BY <1>1 DEF Sorting, Placed

LEMMA CountsFollow == RouteInv => CountsExact
<1> SUFFICES ASSUME RouteInv PROVE CountsExact
  OBVIOUS
<1>1. TypeOK
  BY TypesFollow DEF RouteInv
<1>2. Measured(Wanted, InvalidIds(ids, mask), kernel, counts, offsets, statistics)
  BY DEF RouteInv, Promise, Wanted
<1> QED BY <1>1, <1>2 DEF Measured, Exact, CountsExact

\* The rows of right tiles partition the routed slots.
RowsOf(w, t, experts, firsts, offset) ==
  IF experts[t] < 0 THEN {}
  ELSE {s \in firsts[t] .. firsts[t] + BlockM - 1 : s < offset[experts[t] + 1]}

LEMMA RowsAre ==
  ASSUME NEW w \in Keys, NEW experts, NEW firsts, NEW offset, NEW t \in Tiles,
         TileRight(w, t, experts[t], firsts[t]), \A e \in Bins : offset[e] = StartOf(w, e),
         NEW s, s \in RowsOf(w, t, experts, firsts, offset)
  PROVE  /\ experts[t] \in ExpertSet /\ s \in Nat
         /\ TilesBefore(w, experts[t]) <= t /\ t < TilesBefore(w, experts[t] + 1)
         /\ StartOf(w, experts[t]) <= s /\ s < StartOf(w, experts[t] + 1)
         /\ s < Cardinality(Routed(w))
         /\ StartOf(w, experts[t]) + (t - TilesBefore(w, experts[t])) * BlockM <= s
         /\ s < StartOf(w, experts[t]) + (t - TilesBefore(w, experts[t])) * BlockM + BlockM
<1>1. ~(experts[t] < 0)
  BY DEF RowsOf
<1>2. t < TilesBefore(w, Experts)
  BY <1>1 DEF TileRight
<1>3. PICK e : e = experts[t]
  OBVIOUS
<1>4. /\ e \in ExpertSet /\ TilesBefore(w, e) <= t /\ t < TilesBefore(w, e + 1)
      /\ firsts[t] = StartOf(w, e) + (t - TilesBefore(w, e)) * BlockM
  BY <1>2, <1>3 DEF TileRight
<1>5. e \in Bins /\ e + 1 \in Bins /\ e \in Int /\ e + 1 <= Experts
  BY <1>4, Sizes DEF ExpertSet, Bins
<1>6. PICK o, p, b, m : o = StartOf(w, e) /\ p = TilesBefore(w, e) /\ b = BlockM /\ m = (t - p) * b
  OBVIOUS
<1>7. o \in Nat /\ p \in Nat /\ b \in Nat \ {0} /\ t \in Nat /\ m \in Nat
  <2>1. o \in Nat /\ p \in Nat /\ b \in Nat \ {0} /\ t \in Nat
    BY <1>5, <1>6, CountTypes, TilesAre, Sizes, LaunchesNonempty
  <2>2. t - p \in Nat
    BY <1>4, <1>6, <2>1
  <2>3. (t - p) * b \in Nat
    BY <2>1, <2>2, Multiply
  <2> QED BY <1>6, <2>1, <2>3
<1>8. s \in o + m .. o + m + b - 1 /\ s < StartOf(w, e + 1)
  BY <1>1, <1>3, <1>4, <1>5, <1>6 DEF RowsOf
<1>9. StartOf(w, e + 1) \in Nat /\ StartOf(w, e + 1) <= Cardinality(Routed(w))
      /\ Cardinality(Routed(w)) \in Nat
  <2>1. StartOf(w, e + 1) <= StartOf(w, Experts)
    BY <1>5, Sizes, StartGrows
  <2> QED BY <2>1, CountTypes, RoutedPrefix
<1>10. s \in Nat /\ o <= s /\ o + m <= s /\ s < o + m + b /\ s < Cardinality(Routed(w))
  BY <1>7, <1>8, <1>9
<1> QED BY <1>3, <1>4, <1>6, <1>8, <1>10

LEMMA RowsDisjoint ==
  ASSUME NEW w \in Keys, NEW experts, NEW firsts, NEW offset,
         \A t \in Tiles : TileRight(w, t, experts[t], firsts[t]),
         \A e \in Bins : offset[e] = StartOf(w, e),
         NEW t \in Tiles, NEW u \in Tiles, NEW s,
         s \in RowsOf(w, t, experts, firsts, offset), s \in RowsOf(w, u, experts, firsts, offset)
  PROVE  t = u
<1>1. PICK d, e : d = experts[t] /\ e = experts[u]
  OBVIOUS
<1>2. /\ d \in ExpertSet /\ s \in Nat
      /\ TilesBefore(w, d) <= t
      /\ StartOf(w, d) <= s /\ s < StartOf(w, d + 1)
      /\ StartOf(w, d) + (t - TilesBefore(w, d)) * BlockM <= s
      /\ s < StartOf(w, d) + (t - TilesBefore(w, d)) * BlockM + BlockM
  BY <1>1, RowsAre
<1>3. /\ e \in ExpertSet
      /\ TilesBefore(w, e) <= u
      /\ StartOf(w, e) <= s /\ s < StartOf(w, e + 1)
      /\ StartOf(w, e) + (u - TilesBefore(w, e)) * BlockM <= s
      /\ s < StartOf(w, e) + (u - TilesBefore(w, e)) * BlockM + BlockM
  BY <1>1, RowsAre
<1>4. d = e
  <2>1. s \in Int
    BY <1>2
  <2> QED BY <1>2, <1>3, <2>1, OneRun
<1>5. PICK o, p, b : o = StartOf(w, d) /\ p = TilesBefore(w, d) /\ b = BlockM
  OBVIOUS
<1>6. o \in Nat /\ p \in Nat /\ b \in Nat \ {0} /\ t \in Nat /\ u \in Nat
  <2>1. d \in Bins
    BY <1>2, Sizes DEF ExpertSet, Bins
  <2> QED BY <1>5, <2>1, CountTypes, TilesAre, Sizes, LaunchesNonempty
<1>7. PICK i, j : i = t - p /\ j = u - p
  OBVIOUS
<1>8. i \in Nat /\ j \in Nat
  BY <1>2, <1>3, <1>4, <1>5, <1>6, <1>7
<1>9. o + i * b <= s /\ s < o + i * b + b /\ o + j * b <= s /\ s < o + j * b + b
  BY <1>2, <1>3, <1>4, <1>5, <1>7
<1>10. i * b \in Nat /\ j * b \in Nat /\ (i + 1) * b = i * b + b /\ (j + 1) * b = j * b + b
  BY <1>6, <1>8, Multiply
<1>11. i * b < (j + 1) * b /\ j * b < (i + 1) * b
  BY <1>2, <1>6, <1>9, <1>10
<1>12. i < j + 1 /\ j < i + 1
  <2>1. i + 1 \in Nat /\ j + 1 \in Nat
    BY <1>8
  <2> QED BY <1>6, <1>8, <1>11, <2>1, Multiply
<1> QED BY <1>6, <1>7, <1>8, <1>12

LEMMA RowsCover ==
  ASSUME NEW w \in Keys, NEW experts, NEW firsts, NEW offset,
         \A t \in Tiles : TileRight(w, t, experts[t], firsts[t]),
         \A e \in Bins : offset[e] = StartOf(w, e),
         NEW a \in Routed(w)
  PROVE  \E t \in Tiles : Rank(w, a) \in RowsOf(w, t, experts, firsts, offset) /\ experts[t] = w[a]
<1>1. PICK e, s : e = w[a] /\ s = Rank(w, a)
  OBVIOUS
<1>2. a \in Assignments /\ e \in ExpertSet /\ s \in Nat /\ e \in Int /\ e + 1 \in Bins
  <2>1. a \in Assignments /\ w[a] < Experts
    BY DEF Routed
  <2>2. w[a] \in 0 .. Experts
    BY <2>1, KeyOf
  <2>3. s \in Nat
    BY <1>1, <2>1, RankType, Sizes DEF Assignments
  <2> QED BY <1>1, <2>1, <2>2, <2>3, Sizes DEF ExpertSet, Bins
<1>3. StartOf(w, e) <= s /\ s < StartOf(w, e + 1)
  BY <1>1, <1>2, RankInRun, StartNext
<1>4. PICK t \in Tiles :
        /\ TilesBefore(w, e) <= t /\ t < TilesBefore(w, e + 1) /\ t < TilesBefore(w, Experts)
        /\ StartOf(w, e) + (t - TilesBefore(w, e)) * BlockM <= s
        /\ s < StartOf(w, e) + (t - TilesBefore(w, e)) * BlockM + BlockM
  BY <1>2, <1>3, TileOfSlot
<1>5. /\ experts[t] \in ExpertSet
      /\ TilesBefore(w, experts[t]) <= t /\ t < TilesBefore(w, experts[t] + 1)
      /\ firsts[t] = StartOf(w, experts[t]) + (t - TilesBefore(w, experts[t])) * BlockM
  BY <1>4 DEF TileRight
<1>6. experts[t] = e
  <2>1. t \in Int
    BY LaunchesNonempty
  <2> QED BY <1>2, <1>4, <1>5, <2>1, OneRun
<1>7. offset[e + 1] = StartOf(w, e + 1)
  BY <1>2
<1>8. PICK f, b : f = firsts[t] /\ b = BlockM
  OBVIOUS
<1>9. f \in Int /\ b \in Nat \ {0} /\ f <= s /\ s < f + b
  <2>1. b \in Nat \ {0} /\ TilesBefore(w, e) \in Int /\ t \in Int /\ StartOf(w, e) \in Int
    <3>1. e \in Bins
      BY <1>2, Sizes DEF ExpertSet, Bins
    <3> QED BY <1>8, <3>1, Sizes, TilesAre, CountTypes, LaunchesNonempty
  <2>2. PICK q : q = t - TilesBefore(w, e)
    OBVIOUS
  <2>3. q \in Int /\ q * b \in Int
    BY <2>1, <2>2
  <2> QED BY <1>4, <1>5, <1>6, <1>8, <2>1, <2>2, <2>3
<1>10. s \in f .. f + b - 1
  BY <1>2, <1>9
<1>11. ~(experts[t] < 0)
  BY <1>5, Sizes DEF ExpertSet
<1> QED BY <1>1, <1>3, <1>6, <1>7, <1>8, <1>10, <1>11 DEF RowsOf

LEMMA PartitionFollows == RouteInv => TilesPartition
<1> SUFFICES ASSUME RouteInv, kernel = "ready" PROVE TilesPartition
  BY DEF TilesPartition
<1>1. PICK w : w = Wanted
  OBVIOUS
<1>2. /\ w \in Keys /\ kernel \in Routes
      /\ \A t \in Tiles : TileRight(w, t, tile_experts[t], tile_starts[t])
      /\ \A e \in Bins : offsets[e] = StartOf(w, e)
      /\ \A a \in Assignments : Placed(w, a, order, inverse)
  <2>1. w \in Keys /\ kernel \in Routes
    BY <1>1, EffectiveKeys DEF Wanted, Routes
  <2>2. /\ Tiled(w, kernel, todo, tile_experts, tile_starts) /\ Sorting(w, kernel, order, inverse)
        /\ Measured(w, InvalidIds(ids, mask), kernel, counts, offsets, statistics)
    BY <1>1 DEF RouteInv, Promise, Wanted
  <2> QED BY <2>1, <2>2 DEF Tiled, Sorting, Measured, Exact
<1> DEFINE R(t) == RowsOf(w, t, tile_experts, tile_starts, offsets)
<1>3. \A t : TileRows(t) = R(t)
  BY DEF TileRows, RowsOf
<1>4. ASSUME NEW a \in Routed(w)
      PROVE  \E t \in Tiles : inverse[a] \in R(t) /\ tile_experts[t] = w[a]
  <2>1. inverse[a] = Rank(w, a)
    BY <1>2, <1>4 DEF Placed, Routed
  <2> QED BY <1>2, <2>1, RowsCover
<1>5. ASSUME NEW t \in Tiles, NEW u \in Tiles, t # u
      PROVE  R(t) \cap R(u) = {}
  <2>1. ASSUME NEW s, s \in R(t), s \in R(u) PROVE FALSE
    BY <1>2, <1>5, <2>1, RowsDisjoint
  <2> HIDE DEF R
  <2> QED BY <2>1
<1>6. \A t \in Tiles : tile_experts[t] \in ExpertSet \cup {-1}
  BY <1>2 DEF TileRight
<1>7. ASSUME NEW t \in Tiles, NEW s \in R(t)
      PROVE  s \in 0 .. Cardinality(Routed(w)) - 1
  <2>1. s \in Nat /\ s < Cardinality(Routed(w))
    BY <1>2, <1>7, RowsAre
  <2>2. Cardinality(Routed(w)) \in Nat
    BY <1>2, RoutedPrefix
  <2> QED BY <2>1, <2>2
<1>8. ASSUME NEW s \in 0 .. Cardinality(Routed(w)) - 1
      PROVE  \E t \in Tiles : s \in R(t)
  <2>1. Cardinality(Routed(w)) \in Nat /\ Cardinality(Routed(w)) <= Slots
        /\ StartOf(w, Experts) = Cardinality(Routed(w))
    <3>1. Routed(w) \subseteq Assignments
      BY DEF Routed
    <3> QED BY <1>2, <3>1, RoutedPrefix, PartLe, AssignmentsFinite
  <2>2. s \in Assignments
    BY <2>1, Sizes DEF Assignments
  <2>3. PICK a \in Assignments : Rank(w, a) = s
    BY <1>2, <2>2, RankCovers
  <2>4. a \in Routed(w)
    <3>1. Rank(w, a) < StartOf(w, Experts)
      BY <2>1, <2>3
    <3> QED BY <1>2, <3>1, RoutedPrefix
  <2> QED BY <1>2, <2>3, <2>4, RowsCover
<1> HIDE DEF R
<1>9. UNION {TileRows(t) : t \in Tiles} = 0 .. Cardinality(Routed(w)) - 1
  <2>1. ASSUME NEW s PROVE s \in UNION {TileRows(t) : t \in Tiles} <=> s \in 0 .. Cardinality(Routed(w)) - 1
    BY <1>3, <1>7, <1>8
  <2> QED BY <2>1
<1> QED BY <1>1, <1>3, <1>4, <1>5, <1>6, <1>9 DEF TilesPartition

\* Whatever order the programs of every kernel run in and whatever the
\* buffers held, once a call's routes are built order is the stable sort of
\* its assignments by expert and inverse leads back to each routed one's slot.
THEOREM RoutesSorted == Spec => []StableOrder
BY RoutingHolds, OrderFollows, PTL

\* Then the counts, the offsets and the totals are exactly those of the call.
THEOREM RoutesCounted == Spec => []CountsExact
BY RoutingHolds, CountsFollow, PTL

\* The fixed number of tiles is enough, and the rows of the tiles partition
\* the routed slots, each in a tile of its own expert.
THEOREM RoutesTiled == Spec => []TilesPartition
BY RoutingHolds, PartitionFollows, PTL

-----------------------------------------------------------------------------
(* Offsets, rows and columns.                                              *)

LEMMA LaunchSizes ==
  /\ {OffsetBits, BlockRows, PaddingRows, BlockGroups} \subseteq Nat \ {0}
  /\ 2 ^ (OffsetBits - 1) \in Nat /\ 2 ^ OffsetBits = 2 * 2 ^ (OffsetBits - 1)
  /\ Experts \in Nat \ {0} /\ Tokens \in Nat \ {0} /\ TopK \in Nat \ {0} /\ Slots \in Nat \ {0}
BY LaunchAssumption, SizeAssumption, SlotsType

LEMMA WrapIs ==
  ASSUME NEW x \in Nat, x < 2 ^ (OffsetBits - 1)
  PROVE  Wrap(x) = x
<1>1. PICK h, t : h = 2 ^ (OffsetBits - 1) /\ t = 2 ^ OffsetBits
  OBVIOUS
<1>2. h \in Nat /\ t = 2 * h /\ x < h
  BY <1>1, LaunchSizes
<1>3. t \in Nat \ {0} /\ x + h \in 0 .. t - 1 /\ x + h = 0 * t + (x + h)
  BY <1>2
<1>4. (x + h) % t = x + h
  BY <1>3, Division
<1> QED BY <1>1, <1>2, <1>4 DEF Wrap

\* The product of two numbers in range is in range.
LEMMA Within ==
  ASSUME NEW n \in Nat, NEW w \in Nat \ {0}, NEW r \in 0 .. n - 1, NEW c \in 0 .. w - 1
  PROVE  /\ r * w + c \in Nat /\ r * w + c < n * w /\ n * w \in Nat
         /\ (r * w + c) \div w = r /\ (r * w + c) % w = c
<1>1. r \in Nat /\ r + 1 \in Nat /\ r + 1 <= n
  OBVIOUS
<1>2. /\ r * w \in Nat /\ (r + 1) * w = r * w + w /\ (r + 1) * w <= n * w /\ n * w \in Nat
  BY <1>1, Multiply
<1> QED BY <1>1, <1>2, Division

LEMMA Without ==
  ASSUME NEW n \in Nat, NEW w \in Nat \ {0}, NEW x \in 0 .. n * w - 1
  PROVE  x \div w \in 0 .. n - 1 /\ x % w \in 0 .. w - 1 /\ x = (x \div w) * w + (x % w)
<1>1. n * w \in Nat
  BY Multiply
<1>2. x \in Nat /\ x < n * w
  BY <1>1
<1>3. x \div w \in Nat /\ x % w \in 0 .. w - 1 /\ x = (x \div w) * w + (x % w)
  BY <1>2, Modulo
<1>4. PICK q, r : q = x \div w /\ r = x % w
  OBVIOUS
<1>5. q \in Nat /\ q * w \in Nat /\ q * w < n * w
  BY <1>1, <1>2, <1>3, <1>4, Multiply
<1>6. q < n
  BY <1>5, Multiply
<1> QED BY <1>3, <1>4, <1>5, <1>6

\* A block of a program is what divides to its number.
LEMMA TakenIs ==
  ASSUME NEW size \in Nat \ {0}, NEW limit \in Nat, NEW b \in Nat
  PROVE  /\ Taken(b, size, limit) \subseteq 0 .. limit - 1
         /\ \A i \in 0 .. limit - 1 : i \in Taken(b, size, limit) <=> i \div size = b
<1>1. b * size \in Nat
  BY Multiply
<1>2. ASSUME NEW i \in Taken(b, size, limit) PROVE i \in 0 .. limit - 1 /\ i \div size = b
  <2>1. i \in Int /\ b * size <= i /\ i <= b * size + size - 1 /\ i < limit
    BY <1>1 DEF Taken, Interval
  <2>2. i - b * size \in 0 .. size - 1 /\ i = b * size + (i - b * size)
    BY <1>1, <2>1
  <2>3. i \div size = b
    BY <2>2, Division
  <2> QED BY <1>1, <2>1, <2>3
<1>3. ASSUME NEW i \in 0 .. limit - 1, i \div size = b PROVE i \in Taken(b, size, limit)
  <2>1. i \in Nat /\ i < limit
    OBVIOUS
  <2>2. i = b * size + (i % size) /\ i % size \in 0 .. size - 1
    BY <1>3, <2>1, Modulo
  <2> QED BY <1>1, <2>1, <2>2 DEF Taken, Interval
<1> QED BY <1>2, <1>3

\* The rows and columns of the output.
Height(l) ==
  CASE l.kernel \in Gemms -> l.m
    [] l.kernel \in Packers -> Experts * l.capacity
    [] l.kernel = "ragged" -> Slots
    [] l.kernel = "activate" -> ActivationRows(l)
    [] l.kernel = "combine" -> Tokens
Breadth(l) == IF l.kernel \in Gemms THEN l.n ELSE l.groups
RowAt(l, x) == x \div Breadth(l)
ColAt(l, x) == x % Breadth(l)

LEMMA Extent ==
  ASSUME NEW l \in Launches, Runs(l)
  PROVE  /\ Height(l) \in Nat /\ Breadth(l) \in Nat \ {0} /\ Size(l) = Height(l) * Breadth(l)
         /\ Size(l) \in Nat /\ Size(l) <= 2 ^ (OffsetBits - 1)
<1>1. CASE l.kernel \in Gemms
  <2>1. l.m \in Nat /\ l.n \in Nat \ {0}
    BY <1>1, LaunchAssumption
  <2>2. Height(l) = l.m /\ Breadth(l) = l.n /\ Size(l) = l.m * l.n
    BY <1>1 DEF Height, Breadth, Size, Gemms, Packers
  <2>3. l.m * l.n <= 2 ^ (OffsetBits - 1)
    BY <1>1 DEF Runs, Accepted
  <2> QED BY <2>1, <2>2, <2>3, Multiply
<1>2. CASE l.kernel \notin Gemms
  <2>1. /\ l.kernel \in Packers \cup {"ragged", "activate", "combine"}
        /\ l.groups \in Nat \ {0} /\ l.capacity \in Nat
    BY <1>2, LaunchAssumption
  <2>2. Experts * l.capacity \in Nat
    BY <2>1, LaunchSizes
  <2>3. Height(l) \in Nat /\ Size(l) = Height(l) * l.groups /\ Breadth(l) = l.groups
    BY <1>2, <2>1, <2>2, LaunchSizes DEF Height, Size, Breadth, ActivationRows, Packers, Gemms
  <2>4. Size(l) <= 2 ^ (OffsetBits - 1) - 1
    BY <1>2 DEF Runs, Workspace
  <2>5. Size(l) \in Nat
    BY <2>1, <2>3, Multiply
  <2> QED BY <2>1, <2>3, <2>4, <2>5, LaunchSizes
<1> QED BY <1>1, <1>2

LEMMA CellIs ==
  ASSUME NEW l \in Launches, Runs(l), NEW r \in 0 .. Height(l) - 1, NEW c \in 0 .. Breadth(l) - 1
  PROVE  /\ Wrap(r * Breadth(l) + c) = r * Breadth(l) + c
         /\ r * Breadth(l) + c \in Addresses(l)
         /\ RowAt(l, r * Breadth(l) + c) = r /\ ColAt(l, r * Breadth(l) + c) = c
<1>1. PICK x : x = r * Breadth(l) + c
  OBVIOUS
<1>2. x \in Nat /\ x < Size(l) /\ x \div Breadth(l) = r /\ x % Breadth(l) = c
  <2>1. PICK n, w : n = Height(l) /\ w = Breadth(l)
    OBVIOUS
  <2>2. n \in Nat /\ w \in Nat \ {0} /\ Size(l) = n * w /\ r \in 0 .. n - 1 /\ c \in 0 .. w - 1
    BY <2>1, Extent
  <2>3. x = r * w + c
    BY <1>1, <2>1
  <2>4. x \in Nat /\ x < n * w /\ x \div w = r /\ x % w = c
    BY <2>2, <2>3, Within
  <2> QED BY <2>1, <2>2, <2>4
<1>3. Wrap(x) = x
  BY <1>2, Extent, WrapIs, LaunchSizes
<1>4. x \in Addresses(l)
  BY <1>2, Extent DEF Addresses, Interval
<1> QED BY <1>1, <1>2, <1>3, <1>4 DEF RowAt, ColAt

LEMMA CellOf ==
  ASSUME NEW l \in Launches, Runs(l), NEW x \in Addresses(l)
  PROVE  /\ RowAt(l, x) \in 0 .. Height(l) - 1 /\ ColAt(l, x) \in 0 .. Breadth(l) - 1
         /\ x = RowAt(l, x) * Breadth(l) + ColAt(l, x)
<1>1. x \in 0 .. Height(l) * Breadth(l) - 1
  BY Extent DEF Addresses, Interval
<1> QED BY <1>1, Extent, Without DEF RowAt, ColAt

-----------------------------------------------------------------------------
(* What a program does.                                                    *)

\* What an element should hold in the end, and what it holds before.
Want(l, x) == IF l.kernel \in Gemms THEN ExpectedProduct(l, x) ELSE Expected(l, x)
Blank(l) == IF l.kernel \in Packers /\ l.cleared THEN Zero ELSE Garbage

\* The rows that may be loaded.
Alive(l, row) ==
  CASE l.kernel \in Packers \/ (l.kernel = "ragged" /\ l.from_tokens) ->
         row \in {Token(a) : a \in Routed(KeysOf(l))}
    [] l.kernel = "ragged" /\ ~l.from_tokens -> row \in Interval(0, Cardinality(Routed(KeysOf(l))))
    [] l.kernel \in {"activate", "combine"} -> LiveRow(l, row)
    [] OTHER -> row \in Interval(0, l.m)

\* Of the elements D, program p of launch s stores those of which W says so,
\* with the right value; and it loads what it may.
Does(l, s, p, D, W) ==
  /\ \A x : x \in DOMAIN Stores(l, s, p) <=> x \in D /\ W[x] = <<s, p>>
  /\ \A x \in D : W[x] = <<s, p>> => Stores(l, s, p)[x] = Want(l, x)
  /\ \A row \in Loads(l, s, p) : Alive(l, row)

\* What the programs of a call do together.
Exactly(l) ==
  \A s \in 1 .. Stages(l) : \A p \in LaunchGrid(l, s) :
    \A x \in DOMAIN Stores(l, s, p) : x \in Addresses(l) /\ Stores(l, s, p)[x] = Want(l, x)
Once(l) ==
  \A s, t \in 1 .. Stages(l) : \A p \in LaunchGrid(l, s) : \A q \in LaunchGrid(l, t) :
    \A x \in DOMAIN Stores(l, s, p) : x \in DOMAIN Stores(l, t, q) => s = t /\ p = q
Wholly(l) ==
  \A x \in Addresses(l) :
    \/ Want(l, x) = Blank(l)
    \/ \E s \in 1 .. Stages(l) : \E p \in LaunchGrid(l, s) : x \in DOMAIN Stores(l, s, p)
OnlyAlive(l) ==
  \A s \in 1 .. Stages(l) : \A p \in LaunchGrid(l, s) : \A row \in Loads(l, s, p) : Alive(l, row)
Sound(l) == Exactly(l) /\ Once(l) /\ Wholly(l) /\ OnlyAlive(l)

\* It is enough to name the program of each element.
Owned(l, D, W) ==
  /\ D \subseteq Addresses(l)
  /\ \A s \in 1 .. Stages(l) : \A p \in LaunchGrid(l, s) : Does(l, s, p, D, W)
  /\ \A x \in D : \E s \in 1 .. Stages(l) : \E p \in LaunchGrid(l, s) : W[x] = <<s, p>>
  /\ \A x \in Addresses(l) \ D : Want(l, x) = Blank(l)

LEMMA SoundIf ==
  ASSUME NEW l, NEW D, NEW W, Owned(l, D, W)
  PROVE  Sound(l)
<1>1. Exactly(l)
  BY DEF Does, Exactly, Owned
<1>2. Once(l)
  <2> SUFFICES ASSUME NEW s \in 1 .. Stages(l), NEW t \in 1 .. Stages(l),
                      NEW p \in LaunchGrid(l, s), NEW q \in LaunchGrid(l, t),
                      NEW x \in DOMAIN Stores(l, s, p), x \in DOMAIN Stores(l, t, q)
               PROVE  s = t /\ p = q
    BY DEF Once
  <2>1. W[x] = <<s, p>> /\ W[x] = <<t, q>>
    BY DEF Does, Owned
  <2> QED BY <2>1
<1>3. Wholly(l)
  <2> SUFFICES ASSUME NEW x \in Addresses(l), x \in D
               PROVE  \E s \in 1 .. Stages(l) : \E p \in LaunchGrid(l, s) : x \in DOMAIN Stores(l, s, p)
    BY DEF Wholly, Owned
  <2>1. PICK s \in 1 .. Stages(l) : \E p \in LaunchGrid(l, s) : W[x] = <<s, p>>
    BY DEF Owned
  <2>2. PICK p \in LaunchGrid(l, s) : W[x] = <<s, p>>
    BY <2>1
  <2>3. x \in DOMAIN Stores(l, s, p)
    BY <2>2 DEF Does, Owned
  <2> QED BY <2>3
<1>4. OnlyAlive(l)
  BY DEF Does, OnlyAlive, Owned
<1> QED BY <1>1, <1>2, <1>3, <1>4 DEF Sound

LEMMA KeysAre ==
  ASSUME NEW l
  PROVE  KeysOf(l) \in Keys
BY EffectiveKeys DEF KeysOf

\* What every launch of the MoE path has.
LEMMA MoeIs ==
  ASSUME NEW l \in Launches, Runs(l), l.kernel \notin Gemms
  PROVE  /\ l.groups \in Nat \ {0} /\ l.groups = Breadth(l) /\ l.capacity \in Nat
         /\ l.tile_rows \in Nat \ {0} /\ Experts * l.capacity \in Nat
         /\ \A x \in Addresses(l) : RowAt(l, x) = x \div l.groups /\ ColAt(l, x) = x % l.groups
<1>1. l.groups \in Nat \ {0} /\ l.capacity \in Nat /\ l.tile_rows \in Nat \ {0}
  BY LaunchAssumption
<1>2. l.groups = Breadth(l)
  BY DEF Breadth
<1>3. Experts * l.capacity \in Nat
  BY <1>1, LaunchSizes
<1> QED BY <1>1, <1>2, <1>3 DEF RowAt, ColAt

\* The cells of a block of rows and a block of columns.
LEMMA BlockCells ==
  ASSUME NEW l \in Launches, Runs(l), l.kernel \notin Gemms, NEW r \in 0 .. Height(l) - 1,
         NEW y \in Nat, NEW c \in Columns(l, y)
  PROVE  /\ c \in 0 .. Breadth(l) - 1 /\ c \div BlockGroups = y
         /\ Address(l, r, c) \in Addresses(l)
         /\ RowAt(l, Address(l, r, c)) = r /\ ColAt(l, Address(l, r, c)) = c
<1>1. l.groups \in Nat \ {0} /\ l.groups = Breadth(l)
  BY MoeIs
<1>2. c \in 0 .. Breadth(l) - 1 /\ c \div BlockGroups = y
  BY <1>1, LaunchSizes, TakenIs DEF Columns
<1> QED BY <1>1, <1>2, CellIs DEF Address

\* The element x is one of them.
LEMMA CellTaken ==
  ASSUME NEW l \in Launches, Runs(l), l.kernel \notin Gemms, NEW x \in Addresses(l),
         NEW y \in Nat, ColAt(l, x) \div BlockGroups = y
  PROVE  /\ ColAt(l, x) \in Columns(l, y) /\ Address(l, RowAt(l, x), ColAt(l, x)) = x
<1>1. l.groups \in Nat \ {0} /\ l.groups = Breadth(l)
  BY MoeIs
<1>2. RowAt(l, x) \in 0 .. Height(l) - 1 /\ ColAt(l, x) \in 0 .. Breadth(l) - 1
      /\ x = RowAt(l, x) * Breadth(l) + ColAt(l, x)
  BY CellOf
<1>3. ColAt(l, x) \in Columns(l, y)
  BY <1>1, <1>2, LaunchSizes, TakenIs DEF Columns
<1> QED BY <1>1, <1>2, <1>3, CellIs DEF Address

\* The block of a column is one of the grid's.
LEMMA ColumnBlock ==
  ASSUME NEW l \in Launches, Runs(l), l.kernel \notin Gemms, NEW x \in Addresses(l)
  PROVE  ColAt(l, x) \div BlockGroups \in Interval(0, CeilDiv(l.groups, BlockGroups))
<1>1. l.groups \in Nat \ {0} /\ l.groups = Breadth(l) /\ ColAt(l, x) \in 0 .. Breadth(l) - 1
  BY MoeIs, CellOf
<1> QED BY <1>1, LaunchSizes, CeilDivIs DEF Interval

LEMMA RowBlock ==
  ASSUME NEW n \in Nat, NEW r \in 0 .. n - 1, NEW size \in Nat \ {0}
  PROVE  r \div size \in Interval(0, CeilDiv(n, size))
<1>1. r \div size \in 0 .. CeilDiv(n, size) - 1 /\ CeilDiv(n, size) \in Nat
  BY CeilDivIs
<1> QED BY <1>1 DEF Interval

\* The place of an expert's row is routed, and is the expert's.
LEMMA LivePlace ==
  ASSUME NEW key \in Keys, NEW e \in ExpertSet, NEW i \in Nat, i < CountOf(key, e)
  PROVE  /\ StartOf(key, e) + i \in Assignments /\ StartOf(key, e) + i \in Nat
         /\ StartOf(key, e) + i < Cardinality(Routed(key))
         /\ Sorted(key)[StartOf(key, e) + i] \in Routed(key)
         /\ Sorted(key)[StartOf(key, e) + i] \in Assignments
         /\ key[Sorted(key)[StartOf(key, e) + i]] = e
         /\ Rank(key, Sorted(key)[StartOf(key, e) + i]) = StartOf(key, e) + i
<1>1. PICK s, c, n, m : /\ s = StartOf(key, e) /\ c = CountOf(key, e)
                        /\ n = StartOf(key, e + 1) /\ m = Cardinality(Routed(key))
  OBVIOUS
<1>2. s \in Nat /\ c \in Nat /\ n = s + c /\ e \in Int /\ e + 1 <= Experts
  BY <1>1, LaunchSizes, CountTypes, StartNext DEF ExpertSet
<1>3. n <= m /\ m \in Nat /\ m <= Slots
  <2>1. Routed(key) \subseteq Assignments
    BY DEF Routed
  <2> QED BY <1>1, <1>2, <2>1, LaunchSizes, StartGrows, RoutedPrefix, PartLe, AssignmentsFinite
<1>4. s + i \in Nat /\ s + i < m /\ s + i \in Assignments
  BY <1>1, <1>2, <1>3, LaunchSizes DEF Assignments
<1>5. PICK a \in Assignments : a = Sorted(key)[s + i] /\ Rank(key, a) = s + i
  BY <1>4, SortedRank
<1>6. key[a] = e
  BY <1>1, <1>2, <1>5, KeyOfRun
<1>7. a \in Routed(key)
  BY <1>6, LaunchSizes DEF Routed, ExpertSet
<1> QED BY <1>1, <1>4, <1>5, <1>6, <1>7

-----------------------------------------------------------------------------
(* pack_inputs.                                                            *)

PackWriter(l) ==
  [x \in Addresses(l) |-> <<1, <<RowAt(l, x) \div BlockRows, ColAt(l, x) \div BlockGroups>>>>]

LEMMA PackDoes ==
  ASSUME NEW l \in Launches, Runs(l), l.kernel = "pack", NEW p \in LaunchGrid(l, 1)
  PROVE  Does(l, 1, p, Addresses(l), PackWriter(l))
<1> DEFINE R == Taken(p[1], BlockRows, Experts * l.capacity)
           C == Columns(l, p[2])
           At(r, c) == Address(l, r, c)
           key == KeysOf(l)
           V(r, c) == LET e == r \div l.capacity
                          i == r % l.capacity
                      IN IF i >= Count(l, e) THEN Zero
                         ELSE Value("token", Token(Sorted(key)[Start(l, e) + i]), c)
<1>0. l.kernel \notin Gemms /\ l.kernel \in Packers
  BY DEF Gemms, Packers
<1>1. /\ Experts * l.capacity = Height(l) /\ Height(l) \in Nat /\ key \in Keys
      /\ l.groups \in Nat \ {0} /\ l.capacity \in Nat /\ l.capacity # 0
  <2>1. l.capacity # 0
    BY <1>0 DEF LaunchGrid
  <2> QED BY <1>0, <2>1, MoeIs, Extent, KeysAre DEF Height
<1>2. p = <<p[1], p[2]>> /\ p[1] \in Nat /\ p[2] \in Nat
  <2>1. p \in Grid(CeilDiv(Experts * l.capacity, BlockRows), l)
    BY <1>0, <1>1 DEF LaunchGrid
  <2>2. {CeilDiv(Experts * l.capacity, BlockRows), CeilDiv(l.groups, BlockGroups)} \subseteq Nat
    BY <1>1, LaunchSizes, CeilDivIs
  <2> QED BY <2>1, <2>2 DEF Grid, Interval
<1>3. ASSUME NEW r \in R, NEW c \in C
      PROVE  /\ At(r, c) \in Addresses(l) /\ RowAt(l, At(r, c)) = r /\ ColAt(l, At(r, c)) = c
             /\ r \in 0 .. Height(l) - 1 /\ r \div BlockRows = p[1] /\ c \div BlockGroups = p[2]
  <2>1. r \in 0 .. Height(l) - 1 /\ r \div BlockRows = p[1]
    BY <1>1, <1>2, LaunchSizes, TakenIs
  <2> QED BY <1>0, <1>2, <2>1, BlockCells
<1>4. ASSUME NEW x \in Addresses(l), RowAt(l, x) \div BlockRows = p[1], ColAt(l, x) \div BlockGroups = p[2]
      PROVE  RowAt(l, x) \in R /\ ColAt(l, x) \in C /\ At(RowAt(l, x), ColAt(l, x)) = x
  <2>1. RowAt(l, x) \in 0 .. Height(l) - 1
    BY CellOf
  <2>2. RowAt(l, x) \in R
    BY <1>1, <1>2, <1>4, <2>1, LaunchSizes, TakenIs
  <2> QED BY <1>0, <1>2, <1>4, <2>2, CellTaken
<1>5. Stores(l, 1, p) = PackStores(l, p)
  BY <1>0, Zenon DEF Stores
<1>6. ASSUME NEW x PROVE x \in DOMAIN PackStores(l, p) <=> \E r \in R : \E c \in C : x = At(r, c)
  <2>1. DOMAIN PackStores(l, p) = {At(u[1], u[2]) : u \in R \X C}
    BY DEF PackStores, Stored
  <2> HIDE DEF At, R, C
  <2>2. ASSUME NEW u \in R \X C PROVE u[1] \in R /\ u[2] \in C
    OBVIOUS
  <2>3. ASSUME NEW r \in R, NEW c \in C PROVE <<r, c>> \in R \X C /\ <<r, c>>[1] = r /\ <<r, c>>[2] = c
    OBVIOUS
  <2>4. ASSUME x \in DOMAIN PackStores(l, p) PROVE \E r \in R : \E c \in C : x = At(r, c)
    BY <2>1, <2>2, <2>4
  <2>5. ASSUME NEW r \in R, NEW c \in C, x = At(r, c) PROVE x \in DOMAIN PackStores(l, p)
    BY <2>1, <2>3, <2>5
  <2> QED BY <2>4, <2>5
<1>7. ASSUME NEW r \in R, NEW c \in C PROVE PackStores(l, p)[At(r, c)] = V(r, c)
  <2>1. \A u, v \in R \X C : At(u[1], u[2]) = At(v[1], v[2]) => u = v
    BY <1>3
  <2>2. <<r, c>> \in R \X C
    OBVIOUS
  <2> QED BY <2>1, <2>2 DEF PackStores, Stored
<1>8. ASSUME NEW r \in R, NEW c \in C PROVE V(r, c) = Want(l, At(r, c))
  <2>1. r \in Nat
    BY <1>1, <1>3
  <2>2. r % l.capacity \in Int /\ Count(l, r \div l.capacity) \in Nat
    <3>1. r % l.capacity \in 0 .. l.capacity - 1
      BY <1>1, <2>1, Modulo
    <3>2. \A e : Count(l, e) \in Nat
      BY <1>1, CountTypes DEF Count
    <3> QED BY <1>1, <3>1, <3>2
  <2>3. Want(l, At(r, c)) = Expected(l, At(r, c)) /\ At(r, c) \div l.groups = r /\ At(r, c) % l.groups = c
    BY <1>0, <1>3, MoeIs DEF Want
  <2> HIDE DEF At
  <2> QED BY <1>0, <2>2, <2>3 DEF Expected, Start, Count
<1>9. ASSUME NEW r \in R, NEW c \in C, V(r, c) # Zero PROVE Alive(l, V(r, c)[2])
  <2>1. PICK e, i : e = r \div l.capacity /\ i = r % l.capacity
    OBVIOUS
  <2>2. e \in ExpertSet /\ i \in Nat
    <3>1. r \in 0 .. Experts * l.capacity - 1
      BY <1>1, <1>3
    <3>2. l.capacity \in Nat \ {0} /\ Experts \in Nat
      BY <1>1, LaunchSizes
    <3>3. r \div l.capacity \in 0 .. Experts - 1 /\ r % l.capacity \in 0 .. l.capacity - 1
      BY ONLY <3>1, <3>2, Without
    <3> QED BY <2>1, <3>2, <3>3 DEF ExpertSet
  <2>3. i < Count(l, e) /\ V(r, c) = Value("token", Token(Sorted(key)[Start(l, e) + i]), c)
    BY <1>1, <1>9, <2>1, <2>2, CountTypes DEF Count
  <2>4. Sorted(key)[Start(l, e) + i] \in Routed(key)
    BY <1>1, <2>2, <2>3, LivePlace DEF Start, Count
  <2> QED BY <1>0, <2>3, <2>4 DEF Alive, Value
<1> HIDE DEF R, C, V, At
<1>10. ASSUME NEW x PROVE x \in DOMAIN Stores(l, 1, p) <=> x \in Addresses(l) /\ PackWriter(l)[x] = <<1, p>>
  <2>1. x \in Addresses(l) => (PackWriter(l)[x] = <<1, p>> <=>
          RowAt(l, x) \div BlockRows = p[1] /\ ColAt(l, x) \div BlockGroups = p[2])
    BY <1>2 DEF PackWriter
  <2> QED BY <1>3, <1>4, <1>5, <1>6, <2>1
<1>11. ASSUME NEW x \in DOMAIN Stores(l, 1, p) PROVE Stores(l, 1, p)[x] = Want(l, x)
  BY <1>5, <1>6, <1>7, <1>8
<1>12. ASSUME NEW row \in Loads(l, 1, p) PROVE Alive(l, row)
  <2>1. row \in {value[2] : value \in {v \in {PackStores(l, p)[x] : x \in DOMAIN PackStores(l, p)} : v # Zero}}
    BY <1>0 DEF Loads
  <2>2. PICK x \in DOMAIN PackStores(l, p) : row = PackStores(l, p)[x][2] /\ PackStores(l, p)[x] # Zero
    BY <2>1
  <2> QED BY <1>6, <1>7, <1>9, <2>2
<1> QED BY <1>10, <1>11, <1>12 DEF Does

LEMMA PackSound ==
  ASSUME NEW l \in Launches, Runs(l), l.kernel = "pack"
  PROVE  Sound(l)
<1>1. l.kernel \notin Gemms /\ l.kernel \in Packers /\ Stages(l) = 1
  BY DEF Gemms, Packers, Stages
<1>2. ASSUME NEW x \in Addresses(l) PROVE \E p \in LaunchGrid(l, 1) : PackWriter(l)[x] = <<1, p>>
  <2>1. RowAt(l, x) \in 0 .. Height(l) - 1 /\ Height(l) = Experts * l.capacity /\ Height(l) \in Nat
    BY <1>1, CellOf, Extent DEF Height
  <2>2. l.capacity # 0
    BY <2>1, LaunchSizes
  <2>3. RowAt(l, x) \div BlockRows \in Interval(0, CeilDiv(Experts * l.capacity, BlockRows))
    BY <2>1, LaunchSizes, RowBlock
  <2>4. <<RowAt(l, x) \div BlockRows, ColAt(l, x) \div BlockGroups>> \in LaunchGrid(l, 1)
    BY <1>1, <2>2, <2>3, ColumnBlock DEF LaunchGrid, Grid
  <2> QED BY <2>4 DEF PackWriter
<1>3. \A s \in 1 .. Stages(l) : s = 1
  BY <1>1
<1>4. 1 \in 1 .. Stages(l)
  BY <1>1
<1> DEFINE W == PackWriter(l)
<1>5. \A s \in 1 .. Stages(l) : \A p \in LaunchGrid(l, s) : Does(l, s, p, Addresses(l), W)
  BY <1>3, PackDoes
<1>6. \A x \in Addresses(l) : \E s \in 1 .. Stages(l) : \E p \in LaunchGrid(l, s) : W[x] = <<s, p>>
  BY <1>2, <1>4
<1> HIDE DEF W
<1>7. Owned(l, Addresses(l), W)
  BY <1>5, <1>6 DEF Owned
<1> QED BY <1>7, SoundIf

-----------------------------------------------------------------------------
(* Rows scattered, and rows cleared.                                       *)

\* A program whose cells are the rows row[r] and a block of columns.
CellsAt(l, st, R, row, y) ==
  DOMAIN st = {Address(l, row[u[1]], u[2]) : u \in R \X Columns(l, y)}
RowsApart(l, R, row) ==
  /\ \A r \in R : row[r] \in 0 .. Height(l) - 1
  /\ \A r, q \in R : row[r] = row[q] => r = q

LEMMA CellStores ==
  ASSUME NEW l \in Launches, Runs(l), l.kernel \notin Gemms, NEW st, NEW R, NEW row, NEW y \in Nat,
         CellsAt(l, st, R, row, y), RowsApart(l, R, row)
  PROVE  \A x : x \in DOMAIN st <=>
           x \in Addresses(l) /\ ColAt(l, x) \div BlockGroups = y /\ \E r \in R : row[r] = RowAt(l, x)
<1> DEFINE C == Columns(l, y)
<1>1. ASSUME NEW u \in R \X C
      PROVE  /\ u[1] \in R /\ u[2] \in C
             /\ Address(l, row[u[1]], u[2]) \in Addresses(l)
             /\ RowAt(l, Address(l, row[u[1]], u[2])) = row[u[1]]
             /\ ColAt(l, Address(l, row[u[1]], u[2])) \div BlockGroups = y
  <2>1. u[1] \in R /\ u[2] \in C
    OBVIOUS
  <2>2. row[u[1]] \in 0 .. Height(l) - 1
    BY <2>1 DEF RowsApart
  <2> QED BY <2>1, <2>2, BlockCells
<1>2. ASSUME NEW x \in Addresses(l), ColAt(l, x) \div BlockGroups = y, NEW r \in R, row[r] = RowAt(l, x)
      PROVE  x \in DOMAIN st
  <2>1. ColAt(l, x) \in C /\ Address(l, RowAt(l, x), ColAt(l, x)) = x
    BY <1>2, CellTaken
  <2>2. PICK u : u = <<r, ColAt(l, x)>>
    OBVIOUS
  <2>3. u \in R \X C /\ u[1] = r /\ u[2] = ColAt(l, x)
    BY <2>1, <2>2
  <2>4. Address(l, row[u[1]], u[2]) = x
    BY <1>2, <2>1, <2>3
  <2> QED BY <2>3, <2>4 DEF CellsAt
<1>3. ASSUME NEW x \in DOMAIN st
      PROVE  x \in Addresses(l) /\ ColAt(l, x) \div BlockGroups = y /\ \E r \in R : row[r] = RowAt(l, x)
  <2>1. PICK u \in R \X C : x = Address(l, row[u[1]], u[2])
    BY DEF CellsAt
  <2> HIDE DEF C
  <2> QED BY <1>1, <2>1
<1> QED BY <1>2, <1>3

LEMMA CellsApart ==
  ASSUME NEW l \in Launches, Runs(l), l.kernel \notin Gemms, NEW R, NEW row, NEW y \in Nat,
         RowsApart(l, R, row)
  PROVE  \A u, v \in R \X Columns(l, y) :
           Address(l, row[u[1]], u[2]) = Address(l, row[v[1]], v[2]) => u = v
<1> DEFINE C == Columns(l, y)
<1>1. ASSUME NEW u \in R \X C
      PROVE  /\ u[1] \in R /\ u[2] \in C /\ u = <<u[1], u[2]>>
             /\ RowAt(l, Address(l, row[u[1]], u[2])) = row[u[1]]
             /\ ColAt(l, Address(l, row[u[1]], u[2])) = u[2]
  <2>1. u[1] \in R /\ u[2] \in C /\ u = <<u[1], u[2]>>
    OBVIOUS
  <2>2. row[u[1]] \in 0 .. Height(l) - 1
    BY <2>1 DEF RowsApart
  <2> QED BY <2>1, <2>2, BlockCells
<1> HIDE DEF C
<1>2. ASSUME NEW u \in R \X C, NEW v \in R \X C,
             Address(l, row[u[1]], u[2]) = Address(l, row[v[1]], v[2])
      PROVE  u = v
  <2>1. row[u[1]] = row[v[1]] /\ u[2] = v[2]
    BY <1>1, <1>2
  <2>2. u[1] = v[1]
    BY <1>1, <2>1 DEF RowsApart
  <2> QED BY <1>1, <2>1, <2>2
<1> QED BY <1>2 DEF C

\* The expert and the place of a packed row, and the assignment that is there.
Owner(l, x) == RowAt(l, x) \div l.capacity
Place(l, x) == RowAt(l, x) % l.capacity
Full(l, x) == Place(l, x) < CountOf(KeysOf(l), Owner(l, x))
Filler(l, x) == Sorted(KeysOf(l))[StartOf(KeysOf(l), Owner(l, x)) + Place(l, x)]

LEMMA PackedRow ==
  ASSUME NEW l \in Launches, Runs(l), l.kernel \in Packers, l.capacity # 0, NEW x \in Addresses(l)
  PROVE  /\ Owner(l, x) \in ExpertSet /\ Place(l, x) \in 0 .. l.capacity - 1
         /\ RowAt(l, x) = Owner(l, x) * l.capacity + Place(l, x)
         /\ Want(l, x) = IF Full(l, x) THEN Value("token", Token(Filler(l, x)), ColAt(l, x)) ELSE Zero
<1>0. l.kernel \notin Gemms
  BY DEF Gemms, Packers
<1>1. /\ Height(l) = Experts * l.capacity /\ RowAt(l, x) \in 0 .. Height(l) - 1
      /\ l.capacity \in Nat \ {0} /\ Experts \in Nat
  BY <1>0, CellOf, MoeIs, LaunchSizes DEF Height, Packers
<1>2. /\ Owner(l, x) \in 0 .. Experts - 1 /\ Place(l, x) \in 0 .. l.capacity - 1
      /\ RowAt(l, x) = Owner(l, x) * l.capacity + Place(l, x)
  BY <1>1, Without DEF Owner, Place
<1>3. Want(l, x) = Expected(l, x) /\ RowAt(l, x) = x \div l.groups /\ ColAt(l, x) = x % l.groups
  BY <1>0, MoeIs DEF Want
<1>4. Expected(l, x) = IF Full(l, x) THEN Value("token", Token(Filler(l, x)), ColAt(l, x)) ELSE Zero
  BY <1>3 DEF Expected, Full, Filler, Owner, Place, Packers
<1> QED BY <1>2, <1>3, <1>4 DEF ExpertSet

\* Rows of one expert that are cleared.
LEMMA ZeroCells ==
  ASSUME NEW l \in Launches, Runs(l), l.kernel \in Packers, l.capacity # 0,
         NEW e \in ExpertSet, NEW rows, rows \subseteq Nat, NEW y \in Nat
  PROVE  \A x : /\ x \in DOMAIN ZeroStores(l, e, rows, y) <=>
                     /\ x \in Addresses(l) /\ ColAt(l, x) \div BlockGroups = y
                     /\ Owner(l, x) = e /\ Place(l, x) \in rows
                /\ x \in DOMAIN ZeroStores(l, e, rows, y) => ZeroStores(l, e, rows, y)[x] = Zero
<1> DEFINE R == {i \in rows : i < l.capacity}
           row == [i \in R |-> e * l.capacity + i]
           st == ZeroStores(l, e, rows, y)
<1>0. l.kernel \notin Gemms
  BY DEF Gemms, Packers
<1>1. Height(l) = Experts * l.capacity /\ l.capacity \in Nat \ {0} /\ Experts \in Nat /\ e \in 0 .. Experts - 1
  BY <1>0, MoeIs, LaunchSizes DEF Height, ExpertSet, Packers
<1>2. ASSUME NEW i \in R
      PROVE  row[i] = e * l.capacity + i /\ row[i] \in 0 .. Height(l) - 1
             /\ row[i] \div l.capacity = e /\ row[i] % l.capacity = i
  <2>1. i \in 0 .. l.capacity - 1
    BY <1>1
  <2>2. /\ e * l.capacity + i \in Nat /\ e * l.capacity + i < Experts * l.capacity
        /\ Experts * l.capacity \in Nat
        /\ (e * l.capacity + i) \div l.capacity = e /\ (e * l.capacity + i) % l.capacity = i
    <3>1. PICK w : w = l.capacity
      OBVIOUS
    <3>2. w \in Nat \ {0} /\ Experts \in Nat /\ e \in 0 .. Experts - 1 /\ i \in 0 .. w - 1
      BY <1>1, <2>1, <3>1
    <3>3. /\ e * w + i \in Nat /\ e * w + i < Experts * w /\ Experts * w \in Nat
          /\ (e * w + i) \div w = e /\ (e * w + i) % w = i
      BY ONLY <3>2, Within
    <3> QED BY <3>1, <3>3
  <2>3. row[i] = e * l.capacity + i
    OBVIOUS
  <2> HIDE DEF row
  <2> QED BY <1>1, <2>2, <2>3
<1>3. RowsApart(l, R, row)
  <2> HIDE DEF row, R
  <2> QED BY <1>2 DEF RowsApart
<1>4. CellsAt(l, st, R, row, y)
  <2>1. DOMAIN st = {Address(l, e * l.capacity + u[1], u[2]) : u \in R \X Columns(l, y)}
    BY DEF ZeroStores, Stored
  <2>2. \A u \in R \X Columns(l, y) : row[u[1]] = e * l.capacity + u[1]
    OBVIOUS
  <2> HIDE DEF row, R, st
  <2> QED BY <2>1, <2>2 DEF CellsAt
<1>5. \A x \in DOMAIN st : st[x] = Zero
  BY DEF ZeroStores, Stored
<1>6. \A x : x \in DOMAIN st <=>
        x \in Addresses(l) /\ ColAt(l, x) \div BlockGroups = y /\ \E i \in R : row[i] = RowAt(l, x)
  <2> HIDE DEF row, R, st
  <2> QED BY <1>0, <1>3, <1>4, CellStores
<1>7. ASSUME NEW x \in Addresses(l)
      PROVE  (\E i \in R : row[i] = RowAt(l, x)) <=> Owner(l, x) = e /\ Place(l, x) \in rows
  <2>1. ASSUME NEW i \in R, row[i] = RowAt(l, x) PROVE Owner(l, x) = e /\ Place(l, x) \in rows
    <3>1. i \in rows
      OBVIOUS
    <3> QED BY <1>2, <2>1, <3>1 DEF Owner, Place
  <2>2. ASSUME Owner(l, x) = e, Place(l, x) \in rows PROVE \E i \in R : row[i] = RowAt(l, x)
    <3>1. Place(l, x) \in 0 .. l.capacity - 1 /\ RowAt(l, x) = e * l.capacity + Place(l, x)
      BY <2>2, PackedRow
    <3>2. Place(l, x) \in R
      BY <1>1, <2>2, <3>1
    <3> HIDE DEF row, R
    <3> QED BY <1>2, <3>1, <3>2
  <2> QED BY <2>1, <2>2
<1> HIDE DEF row, R
<1> QED BY <1>5, <1>6, <1>7

-----------------------------------------------------------------------------
(* The scatter.                                                            *)

LEMMA TokenIs ==
  ASSUME NEW a \in Assignments
  PROVE  Token(a) \in 0 .. Tokens - 1 /\ Token(a) \in Nat /\ a % TopK \in 0 .. TopK - 1
         /\ a = Token(a) * TopK + (a % TopK)
<1>1. a \in 0 .. Tokens * TopK - 1
  BY DEF Assignments, Slots
<1>2. Tokens \in Nat /\ TopK \in Nat \ {0}
  BY LaunchSizes
<1>3. a \div TopK \in 0 .. Tokens - 1 /\ a % TopK \in 0 .. TopK - 1 /\ a = (a \div TopK) * TopK + (a % TopK)
  BY ONLY <1>1, <1>2, Without
<1> QED BY <1>2, <1>3 DEF Token

LEMMA TokensTaken ==
  ASSUME NEW p, p[1] \in Nat
  PROVE  /\ TokensOf(p) \subseteq 0 .. Tokens - 1
         /\ \A t \in 0 .. Tokens - 1 : t \in TokensOf(p) <=> t \div BlockRows = p[1]
<1>1. PICK b : b = p[1]
  OBVIOUS
<1>2. b \in Nat /\ BlockRows \in Nat \ {0} /\ Tokens \in Nat
  BY <1>1, LaunchSizes
<1>3. /\ Taken(b, BlockRows, Tokens) \subseteq 0 .. Tokens - 1
      /\ \A t \in 0 .. Tokens - 1 : t \in Taken(b, BlockRows, Tokens) <=> t \div BlockRows = b
  BY ONLY <1>2, TakenIs
<1> QED BY <1>1, <1>3 DEF TokensOf

\* The row of an assignment that has one, and the assignment of a row.
LEMMA HasRowIs ==
  ASSUME NEW l, NEW a \in Assignments, HasRow(l, a), l.capacity \in Nat
  PROVE  /\ a \in Routed(KeysOf(l)) /\ KeysOf(l)[a] \in ExpertSet
         /\ LocalRow(l, a) \in 0 .. l.capacity - 1
         /\ LocalRow(l, a) < CountOf(KeysOf(l), KeysOf(l)[a])
         /\ Rank(KeysOf(l), a) = StartOf(KeysOf(l), KeysOf(l)[a]) + LocalRow(l, a)
<1> DEFINE key == KeysOf(l)
<1>1. key \in Keys /\ key[a] \in 0 .. Experts /\ key[a] \in Int
  BY KeysAre, KeyOf
<1>2. Slot(l, a) >= 0 /\ LocalRow(l, a) \in 0 .. l.capacity - 1
  BY DEF HasRow, Interval
<1>3. key[a] < Experts /\ Slot(l, a) = Rank(key, a)
  BY <1>2 DEF Slot
<1>4. /\ StartOf(key, key[a]) \in Nat /\ CountOf(key, key[a]) \in Nat /\ Rank(key, a) \in Int
      /\ Rank(key, a) < StartOf(key, key[a]) + CountOf(key, key[a])
  BY <1>1, CountTypes, RankInRun, RankType, LaunchSizes DEF Assignments
<1>5. LocalRow(l, a) = Rank(key, a) - StartOf(key, key[a])
  BY <1>3 DEF LocalRow, Start
<1>6. /\ LocalRow(l, a) < CountOf(key, key[a]) /\ Rank(key, a) = StartOf(key, key[a]) + LocalRow(l, a)
  BY <1>4, <1>5
<1> QED BY <1>1, <1>2, <1>3, <1>6, LaunchSizes DEF Routed, ExpertSet

LEMMA FillerHasRow ==
  ASSUME NEW l, NEW e \in ExpertSet, NEW i \in Nat, i < CountOf(KeysOf(l), e), i < l.capacity,
         l.capacity \in Nat, NEW a, a = Sorted(KeysOf(l))[StartOf(KeysOf(l), e) + i]
  PROVE  a \in Assignments /\ a \in Routed(KeysOf(l)) /\ HasRow(l, a) /\ KeysOf(l)[a] = e /\ LocalRow(l, a) = i
<1> DEFINE key == KeysOf(l)
<1>1. key \in Keys
  BY KeysAre
<1>2. /\ a \in Routed(key) /\ a \in Assignments /\ key[a] = e
      /\ Rank(key, a) = StartOf(key, e) + i
  BY <1>1, LivePlace
<1>3. StartOf(key, e) \in Nat
  BY <1>1, CountTypes
<1>4. Slot(l, a) = Rank(key, a)
  BY <1>2, LaunchSizes DEF Slot, ExpertSet
<1>5. LocalRow(l, a) = i
  BY <1>2, <1>3, <1>4 DEF LocalRow, Start
<1> QED BY <1>2, <1>3, <1>4, <1>5 DEF HasRow, Interval

LEMMA ScatterCells ==
  ASSUME NEW l \in Launches, Runs(l), l.kernel \in Packers, l.capacity # 0,
         NEW p, p[1] \in Nat, p[2] \in Nat
  PROVE  \A x : /\ x \in DOMAIN ScatterStores(l, p) <=>
                     /\ x \in Addresses(l) /\ ColAt(l, x) \div BlockGroups = p[2]
                     /\ Full(l, x) /\ Token(Filler(l, x)) \div BlockRows = p[1]
                /\ x \in DOMAIN ScatterStores(l, p) => ScatterStores(l, p)[x] = Want(l, x)
<1> DEFINE key == KeysOf(l)
           R == {a \in Assignments : Token(a) \in TokensOf(p) /\ HasRow(l, a)}
           row == [a \in R |-> key[a] * l.capacity + LocalRow(l, a)]
           st == ScatterStores(l, p)
           C == Columns(l, p[2])
<1>0. l.kernel \notin Gemms
  BY DEF Gemms, Packers
<1>1. /\ Height(l) = Experts * l.capacity /\ l.capacity \in Nat \ {0} /\ Experts \in Nat /\ key \in Keys
  BY <1>0, MoeIs, LaunchSizes, KeysAre DEF Height, Packers
<1>2. ASSUME NEW a \in R
      PROVE  /\ row[a] = key[a] * l.capacity + LocalRow(l, a) /\ row[a] \in 0 .. Height(l) - 1
             /\ row[a] \div l.capacity = key[a] /\ row[a] % l.capacity = LocalRow(l, a)
             /\ a \in Assignments /\ LocalRow(l, a) < CountOf(key, key[a])
             /\ Sorted(key)[StartOf(key, key[a]) + LocalRow(l, a)] = a
  <2>1. /\ key[a] \in 0 .. Experts - 1 /\ LocalRow(l, a) \in 0 .. l.capacity - 1
        /\ a \in Assignments /\ LocalRow(l, a) < CountOf(key, key[a])
        /\ Rank(key, a) = StartOf(key, key[a]) + LocalRow(l, a)
    BY <1>1, HasRowIs DEF ExpertSet
  <2>2. PICK w, e, i : w = l.capacity /\ e = key[a] /\ i = LocalRow(l, a)
    OBVIOUS
  <2>3. w \in Nat \ {0} /\ Experts \in Nat /\ e \in 0 .. Experts - 1 /\ i \in 0 .. w - 1
    BY <1>1, <2>1, <2>2
  <2>4. /\ e * w + i \in Nat /\ e * w + i < Experts * w /\ Experts * w \in Nat
        /\ (e * w + i) \div w = e /\ (e * w + i) % w = i
    BY ONLY <2>3, Within
  <2>5. row[a] = e * w + i
    BY <2>2
  <2>6. Sorted(key)[Rank(key, a)] = a
    BY <1>1, <2>1, SortedRank
  <2> HIDE DEF row, key
  <2> QED BY <1>1, <2>1, <2>2, <2>4, <2>5, <2>6
<1>3. RowsApart(l, R, row)
  <2> HIDE DEF row, R, key
  <2> QED BY <1>2 DEF RowsApart
<1>4. CellsAt(l, st, R, row, p[2])
  <2>1. DOMAIN st = {Address(l, key[u[1]] * l.capacity + LocalRow(l, u[1]), u[2]) : u \in R \X C}
    BY DEF ScatterStores, Stored
  <2>2. \A u \in R \X C : row[u[1]] = key[u[1]] * l.capacity + LocalRow(l, u[1])
    OBVIOUS
  <2> HIDE DEF row, R, st, key
  <2> QED BY <2>1, <2>2 DEF CellsAt
<1>5. \A u, v \in R \X C : Address(l, row[u[1]], u[2]) = Address(l, row[v[1]], v[2]) => u = v
  <2> HIDE DEF row, R
  <2> QED BY <1>0, <1>3, CellsApart
<1>6. ASSUME NEW u \in R \X C
      PROVE  st[Address(l, row[u[1]], u[2])] = Value("token", Token(u[1]), u[2])
  <2>1. \A v \in R \X C : row[v[1]] = key[v[1]] * l.capacity + LocalRow(l, v[1])
    OBVIOUS
  <2>2. \A v \in R \X C :
          Address(l, key[v[1]] * l.capacity + LocalRow(l, v[1]), v[2])
            = Address(l, key[u[1]] * l.capacity + LocalRow(l, u[1]), u[2]) => v = u
    <3> HIDE DEF row, R, key, C
    <3> QED BY <1>5, <2>1
  <2>3. st[Address(l, key[u[1]] * l.capacity + LocalRow(l, u[1]), u[2])] = Value("token", Token(u[1]), u[2])
    BY <2>2 DEF ScatterStores, Stored
  <2> HIDE DEF row, R, key, C, st
  <2> QED BY <2>1, <2>3
<1>7. \A x : x \in DOMAIN st <=>
        x \in Addresses(l) /\ ColAt(l, x) \div BlockGroups = p[2] /\ \E a \in R : row[a] = RowAt(l, x)
  <2> HIDE DEF row, R, st
  <2> QED BY <1>0, <1>3, <1>4, CellStores
<1>8. ASSUME NEW x \in Addresses(l), NEW a \in R, row[a] = RowAt(l, x)
      PROVE  Full(l, x) /\ Filler(l, x) = a /\ Token(a) \div BlockRows = p[1]
  <2>1. Owner(l, x) = key[a] /\ Place(l, x) = LocalRow(l, a)
    BY <1>2, <1>8 DEF Owner, Place
  <2>2. Full(l, x) /\ Filler(l, x) = a
    BY <1>2, <2>1 DEF Full, Filler
  <2>3. Token(a) \in TokensOf(p)
    OBVIOUS
  <2>4. Token(a) \div BlockRows = p[1]
    BY <2>3, TokensTaken
  <2> QED BY <2>2, <2>4
<1>9. ASSUME NEW x \in Addresses(l), Full(l, x), Token(Filler(l, x)) \div BlockRows = p[1]
      PROVE  \E a \in R : row[a] = RowAt(l, x)
  <2>1. PICK e, i, a : e = Owner(l, x) /\ i = Place(l, x) /\ a = Filler(l, x)
    OBVIOUS
  <2>2. e \in ExpertSet /\ i \in Nat /\ i < l.capacity /\ RowAt(l, x) = e * l.capacity + i
    BY <1>1, <2>1, PackedRow
  <2>3. a = Sorted(key)[StartOf(key, e) + i] /\ i < CountOf(key, e)
    BY <1>9, <2>1 DEF Full, Filler
  <2>4. a \in Assignments /\ HasRow(l, a) /\ key[a] = e /\ LocalRow(l, a) = i
    BY <1>1, <2>2, <2>3, FillerHasRow
  <2>5. Token(a) \in TokensOf(p)
    BY <1>9, <2>1, <2>4, TokenIs, TokensTaken
  <2>6. a \in R
    BY <2>4, <2>5
  <2> HIDE DEF row, R
  <2> QED BY <1>2, <2>2, <2>4, <2>6
<1>10. ASSUME NEW x \in DOMAIN st PROVE st[x] = Want(l, x)
  <2>1. PICK u \in R \X C : x = Address(l, row[u[1]], u[2])
    <3> HIDE DEF row, R, st
    <3> QED BY <1>4 DEF CellsAt
  <2>2. u[1] \in R /\ u[2] \in C
    OBVIOUS
  <2> HIDE DEF row, R, st, C
  <2>3. x \in Addresses(l) /\ RowAt(l, x) = row[u[1]] /\ ColAt(l, x) = u[2]
    <3>1. row[u[1]] \in 0 .. Height(l) - 1
      BY <1>2, <2>2
    <3> QED BY <1>0, <2>1, <2>2, <3>1, BlockCells DEF C
  <2>4. Full(l, x) /\ Filler(l, x) = u[1]
    BY <1>8, <2>2, <2>3
  <2> QED BY <1>6, <2>1, <2>3, <2>4, PackedRow
<1> HIDE DEF row, R, st
<1> QED BY <1>7, <1>8, <1>9, <1>10 DEF st

LEMMA PackAlive ==
  ASSUME NEW l, l.kernel \in Packers, NEW t \in {Token(b) : b \in Routed(KeysOf(l))}
  PROVE  Alive(l, t)
<1>1. l.kernel # "ragged" /\ l.kernel \notin {"activate", "combine"}
  BY DEF Packers
<1> QED BY <1>1 DEF Alive

LEMMA ScatterAlive ==
  ASSUME NEW l \in Launches, l.kernel \in Packers, l.capacity \in Nat, NEW p, p[1] \in Nat,
         NEW t \in ScatterLoads(l, p)
  PROVE  Alive(l, t)
<1>1. t \in TokensOf(p) /\ \E r \in Interval(0, TopK) : HasRow(l, t * TopK + r)
  BY DEF ScatterLoads, EnabledToken
<1>2. t \in 0 .. Tokens - 1
  BY <1>1, TokensTaken
<1>3. PICK r \in 0 .. TopK - 1 : HasRow(l, t * TopK + r)
  BY <1>1, LaunchSizes DEF Interval
<1>0. Tokens \in Nat /\ TopK \in Nat \ {0}
  BY LaunchSizes
<1>4. t * TopK + r \in Nat /\ t * TopK + r < Tokens * TopK /\ (t * TopK + r) \div TopK = t
      /\ Tokens * TopK \in Nat
  BY ONLY <1>0, <1>2, <1>3, Within
<1>5. PICK a : a = t * TopK + r
  OBVIOUS
<1>6. a \in Assignments /\ Token(a) = t
  BY <1>4, <1>5 DEF Assignments, Slots, Token
<1>7. a \in Routed(KeysOf(l))
  <2>1. HasRow(l, a)
    BY <1>3, <1>5
  <2> QED BY <1>6, <2>1, HasRowIs
<1>8. t \in {Token(b) : b \in Routed(KeysOf(l))}
  BY <1>6, <1>7
<1> QED BY <1>8, PackAlive

-----------------------------------------------------------------------------
(* The fused producers.                                                    *)

LEMMA Room ==
  ASSUME NEW l \in Launches, Runs(l), l.kernel \in Packers, NEW x \in Addresses(l)
  PROVE  l.capacity # 0
<1>1. l.kernel \notin Gemms
  BY DEF Gemms, Packers
<1>2. RowAt(l, x) \in 0 .. Height(l) - 1 /\ Height(l) = Experts * l.capacity /\ Height(l) \in Nat
  BY <1>1, CellOf, Extent DEF Height, Packers
<1> QED BY <1>2, LaunchSizes

LEMMA FillerProgram ==
  ASSUME NEW l \in Launches, Runs(l), l.kernel \in Packers, NEW x \in Addresses(l), Full(l, x)
  PROVE  /\ Filler(l, x) \in Routed(KeysOf(l)) /\ Token(Filler(l, x)) \in 0 .. Tokens - 1
         /\ Token(Filler(l, x)) \div BlockRows \in 0 .. TokenPrograms - 1 /\ TokenPrograms \in Nat
<1>0. l.capacity # 0 /\ l.capacity \in Nat /\ KeysOf(l) \in Keys
  <2>1. l.kernel \notin Gemms
    BY DEF Gemms, Packers
  <2> QED BY <2>1, Room, MoeIs, KeysAre
<1>1. PICK e, i, a : e = Owner(l, x) /\ i = Place(l, x) /\ a = Filler(l, x)
  OBVIOUS
<1>2. e \in ExpertSet /\ i \in Nat /\ i < CountOf(KeysOf(l), e)
  BY <1>0, <1>1, PackedRow DEF Full
<1>3. a \in Routed(KeysOf(l)) /\ a \in Assignments
  BY <1>0, <1>1, <1>2, LivePlace DEF Filler
<1>4. Token(a) \in 0 .. Tokens - 1
  BY <1>3, TokenIs
<1>5. Token(a) \div BlockRows \in 0 .. TokenPrograms - 1 /\ TokenPrograms \in Nat
  BY <1>4, LaunchSizes, CeilDivIs DEF TokenPrograms
<1> QED BY <1>1, <1>3, <1>4, <1>5

\* The elements a launch stores: all, or those of a token.
PackedCells(l) == {x \in Addresses(l) : Full(l, x) \/ ~l.cleared}
FusedWriter(l) ==
  [x \in PackedCells(l) |->
     <<1, IF Full(l, x) THEN <<Token(Filler(l, x)) \div BlockRows, ColAt(l, x) \div BlockGroups>>
          ELSE <<TokenPrograms + Owner(l, x), ColAt(l, x) \div BlockGroups>>>>]

LEMMA FusedDoes ==
  ASSUME NEW l \in Launches, Runs(l), l.kernel = "fused", NEW p \in LaunchGrid(l, 1)
  PROVE  Does(l, 1, p, PackedCells(l), FusedWriter(l))
<1> DEFINE D == PackedCells(l)
           W == FusedWriter(l)
           n == TokenPrograms + (IF l.cleared THEN 0 ELSE Experts)
<1>0. l.kernel \notin Gemms /\ l.kernel \in Packers
  BY DEF Gemms, Packers
<1>1. /\ l.capacity \in Nat \ {0} /\ l.capacity # 0 /\ l.groups \in Nat \ {0} /\ l.cleared \in BOOLEAN
      /\ TokenPrograms \in Nat /\ KeysOf(l) \in Keys
  <2>1. l.capacity # 0
    BY <1>0 DEF LaunchGrid
  <2>2. TokenPrograms \in Nat
    BY LaunchSizes, CeilDivIs DEF TokenPrograms
  <2> QED BY <1>0, <2>1, <2>2, MoeIs, KeysAre, LaunchAssumption
<1>2. p = <<p[1], p[2]>> /\ p[1] \in 0 .. n - 1 /\ p[1] \in Nat /\ p[2] \in Nat
  <2>0. LaunchGrid(l, 1) = Grid(n, l)
    BY <1>0, <1>1 DEF LaunchGrid
  <2>1. p \in Grid(n, l)
    <3> HIDE DEF n
    <3> QED BY <2>0
  <2>2. n \in Nat /\ CeilDiv(l.groups, BlockGroups) \in Nat
    <3>1. Experts \in Nat /\ TokenPrograms \in Nat
      BY <1>1, LaunchSizes
    <3>2. n \in Nat
      BY ONLY <3>1
    <3> QED BY <1>1, <3>2, LaunchSizes, CeilDivIs
  <2> HIDE DEF n
  <2> QED BY <2>1, <2>2 DEF Grid, Interval
<1>3. Stores(l, 1, p) = FusedStores(l, p) /\ Loads(l, 1, p) = FusedLoads(l, p)
  BY <1>0 DEF Stores, Loads
<1>4. CASE p[1] < TokenPrograms
  <2>1. Stores(l, 1, p) = ScatterStores(l, p) /\ Loads(l, 1, p) = ScatterLoads(l, p)
    BY <1>3, <1>4 DEF FusedStores, FusedLoads
  <2>2. ASSUME NEW x \in D
        PROVE  W[x] = <<1, p>> <=> /\ Full(l, x) /\ ColAt(l, x) \div BlockGroups = p[2]
                                   /\ Token(Filler(l, x)) \div BlockRows = p[1]
    <3>1. x \in Addresses(l)
      BY DEF PackedCells
    <3>2. CASE Full(l, x)
      <4>1. W[x] = <<1, <<Token(Filler(l, x)) \div BlockRows, ColAt(l, x) \div BlockGroups>>>>
        BY <3>2 DEF FusedWriter
      <4> QED BY <1>2, <3>2, <4>1
    <3>3. CASE ~Full(l, x)
      <4>1. W[x] = <<1, <<TokenPrograms + Owner(l, x), ColAt(l, x) \div BlockGroups>>>>
        BY <3>3 DEF FusedWriter
      <4>2. Owner(l, x) \in Nat
        BY <1>0, <1>1, <3>1, PackedRow, LaunchSizes DEF ExpertSet
      <4>3. TokenPrograms + Owner(l, x) # p[1]
        BY <1>1, <1>2, <1>4, <4>2
      <4> QED BY <1>2, <3>3, <4>1, <4>3
    <3> QED BY <3>2, <3>3
  <2>3. \A x : /\ x \in DOMAIN ScatterStores(l, p) <=>
                    /\ x \in Addresses(l) /\ ColAt(l, x) \div BlockGroups = p[2]
                    /\ Full(l, x) /\ Token(Filler(l, x)) \div BlockRows = p[1]
               /\ x \in DOMAIN ScatterStores(l, p) => ScatterStores(l, p)[x] = Want(l, x)
    BY <1>0, <1>1, <1>2, ScatterCells
  <2>4. \A row \in Loads(l, 1, p) : Alive(l, row)
    BY <1>0, <1>1, <1>2, <2>1, ScatterAlive
  <2>5. \A x : x \in D <=> x \in Addresses(l) /\ (Full(l, x) \/ ~l.cleared)
    BY DEF PackedCells
  <2> HIDE DEF D, W
  <2>6. ASSUME NEW x PROVE x \in DOMAIN Stores(l, 1, p) <=> x \in D /\ W[x] = <<1, p>>
    BY <2>1, <2>2, <2>3, <2>5
  <2>7. ASSUME NEW x \in D, W[x] = <<1, p>> PROVE Stores(l, 1, p)[x] = Want(l, x)
    BY <2>1, <2>3, <2>6, <2>7
  <2> QED BY <2>4, <2>6, <2>7 DEF Does, D, W
<1>5. CASE ~(p[1] < TokenPrograms)
  <2> DEFINE e == p[1] - TokenPrograms
             rows == PaddingFrom(l, e) .. l.capacity - 1
  <2>1. e \in Nat /\ p[1] = TokenPrograms + e /\ ~l.cleared /\ e \in ExpertSet
    BY <1>1, <1>2, <1>5, LaunchSizes DEF ExpertSet
  <2>2. Stores(l, 1, p) = ZeroStores(l, e, rows, p[2]) /\ Loads(l, 1, p) = {}
    BY <1>3, <1>5, <2>1 DEF FusedStores, FusedLoads
  <2> HIDE DEF e
  <2>3. rows \subseteq Nat /\ CountOf(KeysOf(l), e) \in Nat /\ rows = CountOf(KeysOf(l), e) .. l.capacity - 1
    BY <1>1, <2>1, CountTypes DEF PaddingFrom, Count
  <2>4. ASSUME NEW x \in D
        PROVE  W[x] = <<1, p>> <=> ~Full(l, x) /\ ColAt(l, x) \div BlockGroups = p[2] /\ Owner(l, x) = e
    <3>1. x \in Addresses(l)
      BY DEF PackedCells
    <3>2. CASE Full(l, x)
      <4>1. W[x] = <<1, <<Token(Filler(l, x)) \div BlockRows, ColAt(l, x) \div BlockGroups>>>>
        BY <3>2 DEF FusedWriter
      <4>2. Token(Filler(l, x)) \div BlockRows # p[1]
        BY <1>0, <1>2, <1>5, <3>1, <3>2, FillerProgram
      <4> QED BY <1>2, <3>2, <4>1, <4>2
    <3>3. CASE ~Full(l, x)
      <4>1. W[x] = <<1, <<TokenPrograms + Owner(l, x), ColAt(l, x) \div BlockGroups>>>>
        BY <3>3 DEF FusedWriter
      <4>2. Owner(l, x) \in Nat
        BY <1>0, <1>1, <3>1, PackedRow, LaunchSizes DEF ExpertSet
      <4>3. TokenPrograms + Owner(l, x) = p[1] <=> Owner(l, x) = e
        BY <1>1, <1>2, <2>1, <4>2
      <4> QED BY <1>2, <3>3, <4>1, <4>3
    <3> QED BY <3>2, <3>3
  <2>5. \A x : /\ x \in DOMAIN ZeroStores(l, e, rows, p[2]) <=>
                    /\ x \in Addresses(l) /\ ColAt(l, x) \div BlockGroups = p[2]
                    /\ Owner(l, x) = e /\ Place(l, x) \in rows
               /\ x \in DOMAIN ZeroStores(l, e, rows, p[2]) => ZeroStores(l, e, rows, p[2])[x] = Zero
    <3> HIDE DEF rows
    <3> QED BY <1>0, <1>1, <1>2, <2>1, <2>3, ZeroCells
  <2>6. ASSUME NEW x \in Addresses(l), Owner(l, x) = e PROVE Place(l, x) \in rows <=> ~Full(l, x)
    <3>1. Place(l, x) \in 0 .. l.capacity - 1
      BY <1>0, <1>1, PackedRow
    <3>2. Full(l, x) <=> Place(l, x) < CountOf(KeysOf(l), e)
      BY <2>6 DEF Full
    <3> HIDE DEF rows
    <3> QED BY <1>1, <2>3, <3>1, <3>2
  <2>7. \A x : x \in D <=> x \in Addresses(l)
    BY <2>1 DEF PackedCells
  <2> HIDE DEF D, W, rows
  <2>8. ASSUME NEW x PROVE x \in DOMAIN Stores(l, 1, p) <=> x \in D /\ W[x] = <<1, p>>
    BY <2>2, <2>4, <2>5, <2>6, <2>7
  <2>9. ASSUME NEW x \in D, W[x] = <<1, p>> PROVE Stores(l, 1, p)[x] = Want(l, x)
    <3>1. x \in DOMAIN Stores(l, 1, p) /\ ~Full(l, x) /\ x \in Addresses(l)
      BY <2>4, <2>7, <2>8, <2>9
    <3>2. Want(l, x) = Zero
      BY <1>0, <1>1, <3>1, PackedRow
    <3> QED BY <2>2, <2>5, <3>1, <3>2
  <2> QED BY <2>2, <2>8, <2>9 DEF Does, D, W
<1> QED BY <1>4, <1>5

\* An element that no launch stores was cleared before.
LEMMA PackedRest ==
  ASSUME NEW l \in Launches, Runs(l), l.kernel \in Packers, NEW x \in Addresses(l) \ PackedCells(l)
  PROVE  Want(l, x) = Blank(l)
<1>1. ~Full(l, x) /\ l.cleared
  BY DEF PackedCells
<1>2. Want(l, x) = Zero
  BY <1>1, Room, PackedRow
<1> QED BY <1>1, <1>2 DEF Blank

LEMMA FusedSound ==
  ASSUME NEW l \in Launches, Runs(l), l.kernel = "fused"
  PROVE  Sound(l)
<1> DEFINE D == PackedCells(l)
           W == FusedWriter(l)
<1>1. l.kernel \notin Gemms /\ l.kernel \in Packers /\ Stages(l) = 1
  BY DEF Gemms, Packers, Stages
<1>2. \A s \in 1 .. Stages(l) : \A p \in LaunchGrid(l, s) : Does(l, s, p, D, W)
  BY <1>1, FusedDoes
<1>3. ASSUME NEW x \in D PROVE \E p \in LaunchGrid(l, 1) : W[x] = <<1, p>>
  <2>0. x \in Addresses(l) /\ l.capacity # 0 /\ l.cleared \in BOOLEAN
    BY <1>1, Room, LaunchAssumption DEF PackedCells
  <2>1. TokenPrograms \in Nat /\ ColAt(l, x) \div BlockGroups \in Interval(0, CeilDiv(l.groups, BlockGroups))
    BY <1>1, <2>0, ColumnBlock, LaunchSizes, CeilDivIs DEF TokenPrograms
  <2>2. LaunchGrid(l, 1) = Grid(TokenPrograms + (IF l.cleared THEN 0 ELSE Experts), l)
    BY <1>1, <2>0 DEF LaunchGrid
  <2>3. CASE Full(l, x)
    <3>1. Token(Filler(l, x)) \div BlockRows \in 0 .. TokenPrograms - 1
      BY <1>1, <2>0, <2>3, FillerProgram
    <3>2. Token(Filler(l, x)) \div BlockRows
            \in Interval(0, TokenPrograms + (IF l.cleared THEN 0 ELSE Experts))
      BY <2>0, <2>1, <3>1, LaunchSizes DEF Interval
    <3>3. W[x] = <<1, <<Token(Filler(l, x)) \div BlockRows, ColAt(l, x) \div BlockGroups>>>>
      BY <2>3 DEF FusedWriter
    <3> QED BY <2>1, <2>2, <3>2, <3>3 DEF Grid
  <2>4. CASE ~Full(l, x)
    <3>1. Owner(l, x) \in 0 .. Experts - 1
      BY <1>1, <2>0, PackedRow DEF ExpertSet
    <3>2. ~l.cleared
      BY <2>4 DEF PackedCells
    <3>3. TokenPrograms + Owner(l, x) \in Interval(0, TokenPrograms + (IF l.cleared THEN 0 ELSE Experts))
      BY <2>1, <3>1, <3>2, LaunchSizes DEF Interval
    <3>4. W[x] = <<1, <<TokenPrograms + Owner(l, x), ColAt(l, x) \div BlockGroups>>>>
      BY <2>4 DEF FusedWriter
    <3> QED BY <2>1, <2>2, <3>3, <3>4 DEF Grid
  <2> QED BY <2>3, <2>4
<1>4. D \subseteq Addresses(l) /\ \A x \in Addresses(l) \ D : Want(l, x) = Blank(l)
  BY <1>1, PackedRest DEF PackedCells
<1>5. 1 \in 1 .. Stages(l)
  BY <1>1
<1> HIDE DEF D, W
<1>6. Owned(l, D, W)
  BY <1>2, <1>3, <1>4, <1>5 DEF Owned
<1> QED BY <1>6, SoundIf

-----------------------------------------------------------------------------
(* quantize_pack_inputs.                                                   *)

\* The rows of a padding program.
LEMMA PaddingBlock ==
  ASSUME NEW c \in Nat, NEW b \in Nat, NEW limit \in Nat, NEW i \in 0 .. limit - 1
  PROVE  /\ Interval(c + b * PaddingRows, PaddingRows) \subseteq Nat
         /\ i \in Interval(c + b * PaddingRows, PaddingRows)
              <=> ~(i < c) /\ (i - c) \div PaddingRows = b
<1>1. PICK h : h = PaddingRows
  OBVIOUS
<1>2. h \in Nat \ {0} /\ b * h \in Nat
  BY <1>1, LaunchSizes, Multiply
<1>3. Interval(c + b * h, h) \subseteq Nat
  BY <1>2 DEF Interval
<1>4. CASE i < c
  BY <1>1, <1>2, <1>3, <1>4 DEF Interval
<1>5. CASE ~(i < c)
  <2>1. i - c \in 0 .. limit - 1
    BY <1>5
  <2>2. i - c \in Taken(b, h, limit) <=> (i - c) \div h = b
    BY ONLY <1>2, <2>1, limit \in Nat, b \in Nat, TakenIs
  <2>3. i - c \in Taken(b, h, limit) <=> i \in Interval(c + b * h, h)
    BY <1>2, <2>1 DEF Taken, Interval
  <2> QED BY <1>1, <1>3, <1>5, <2>2, <2>3
<1> QED BY <1>4, <1>5

QuantizeWriter(l) ==
  [x \in PackedCells(l) |->
     IF Full(l, x)
     THEN <<Stages(l), <<Token(Filler(l, x)) \div BlockRows, ColAt(l, x) \div BlockGroups>>>>
     ELSE <<1, <<Owner(l, x), (Place(l, x) - CountOf(KeysOf(l), Owner(l, x))) \div PaddingRows,
                 ColAt(l, x) \div BlockGroups>>>>]

LEMMA QuantizeIs ==
  ASSUME NEW l \in Launches, Runs(l), l.kernel = "quantize_pack"
  PROVE  /\ l.kernel \notin Gemms /\ l.kernel \in Packers /\ l.cleared \in BOOLEAN
         /\ l.groups \in Nat \ {0} /\ l.capacity \in Nat /\ KeysOf(l) \in Keys
         /\ Stages(l) = (IF l.cleared THEN 1 ELSE 2) /\ TokenPrograms \in Nat
         /\ CeilDiv(l.groups, BlockGroups) \in Nat /\ CeilDiv(l.capacity, PaddingRows) \in Nat
<1>1. l.kernel \notin Gemms /\ l.kernel \in Packers
  BY DEF Gemms, Packers
<1>2. l.cleared \in BOOLEAN /\ l.groups \in Nat \ {0} /\ l.capacity \in Nat
  BY <1>1, LaunchAssumption
<1>3. Stages(l) = IF l.cleared THEN 1 ELSE 2
  BY <1>2 DEF Stages
<1>4. TokenPrograms \in Nat
  BY LaunchSizes, CeilDivIs DEF TokenPrograms
<1>5. CeilDiv(l.groups, BlockGroups) \in Nat /\ CeilDiv(l.capacity, PaddingRows) \in Nat
  BY <1>2, LaunchSizes, CeilDivIs
<1> QED BY <1>1, <1>2, <1>3, <1>4, <1>5, KeysAre

LEMMA ClearDoes ==
  ASSUME NEW l \in Launches, Runs(l), l.kernel = "quantize_pack", ~l.cleared,
         NEW p \in LaunchGrid(l, 1)
  PROVE  Does(l, 1, p, PackedCells(l), QuantizeWriter(l))
<1> DEFINE D == PackedCells(l)
           W == QuantizeWriter(l)
           e == p[1]
           c == CountOf(KeysOf(l), e)
           rows == Interval(PaddingFrom(l, e) + p[2] * PaddingRows, PaddingRows)
<1>0. /\ l.kernel \notin Gemms /\ l.kernel \in Packers /\ Stages(l) = 2 /\ KeysOf(l) \in Keys
      /\ l.capacity \in Nat /\ CeilDiv(l.groups, BlockGroups) \in Nat /\ CeilDiv(l.capacity, PaddingRows) \in Nat
  BY QuantizeIs
<1>1. l.capacity # 0 /\ p \in PaddingGrid(l)
  <2>1. l.capacity # 0
    BY <1>0 DEF LaunchGrid
  <2>2. LaunchGrid(l, 1) = PaddingGrid(l)
    BY <1>0, <2>1 DEF LaunchGrid
  <2> QED BY <2>1, <2>2
<1>2. p = <<p[1], p[2], p[3]>> /\ e \in ExpertSet /\ p[2] \in Nat /\ p[3] \in Nat
  BY <1>0, <1>1, LaunchSizes DEF PaddingGrid, Interval, ExpertSet
<1>3. Stores(l, 1, p) = ZeroStores(l, e, rows, p[3]) /\ Loads(l, 1, p) = {}
  <2>1. Stores(l, 1, p) = PaddingStores(l, p) /\ Loads(l, 1, p) = {}
    BY <1>0 DEF Stores, Loads
  <2> QED BY <2>1 DEF PaddingStores
<1>4. c \in Nat /\ rows = Interval(c + p[2] * PaddingRows, PaddingRows)
  BY <1>0, CountTypes DEF PaddingFrom, Count
<1> HIDE DEF rows, c, e
<1>5. rows \subseteq Nat
  <2>1. 0 \in 0 .. l.capacity - 1
    BY <1>0, <1>1
  <2> QED BY <1>0, <1>2, <1>4, <2>1, PaddingBlock
<1>6. \A x : /\ x \in DOMAIN ZeroStores(l, e, rows, p[3]) <=>
                  /\ x \in Addresses(l) /\ ColAt(l, x) \div BlockGroups = p[3]
                  /\ Owner(l, x) = e /\ Place(l, x) \in rows
             /\ x \in DOMAIN ZeroStores(l, e, rows, p[3]) => ZeroStores(l, e, rows, p[3])[x] = Zero
  BY <1>0, <1>1, <1>2, <1>5, ZeroCells
<1>7. ASSUME NEW x \in Addresses(l), Owner(l, x) = e
      PROVE  /\ Full(l, x) <=> Place(l, x) < c
             /\ Place(l, x) \in rows <=> ~Full(l, x) /\ (Place(l, x) - c) \div PaddingRows = p[2]
  <2>1. Place(l, x) \in 0 .. l.capacity - 1
    BY <1>0, <1>1, PackedRow
  <2>2. Full(l, x) <=> Place(l, x) < c
    BY <1>7 DEF Full, c
  <2>3. Place(l, x) \in rows <=> ~(Place(l, x) < c) /\ (Place(l, x) - c) \div PaddingRows = p[2]
    BY <1>0, <1>2, <1>4, <2>1, PaddingBlock
  <2> QED BY <2>2, <2>3
<1>8. ASSUME NEW x \in D
      PROVE  W[x] = <<1, p>> <=> /\ ~Full(l, x) /\ Owner(l, x) = e /\ ColAt(l, x) \div BlockGroups = p[3]
                                 /\ (Place(l, x) - c) \div PaddingRows = p[2]
  <2>1. CASE Full(l, x)
    <3>1. W[x] = <<2, <<Token(Filler(l, x)) \div BlockRows, ColAt(l, x) \div BlockGroups>>>>
      BY <1>0, <2>1 DEF QuantizeWriter
    <3> QED BY <2>1, <3>1
  <2>2. CASE ~Full(l, x)
    <3>1. W[x] = <<1, <<Owner(l, x), (Place(l, x) - CountOf(KeysOf(l), Owner(l, x))) \div PaddingRows,
                        ColAt(l, x) \div BlockGroups>>>>
      BY <2>2 DEF QuantizeWriter
    <3> HIDE DEF W
    <3> QED BY <1>2, <2>2, <3>1 DEF c, e
  <2> QED BY <2>1, <2>2
<1>9. \A x : x \in D <=> x \in Addresses(l)
  BY DEF PackedCells
<1> HIDE DEF D, W
<1>10. ASSUME NEW x PROVE x \in DOMAIN Stores(l, 1, p) <=> x \in D /\ W[x] = <<1, p>>
  <2>1. CASE x \in Addresses(l) /\ Owner(l, x) = e
    <3>1. Place(l, x) \in rows <=> ~Full(l, x) /\ (Place(l, x) - c) \div PaddingRows = p[2]
      BY <1>7, <2>1
    <3> QED BY <1>3, <1>6, <1>8, <1>9, <2>1, <3>1
  <2>2. CASE ~(x \in Addresses(l) /\ Owner(l, x) = e)
    BY <1>3, <1>6, <1>8, <1>9, <2>2
  <2> QED BY <2>1, <2>2
<1>11. ASSUME NEW x \in D, W[x] = <<1, p>> PROVE Stores(l, 1, p)[x] = Want(l, x)
  <2>1. x \in DOMAIN Stores(l, 1, p) /\ ~Full(l, x) /\ x \in Addresses(l)
    BY <1>8, <1>9, <1>10, <1>11
  <2>2. Want(l, x) = Zero
    BY <1>0, <1>1, <2>1, PackedRow
  <2> QED BY <1>3, <1>6, <2>1, <2>2
<1> QED BY <1>3, <1>10, <1>11 DEF Does, D, W

LEMMA QuantizeDoes ==
  ASSUME NEW l \in Launches, Runs(l), l.kernel = "quantize_pack", NEW p \in LaunchGrid(l, Stages(l))
  PROVE  Does(l, Stages(l), p, PackedCells(l), QuantizeWriter(l))
<1> DEFINE D == PackedCells(l)
           W == QuantizeWriter(l)
           s == Stages(l)
<1>0. /\ l.kernel \notin Gemms /\ l.kernel \in Packers /\ KeysOf(l) \in Keys /\ TokenPrograms \in Nat
      /\ l.capacity \in Nat /\ CeilDiv(l.groups, BlockGroups) \in Nat
      /\ s \in Nat /\ (s = 1 => l.cleared)
  BY QuantizeIs
<1>1. l.capacity # 0 /\ p \in Grid(TokenPrograms, l)
  <2>1. l.capacity # 0
    BY <1>0 DEF LaunchGrid
  <2>2. ~(s < s)
    BY <1>0
  <2>3. LaunchGrid(l, s) = Grid(TokenPrograms, l)
    BY <1>0, <2>1, <2>2 DEF LaunchGrid
  <2> QED BY <2>1, <2>3
<1>2. p = <<p[1], p[2]>> /\ p[1] \in Nat /\ p[2] \in Nat
  BY <1>0, <1>1 DEF Grid, Interval
<1>3. Stores(l, s, p) = ScatterStores(l, p) /\ Loads(l, s, p) = ScatterLoads(l, p)
  <2>1. ~(s < s)
    BY <1>0
  <2> QED BY <1>0, <2>1 DEF Stores, Loads
<1>4. ASSUME NEW x \in D
      PROVE  W[x] = <<s, p>> <=> /\ Full(l, x) /\ ColAt(l, x) \div BlockGroups = p[2]
                                 /\ Token(Filler(l, x)) \div BlockRows = p[1]
  <2>1. CASE Full(l, x)
    <3>1. W[x] = <<s, <<Token(Filler(l, x)) \div BlockRows, ColAt(l, x) \div BlockGroups>>>>
      BY <2>1 DEF QuantizeWriter
    <3> HIDE DEF W, s
    <3> QED BY <1>2, <2>1, <3>1
  <2>2. CASE ~Full(l, x)
    <3>1. W[x][1] = 1
      BY <2>2 DEF QuantizeWriter
    <3>2. s # 1
      BY <1>0, <2>2 DEF PackedCells
    <3> HIDE DEF W, s
    <3> QED BY <2>2, <3>1, <3>2
  <2> QED BY <2>1, <2>2
<1>5. \A x : /\ x \in DOMAIN ScatterStores(l, p) <=>
                  /\ x \in Addresses(l) /\ ColAt(l, x) \div BlockGroups = p[2]
                  /\ Full(l, x) /\ Token(Filler(l, x)) \div BlockRows = p[1]
             /\ x \in DOMAIN ScatterStores(l, p) => ScatterStores(l, p)[x] = Want(l, x)
  BY <1>0, <1>1, <1>2, ScatterCells
<1>6. \A row \in Loads(l, s, p) : Alive(l, row)
  BY <1>0, <1>1, <1>2, <1>3, ScatterAlive
<1>7. \A x : x \in D <=> x \in Addresses(l) /\ (Full(l, x) \/ ~l.cleared)
  BY DEF PackedCells
<1> HIDE DEF D, W, s
<1>8. ASSUME NEW x PROVE x \in DOMAIN Stores(l, s, p) <=> x \in D /\ W[x] = <<s, p>>
  BY <1>3, <1>4, <1>5, <1>7
<1>9. ASSUME NEW x \in D, W[x] = <<s, p>> PROVE Stores(l, s, p)[x] = Want(l, x)
  BY <1>3, <1>5, <1>8, <1>9
<1> QED BY <1>6, <1>8, <1>9 DEF Does, D, W, s

LEMMA QuantizeSound ==
  ASSUME NEW l \in Launches, Runs(l), l.kernel = "quantize_pack"
  PROVE  Sound(l)
<1> DEFINE D == PackedCells(l)
           W == QuantizeWriter(l)
<1>1. /\ l.kernel \notin Gemms /\ l.kernel \in Packers /\ l.cleared \in BOOLEAN
      /\ l.groups \in Nat \ {0} /\ l.capacity \in Nat /\ KeysOf(l) \in Keys
      /\ Stages(l) = (IF l.cleared THEN 1 ELSE 2) /\ TokenPrograms \in Nat
  BY QuantizeIs
<1>2. ASSUME NEW s \in 1 .. Stages(l), NEW p \in LaunchGrid(l, s) PROVE Does(l, s, p, D, W)
  <2>1. CASE s = Stages(l)
    BY <2>1, QuantizeDoes
  <2>2. CASE s # Stages(l)
    <3>1. s = 1 /\ ~l.cleared
      BY <1>1, <2>2
    <3> QED BY <3>1, ClearDoes
  <2> QED BY <2>1, <2>2
<1>3. ASSUME NEW x \in D PROVE \E s \in 1 .. Stages(l) : \E p \in LaunchGrid(l, s) : W[x] = <<s, p>>
  <2>0. x \in Addresses(l) /\ l.capacity # 0
    BY <1>1, Room DEF PackedCells
  <2>1. ColAt(l, x) \div BlockGroups \in Interval(0, CeilDiv(l.groups, BlockGroups))
    BY <1>1, <2>0, ColumnBlock
  <2>2. CASE Full(l, x)
    <3>1. Token(Filler(l, x)) \div BlockRows \in Interval(0, TokenPrograms)
      BY <1>1, <2>0, <2>2, FillerProgram DEF Interval
    <3>2. LaunchGrid(l, Stages(l)) = Grid(TokenPrograms, l)
      <4>1. ~(Stages(l) < Stages(l)) /\ Stages(l) \in 1 .. Stages(l)
        BY <1>1
      <4> QED BY <1>1, <2>0, <4>1 DEF LaunchGrid
    <3>3. W[x] = <<Stages(l), <<Token(Filler(l, x)) \div BlockRows, ColAt(l, x) \div BlockGroups>>>>
      BY <2>2 DEF QuantizeWriter
    <3>4. Stages(l) \in 1 .. Stages(l)
      BY <1>1
    <3> HIDE DEF W
    <3>5. <<Token(Filler(l, x)) \div BlockRows, ColAt(l, x) \div BlockGroups>> \in LaunchGrid(l, Stages(l))
      BY <2>1, <3>1, <3>2 DEF Grid
    <3> QED BY <3>3, <3>4, <3>5
  <2>3. CASE ~Full(l, x)
    <3>1. ~l.cleared /\ Stages(l) = 2
      BY <1>1, <2>3 DEF PackedCells
    <3>2. PICK e, i, c : e = Owner(l, x) /\ i = Place(l, x) /\ c = CountOf(KeysOf(l), e)
      OBVIOUS
    <3>3. e \in ExpertSet /\ i \in 0 .. l.capacity - 1 /\ ~(i < c) /\ c \in Nat
      BY <1>1, <2>0, <2>3, <3>2, PackedRow, CountTypes DEF Full
    <3>4. (i - c) \div PaddingRows \in Interval(0, CeilDiv(l.capacity, PaddingRows))
      <4>1. i - c \in 0 .. l.capacity - 1
        BY <1>1, <3>3
      <4> QED BY <1>1, <4>1, LaunchSizes, RowBlock
    <3>5. LaunchGrid(l, 1) = PaddingGrid(l)
      BY <1>1, <2>0, <3>1 DEF LaunchGrid
    <3>6. <<e, (i - c) \div PaddingRows, ColAt(l, x) \div BlockGroups>> \in LaunchGrid(l, 1)
      <4>1. e \in Interval(0, Experts)
        BY <3>3, LaunchSizes DEF ExpertSet, Interval
      <4> QED BY <2>1, <3>4, <3>5, <4>1 DEF PaddingGrid
    <3>7. W[x] = <<1, <<e, (i - c) \div PaddingRows, ColAt(l, x) \div BlockGroups>>>>
      BY <2>3, <3>2 DEF QuantizeWriter
    <3>8. 1 \in 1 .. Stages(l)
      BY <3>1
    <3> HIDE DEF W
    <3> QED BY <3>6, <3>7, <3>8
  <2> QED BY <2>2, <2>3
<1>4. D \subseteq Addresses(l) /\ \A x \in Addresses(l) \ D : Want(l, x) = Blank(l)
  BY <1>1, PackedRest DEF PackedCells
<1> HIDE DEF D, W
<1>5. Owned(l, D, W)
  BY <1>2, <1>3, <1>4 DEF Owned
<1> QED BY <1>5, SoundIf

-----------------------------------------------------------------------------
(* The activation.                                                         *)

LEMMA OneStage ==
  ASSUME NEW l, l.kernel # "quantize_pack"
  PROVE  Stages(l) = 1 /\ 1 \in 1 .. Stages(l) /\ \A s \in 1 .. Stages(l) : s = 1
<1>1. Stages(l) = 1
  BY DEF Stages
<1> QED BY <1>1

ActivateWriter(l) == [x \in Addresses(l) |-> <<1, <<RowAt(l, x) \div BlockRows, ColAt(l, x)>>>>]

LEMMA ActivateIs ==
  ASSUME NEW l \in Launches, Runs(l), l.kernel = "activate"
  PROVE  /\ l.kernel \notin Gemms /\ l.kernel \notin Packers /\ l.groups \in Nat \ {0} /\ l.capacity \in Nat
         /\ KeysOf(l) \in Keys /\ Height(l) = ActivationRows(l) /\ Height(l) \in Nat
         /\ Breadth(l) = l.groups /\ LaunchGrid(l, 1) = ActivateGrid(l)
         /\ Start(l, Experts) = Cardinality(Routed(KeysOf(l)))
         /\ CeilDiv(ActivationRows(l), BlockRows) \in Nat
<1>1. l.kernel \notin Gemms /\ l.kernel \notin Packers
  BY DEF Gemms, Packers
<1>2. l.groups \in Nat \ {0} /\ l.capacity \in Nat /\ Breadth(l) = l.groups /\ KeysOf(l) \in Keys
  BY <1>1, MoeIs, KeysAre
<1>3. Height(l) = ActivationRows(l) /\ Height(l) \in Nat
  BY <1>1, Extent DEF Height
<1>4. LaunchGrid(l, 1) = ActivateGrid(l)
  BY <1>1 DEF LaunchGrid
<1>5. Start(l, Experts) = Cardinality(Routed(KeysOf(l)))
  BY <1>2, RoutedPrefix DEF Start
<1> QED BY <1>1, <1>2, <1>3, <1>4, <1>5, LaunchSizes, CeilDivIs

LEMMA ActivateDoes ==
  ASSUME NEW l \in Launches, Runs(l), l.kernel = "activate", NEW p \in LaunchGrid(l, 1)
  PROVE  Does(l, 1, p, Addresses(l), ActivateWriter(l))
<1> DEFINE R == Taken(p[1], BlockRows, ActivationRows(l))
           C == {p[2]}
           At(r, c) == Address(l, r, c)
           V(r, c) == IF LiveRow(l, r) THEN Value("hidden", r, GateUp(l, c)) ELSE Zero
           st == ActivateStores(l, p)
<1>0. /\ l.kernel \notin Gemms /\ l.kernel \notin Packers /\ l.groups \in Nat \ {0} /\ l.capacity \in Nat
      /\ KeysOf(l) \in Keys /\ Height(l) = ActivationRows(l) /\ Height(l) \in Nat
      /\ Breadth(l) = l.groups /\ LaunchGrid(l, 1) = ActivateGrid(l)
      /\ Start(l, Experts) = Cardinality(Routed(KeysOf(l)))
      /\ CeilDiv(ActivationRows(l), BlockRows) \in Nat
  BY ActivateIs
<1>1. p = <<p[1], p[2]>> /\ p[1] \in Nat /\ p[2] \in 0 .. Breadth(l) - 1
  BY <1>0 DEF ActivateGrid, Interval, GroupSet
<1>2. Stores(l, 1, p) = st /\ Loads(l, 1, p) = ActivateLoads(l, p)
  BY <1>0 DEF Stores, Loads
<1>3. /\ R \subseteq 0 .. Height(l) - 1
      /\ \A r \in 0 .. Height(l) - 1 : r \in R <=> r \div BlockRows = p[1]
  BY <1>0, <1>1, LaunchSizes, TakenIs
<1>4. ASSUME NEW r \in R, NEW c \in C
      PROVE  /\ At(r, c) \in Addresses(l) /\ RowAt(l, At(r, c)) = r /\ ColAt(l, At(r, c)) = c
             /\ At(r, c) \div l.groups = r /\ At(r, c) % l.groups = c
  <2>1. r \in 0 .. Height(l) - 1 /\ c \in 0 .. Breadth(l) - 1
    BY <1>1, <1>3
  <2>2. At(r, c) \in Addresses(l) /\ RowAt(l, At(r, c)) = r /\ ColAt(l, At(r, c)) = c
    BY <1>0, <2>1, CellIs DEF Address
  <2> HIDE DEF At
  <2> QED BY <1>0, <2>2 DEF RowAt, ColAt
<1>5. DOMAIN st = {At(u[1], u[2]) : u \in R \X C}
  BY DEF ActivateStores, Stored
<1>6. ASSUME NEW u \in R \X C PROVE st[At(u[1], u[2])] = V(u[1], u[2])
  <2>1. \A v \in R \X C : v[1] \in R /\ v[2] \in C /\ v = <<v[1], v[2]>>
    OBVIOUS
  <2>2. \A v \in R \X C : At(v[1], v[2]) = At(u[1], u[2]) => v = u
    <3> HIDE DEF R, C, At
    <3> QED BY <1>4, <2>1
  <2> QED BY <2>2 DEF ActivateStores, Stored
<1>7. ASSUME NEW u \in R \X C PROVE u[1] \in R /\ u[2] \in C
  OBVIOUS
<1>8. ASSUME NEW r \in R, NEW c \in C PROVE V(r, c) = Want(l, At(r, c))
  <2>1. Want(l, At(r, c)) = Expected(l, At(r, c)) /\ At(r, c) \div l.groups = r /\ At(r, c) % l.groups = c
    BY <1>0, <1>4 DEF Want
  <2> HIDE DEF At
  <2>2. Expected(l, At(r, c)) = V(r, c)
    BY <1>0, <2>1 DEF Expected, LiveRow, Count, GateUp
  <2> QED BY <2>1, <2>2
<1> HIDE DEF V
<1>9. ASSUME NEW x \in Addresses(l), RowAt(l, x) \div BlockRows = p[1], ColAt(l, x) = p[2]
      PROVE  x \in DOMAIN st
  <2>1. RowAt(l, x) \in 0 .. Height(l) - 1 /\ x = RowAt(l, x) * Breadth(l) + ColAt(l, x)
    BY CellOf
  <2>2. RowAt(l, x) \in R /\ ColAt(l, x) \in C
    BY <1>3, <1>9, <2>1
  <2>3. At(RowAt(l, x), ColAt(l, x)) = x
    <3>1. Wrap(x) = x
      BY <1>1, <1>9, <2>1, CellIs
    <3> QED BY <1>0, <2>1, <3>1 DEF Address
  <2>4. PICK u : u = <<RowAt(l, x), ColAt(l, x)>>
    OBVIOUS
  <2>5. u \in R \X C /\ u[1] = RowAt(l, x) /\ u[2] = ColAt(l, x)
    BY <2>2, <2>4
  <2> HIDE DEF R, C, At, st
  <2> QED BY <1>5, <2>3, <2>5
<1>10. ASSUME NEW x \in DOMAIN st
       PROVE  x \in Addresses(l) /\ RowAt(l, x) \div BlockRows = p[1] /\ ColAt(l, x) = p[2] /\ st[x] = Want(l, x)
  <2>1. PICK u \in R \X C : x = At(u[1], u[2])
    <3> HIDE DEF R, C, At, st
    <3> QED BY <1>5
  <2>2. u[2] = p[2]
    OBVIOUS
  <2> HIDE DEF R, C, At, st
  <2> QED BY <1>3, <1>4, <1>6, <1>7, <1>8, <2>1, <2>2
<1>11. ASSUME NEW x PROVE x \in DOMAIN Stores(l, 1, p) <=> x \in Addresses(l) /\ ActivateWriter(l)[x] = <<1, p>>
  <2>1. x \in Addresses(l) => (ActivateWriter(l)[x] = <<1, p>> <=>
          RowAt(l, x) \div BlockRows = p[1] /\ ColAt(l, x) = p[2])
    BY <1>1 DEF ActivateWriter
  <2> HIDE DEF st
  <2> QED BY <1>2, <1>9, <1>10, <2>1
<1>12. ASSUME NEW x \in Addresses(l), ActivateWriter(l)[x] = <<1, p>> PROVE Stores(l, 1, p)[x] = Want(l, x)
  <2> HIDE DEF st
  <2> QED BY <1>2, <1>10, <1>11, <1>12
<1>13. ASSUME NEW row \in Loads(l, 1, p) PROVE Alive(l, row)
  <2>1. LiveRow(l, row)
    BY <1>2 DEF ActivateLoads
  <2> QED BY <1>0, <2>1 DEF Alive
<1> QED BY <1>11, <1>12, <1>13 DEF Does

LEMMA ActivateSound ==
  ASSUME NEW l \in Launches, Runs(l), l.kernel = "activate"
  PROVE  Sound(l)
<1> DEFINE W == ActivateWriter(l)
<1>1. ASSUME NEW x \in Addresses(l) PROVE \E p \in LaunchGrid(l, 1) : W[x] = <<1, p>>
  <2>1. RowAt(l, x) \in 0 .. Height(l) - 1 /\ ColAt(l, x) \in 0 .. l.groups - 1
        /\ Height(l) = ActivationRows(l) /\ Height(l) \in Nat /\ LaunchGrid(l, 1) = ActivateGrid(l)
        /\ l.groups \in Nat
    BY ActivateIs, CellOf
  <2>2. RowAt(l, x) \div BlockRows \in Interval(0, CeilDiv(ActivationRows(l), BlockRows))
    BY <2>1, LaunchSizes, RowBlock
  <2>3. <<RowAt(l, x) \div BlockRows, ColAt(l, x)>> \in LaunchGrid(l, 1)
    BY <2>1, <2>2 DEF ActivateGrid, GroupSet, Interval
  <2> QED BY <2>3 DEF ActivateWriter
<1>2. \A p \in LaunchGrid(l, 1) : Does(l, 1, p, Addresses(l), W)
  BY ActivateDoes
<1> HIDE DEF W
<1>3. Owned(l, Addresses(l), W)
  BY <1>1, <1>2, OneStage DEF Owned
<1> QED BY <1>3, SoundIf

-----------------------------------------------------------------------------
(* The combination.                                                        *)

\* An assignment's place among its expert's is the number of those before it.
Earlier(key, a) == {b \in 0 .. a - 1 : key[b] = key[a]}

LEMMA LocalIs ==
  ASSUME NEW key \in Keys, NEW a \in Assignments
  PROVE  /\ Rank(key, a) = StartOf(key, key[a]) + Cardinality(Earlier(key, a))
         /\ Cardinality(Earlier(key, a)) \in Nat /\ StartOf(key, key[a]) \in Nat
         /\ Cardinality(Earlier(key, a)) < CountOf(key, key[a])
<1>1. \A b \in 0 .. a - 1 : b \in Assignments
  BY LaunchSizes DEF Assignments
<1>2. \A b \in Assignments : b < a => b \in 0 .. a - 1
  BY LaunchSizes DEF Assignments
<1>3. Before(key, a) = Under(key, key[a]) \cup Earlier(key, a) /\ Under(key, key[a]) \cap Earlier(key, a) = {}
  BY <1>1, <1>2, KeyOf DEF Before, Precedes, Under, Earlier
<1>4. Earlier(key, a) \subseteq Assignments /\ Under(key, key[a]) \subseteq Assignments
  BY <1>1 DEF Earlier, Under
<1>5. IsFiniteSet(Earlier(key, a)) /\ IsFiniteSet(Under(key, key[a]))
      /\ Cardinality(Earlier(key, a)) \in Nat /\ Cardinality(Under(key, key[a])) \in Nat
  BY <1>4, PartFinite
<1>6. Cardinality(Before(key, a)) = Cardinality(Under(key, key[a])) + Cardinality(Earlier(key, a)) - 0
  BY <1>3, <1>5, FS_Union, FS_EmptySet
<1>7. StartOf(key, key[a]) = Cardinality(Under(key, key[a])) /\ Rank(key, a) = Cardinality(Before(key, a))
  BY CountTypes, RankBefore
<1>8. Rank(key, a) = StartOf(key, key[a]) + Cardinality(Earlier(key, a))
  BY <1>5, <1>6, <1>7
<1>9. Rank(key, a) < StartOf(key, key[a]) + CountOf(key, key[a]) /\ CountOf(key, key[a]) \in Nat
  BY RankInRun, CountTypes
<1> QED BY <1>5, <1>7, <1>8, <1>9

\* The assignments of a token that are routed are the terms of its sum.
LEMMA TermIs ==
  ASSUME NEW l, NEW a \in Assignments
  PROVE  /\ Slot(l, a) >= 0 <=> KeysOf(l)[a] < Experts
         /\ KeysOf(l)[a] < Experts => ExpertRow(l, a) = ExpectedRow(l, a)
<1> DEFINE key == KeysOf(l)
<1>1. key \in Keys /\ key[a] \in 0 .. Experts
  BY KeysAre, KeyOf
<1>2. Rank(key, a) \in Nat
  BY <1>1, RankType, LaunchSizes DEF Assignments
<1>3. /\ Rank(key, a) = StartOf(key, key[a]) + Cardinality(Earlier(key, a))
      /\ Cardinality(Earlier(key, a)) \in Nat /\ StartOf(key, key[a]) \in Nat
  BY <1>1, LocalIs
<1>4. CASE key[a] < Experts
  <2>1. Slot(l, a) = Rank(key, a)
    BY <1>4 DEF Slot
  <2>2. LocalRow(l, a) = Cardinality(Earlier(key, a))
    BY <1>3, <2>1 DEF LocalRow, Start
  <2>3. ExpertRow(l, a) = ExpectedRow(l, a)
    BY <2>1, <2>2 DEF ExpertRow, ExpectedRow, Earlier
  <2> QED BY <1>2, <1>4, <2>1, <2>3
<1>5. CASE ~(key[a] < Experts)
  BY <1>5 DEF Slot
<1> QED BY <1>4, <1>5

\* The sum over the ranks of a token is the sum over its assignments.
LEMMA TermsAre ==
  ASSUME NEW l, NEW t \in 0 .. Tokens - 1
  PROVE  /\ Terms(l, t) = {a \in Assignments : Token(a) = t /\ KeysOf(l)[a] < Experts}
         /\ {<<a % TopK, ExpertRow(l, a)>> : a \in Terms(l, t)}
              = {<<rank, ExpectedRow(l, t * TopK + rank)>> :
                   rank \in {r \in 0 .. TopK - 1 : KeysOf(l)[t * TopK + r] < Experts}}
<1>0. Tokens \in Nat /\ TopK \in Nat \ {0} /\ t \in Nat
  BY LaunchSizes
<1>1. ASSUME NEW r \in 0 .. TopK - 1
      PROVE  /\ t * TopK + r \in Assignments /\ Token(t * TopK + r) = t /\ (t * TopK + r) % TopK = r
             /\ t * TopK + r \in Interval(t * TopK, TopK)
  <2>1. /\ t * TopK + r \in Nat /\ t * TopK + r < Tokens * TopK /\ Tokens * TopK \in Nat
        /\ (t * TopK + r) \div TopK = t /\ (t * TopK + r) % TopK = r
    BY ONLY <1>0, <1>1, t \in 0 .. Tokens - 1, r \in 0 .. TopK - 1, Within
  <2>2. t * TopK \in Nat
    BY ONLY <1>0, Multiply
  <2>3. t * TopK + r \in Interval(t * TopK, TopK)
    BY ONLY <1>0, <2>2, r \in 0 .. TopK - 1 DEF Interval
  <2> QED BY <2>1, <2>3 DEF Assignments, Slots, Token
<1>2. ASSUME NEW a \in Interval(t * TopK, TopK)
      PROVE  a \in Assignments /\ Token(a) = t /\ a % TopK \in 0 .. TopK - 1 /\ t * TopK + (a % TopK) = a
  <2>1. t * TopK \in Nat
    BY ONLY <1>0, Multiply
  <2>2. PICK w : w = t * TopK
    OBVIOUS
  <2>3. a - w \in 0 .. TopK - 1 /\ a = w + (a - w)
    BY ONLY <1>0, <2>1, <2>2, a \in Interval(t * TopK, TopK) DEF Interval
  <2>4. PICK r \in 0 .. TopK - 1 : a = t * TopK + r
    BY <2>2, <2>3
  <2> QED BY <1>1, <2>4
<1>3. ASSUME NEW a \in Assignments, Token(a) = t PROVE a \in Interval(t * TopK, TopK)
  BY <1>1, <1>3, TokenIs
<1>4. Terms(l, t) = {a \in Assignments : Token(a) = t /\ KeysOf(l)[a] < Experts}
  <2>1. ASSUME NEW a \in Terms(l, t) PROVE a \in Assignments /\ Token(a) = t /\ KeysOf(l)[a] < Experts
    BY <1>2, TermIs DEF Terms
  <2>2. ASSUME NEW a \in Assignments, Token(a) = t, KeysOf(l)[a] < Experts PROVE a \in Terms(l, t)
    BY <1>3, <2>2, TermIs DEF Terms
  <2> QED BY <2>1, <2>2
<1> DEFINE Here == {r \in 0 .. TopK - 1 : KeysOf(l)[t * TopK + r] < Experts}
           S == {<<a % TopK, ExpertRow(l, a)>> : a \in Terms(l, t)}
           T == {<<rank, ExpectedRow(l, t * TopK + rank)>> : rank \in Here}
<1>5. ASSUME NEW a \in Terms(l, t) PROVE <<a % TopK, ExpertRow(l, a)>> \in T
  <2>1. a \in Assignments /\ Token(a) = t /\ KeysOf(l)[a] < Experts /\ a \in Interval(t * TopK, TopK)
    BY <1>3, <1>4
  <2>2. a % TopK \in Here /\ t * TopK + (a % TopK) = a
    BY <1>2, <2>1
  <2>3. ExpertRow(l, a) = ExpectedRow(l, t * TopK + (a % TopK))
    BY <2>1, <2>2, TermIs
  <2> HIDE DEF Here
  <2> QED BY <2>2, <2>3
<1>6. ASSUME NEW rank \in Here PROVE <<rank, ExpectedRow(l, t * TopK + rank)>> \in S
  <2>1. PICK a : a = t * TopK + rank
    OBVIOUS
  <2>2. a \in Assignments /\ Token(a) = t /\ a % TopK = rank /\ KeysOf(l)[a] < Experts
    BY <1>1, <2>1
  <2>3. a \in Terms(l, t)
    BY <1>4, <2>2
  <2>4. ExpertRow(l, a) = ExpectedRow(l, a)
    BY <2>2, TermIs
  <2> QED BY <2>1, <2>2, <2>3, <2>4
<1>7. S = T
  <2>1. S \subseteq T
    <3> HIDE DEF T
    <3> QED BY <1>5
  <2>2. T \subseteq S
    <3> HIDE DEF S, Here
    <3> QED BY <1>6
  <2> QED BY <2>1, <2>2
<1> QED BY <1>4, <1>7

CombineWriter(l) == [x \in Addresses(l) |-> <<1, <<RowAt(l, x), ColAt(l, x) \div BlockGroups>>>>]

LEMMA CombineIs ==
  ASSUME NEW l \in Launches, Runs(l), l.kernel = "combine"
  PROVE  /\ l.kernel \notin Gemms /\ l.kernel \notin Packers /\ l.groups \in Nat \ {0} /\ l.capacity \in Nat
         /\ KeysOf(l) \in Keys /\ Height(l) = Tokens /\ LaunchGrid(l, 1) = Grid(Tokens, l)
         /\ CeilDiv(l.groups, BlockGroups) \in Nat
<1>1. l.kernel \notin Gemms /\ l.kernel \notin Packers
  BY DEF Gemms, Packers
<1>2. l.groups \in Nat \ {0} /\ l.capacity \in Nat /\ KeysOf(l) \in Keys
  BY <1>1, MoeIs, KeysAre
<1>3. Height(l) = Tokens
  BY <1>1 DEF Height
<1>4. LaunchGrid(l, 1) = Grid(Tokens, l)
  BY <1>1 DEF LaunchGrid
<1> QED BY <1>1, <1>2, <1>3, <1>4, LaunchSizes, CeilDivIs

\* A row of a routed assignment is a live one: the capacity holds every expert.
LEMMA TermAlive ==
  ASSUME NEW l \in Launches, Runs(l), l.kernel = "combine", NEW a \in Routed(KeysOf(l))
  PROVE  LiveRow(l, ExpectedRow(l, a))
<1> DEFINE key == KeysOf(l)
<1>1. key \in Keys /\ a \in Assignments /\ key[a] < Experts /\ l.capacity \in Nat
  BY CombineIs DEF Routed
<1>2. CASE l.capacity = 0
  <2>1. Rank(key, a) < StartOf(key, Experts)
    BY <1>1, RoutedPrefix
  <2> QED BY <1>2, <2>1 DEF ExpectedRow, LiveRow, Start
<1>3. CASE l.capacity # 0
  <2>1. key[a] \in 0 .. Experts - 1 /\ key[a] \in ExpertSet
    BY <1>1, KeyOf, LaunchSizes DEF ExpertSet
  <2>2. PICK w, e, i : w = l.capacity /\ e = key[a] /\ i = Cardinality(Earlier(key, a))
    OBVIOUS
  <2>3. i \in Nat /\ i < CountOf(key, e) /\ CountOf(key, e) \in Nat
    BY <1>1, <2>2, LocalIs, CountTypes
  <2>4. CountOf(key, e) <= w
    BY <1>3, <2>1, <2>2, CombineIs, LaunchAssumption DEF KeysOf
  <2>5. w \in Nat \ {0} /\ Experts \in Nat /\ e \in 0 .. Experts - 1 /\ i \in 0 .. w - 1
    BY <1>1, <1>3, <2>1, <2>2, <2>3, <2>4, LaunchSizes
  <2>6. (e * w + i) \div w = e /\ (e * w + i) % w = i
    BY ONLY <2>5, Within
  <2>7. ExpectedRow(l, a) = e * w + i
    BY <1>3, <2>2 DEF ExpectedRow, Earlier
  <2>8. LiveRow(l, e * w + i) <=> i < CountOf(key, e)
    BY <1>3, <2>2, <2>6 DEF LiveRow, Count
  <2> HIDE DEF key
  <2>9. LiveRow(l, e * w + i)
    BY <2>3, <2>8
  <2> QED BY <2>7, <2>9 DEF key
<1> QED BY <1>2, <1>3

LEMMA CombineDoes ==
  ASSUME NEW l \in Launches, Runs(l), l.kernel = "combine", NEW p \in LaunchGrid(l, 1)
  PROVE  Does(l, 1, p, Addresses(l), CombineWriter(l))
<1> DEFINE R == {p[1]}
           C == Columns(l, p[2])
           row == [r \in R |-> r]
           st == CombineStores(l, p)
           Sum(t) == {<<a % TopK, ExpertRow(l, a)>> : a \in Terms(l, t)}
<1>0. /\ l.kernel \notin Gemms /\ l.kernel \notin Packers /\ l.groups \in Nat \ {0} /\ l.capacity \in Nat
      /\ KeysOf(l) \in Keys /\ Height(l) = Tokens /\ LaunchGrid(l, 1) = Grid(Tokens, l)
      /\ CeilDiv(l.groups, BlockGroups) \in Nat
  BY CombineIs
<1>1. p = <<p[1], p[2]>> /\ p[1] \in 0 .. Tokens - 1 /\ p[2] \in Nat
  BY <1>0, LaunchSizes DEF Grid, Interval
<1>2. Stores(l, 1, p) = st /\ Loads(l, 1, p) = CombineLoads(l, p)
  BY <1>0 DEF Stores, Loads
<1>3. RowsApart(l, R, row)
  BY <1>0, <1>1 DEF RowsApart
<1>4. DOMAIN st = {Address(l, u[1], u[2]) : u \in R \X C}
  BY DEF CombineStores, Stored
<1>5. \A u \in R \X C : u[1] = p[1] /\ u[2] \in C /\ row[u[1]] = u[1]
  OBVIOUS
<1>6. CellsAt(l, st, R, row, p[2])
  <2> HIDE DEF st, R, row
  <2> QED BY <1>4, <1>5 DEF CellsAt
<1>7. ASSUME NEW u \in R \X C PROVE st[Address(l, u[1], u[2])] = Value("sum", Sum(u[1]), u[2])
  <2>1. \A v \in R \X C : Address(l, v[1], v[2]) = Address(l, u[1], u[2]) => v = u
    <3> HIDE DEF R, row, C
    <3> QED BY <1>0, <1>1, <1>3, <1>5, CellsApart DEF C
  <2> QED BY <2>1 DEF CombineStores, Stored
<1>8. ASSUME NEW x
      PROVE  x \in DOMAIN st <=>
               x \in Addresses(l) /\ ColAt(l, x) \div BlockGroups = p[2] /\ RowAt(l, x) = p[1]
  <2>1. (\E r \in R : row[r] = RowAt(l, x)) <=> RowAt(l, x) = p[1]
    OBVIOUS
  <2>2. x \in DOMAIN st <=>
          x \in Addresses(l) /\ ColAt(l, x) \div BlockGroups = p[2] /\ \E r \in R : row[r] = RowAt(l, x)
    <3> HIDE DEF R, row, st
    <3> QED BY <1>0, <1>1, <1>3, <1>6, CellStores
  <2> HIDE DEF R, row, st
  <2> QED BY <2>1, <2>2
<1>9. ASSUME NEW x \in DOMAIN st PROVE st[x] = Want(l, x)
  <2>1. PICK u \in R \X C : x = Address(l, u[1], u[2])
    <3> HIDE DEF R, C, st
    <3> QED BY <1>4
  <2>2. u[1] = p[1] /\ u[2] \in C
    OBVIOUS
  <2>3. x \in Addresses(l) /\ RowAt(l, x) = p[1] /\ ColAt(l, x) = u[2]
    BY <1>0, <1>1, <2>1, <2>2, BlockCells
  <2>4. st[x] = Value("sum", Sum(p[1]), ColAt(l, x))
    <3> HIDE DEF st, Sum, R, C
    <3> QED BY <1>7, <2>1, <2>2, <2>3
  <2>5. PICK t : t = p[1]
    OBVIOUS
  <2>6. t \in 0 .. Tokens - 1 /\ x \div l.groups = t /\ x % l.groups = ColAt(l, x)
    BY <1>0, <1>1, <2>3, <2>5, MoeIs
  <2>7. Expected(l, x) =
          Value("sum", {<<rank, ExpectedRow(l, t * TopK + rank)>> :
                          rank \in {r \in 0 .. TopK - 1 : KeysOf(l)[t * TopK + r] < Experts}}, ColAt(l, x))
    BY <1>0, <2>6 DEF Expected
  <2>8. Sum(t) = {<<rank, ExpectedRow(l, t * TopK + rank)>> :
                    rank \in {r \in 0 .. TopK - 1 : KeysOf(l)[t * TopK + r] < Experts}}
    BY <2>6, TermsAre
  <2>9. Want(l, x) = Expected(l, x)
    BY <1>0 DEF Want
  <2>10. Expected(l, x) = Value("sum", Sum(t), ColAt(l, x))
    BY <2>7, <2>8
  <2> HIDE DEF st, Sum
  <2> QED BY <2>4, <2>5, <2>9, <2>10
<1>10. ASSUME NEW x PROVE x \in DOMAIN Stores(l, 1, p) <=> x \in Addresses(l) /\ CombineWriter(l)[x] = <<1, p>>
  <2>1. x \in Addresses(l) => (CombineWriter(l)[x] = <<1, p>> <=>
          RowAt(l, x) = p[1] /\ ColAt(l, x) \div BlockGroups = p[2])
    BY <1>1 DEF CombineWriter
  <2> HIDE DEF st
  <2> QED BY <1>2, <1>8, <2>1
<1>11. ASSUME NEW x \in Addresses(l), CombineWriter(l)[x] = <<1, p>> PROVE Stores(l, 1, p)[x] = Want(l, x)
  <2> HIDE DEF st
  <2> QED BY <1>2, <1>9, <1>10, <1>11
<1>12. ASSUME NEW r \in Loads(l, 1, p) PROVE Alive(l, r)
  <2>1. PICK a \in Terms(l, p[1]) : r = ExpertRow(l, a)
    BY <1>2 DEF CombineLoads
  <2>2. a \in Assignments /\ KeysOf(l)[a] < Experts
    BY <1>1, <2>1, TermsAre
  <2>3. a \in Routed(KeysOf(l)) /\ r = ExpectedRow(l, a)
    BY <2>1, <2>2, TermIs DEF Routed
  <2>4. LiveRow(l, ExpectedRow(l, a))
    BY <2>3, TermAlive
  <2>5. LiveRow(l, r)
    BY <2>3, <2>4
  <2> QED BY <1>0, <2>5 DEF Alive
<1> QED BY <1>10, <1>11, <1>12 DEF Does

LEMMA CombineSound ==
  ASSUME NEW l \in Launches, Runs(l), l.kernel = "combine"
  PROVE  Sound(l)
<1> DEFINE W == CombineWriter(l)
<1>1. ASSUME NEW x \in Addresses(l) PROVE \E p \in LaunchGrid(l, 1) : W[x] = <<1, p>>
  <2>1. RowAt(l, x) \in Interval(0, Tokens) /\ LaunchGrid(l, 1) = Grid(Tokens, l)
    BY CombineIs, CellOf, LaunchSizes DEF Interval
  <2>2. ColAt(l, x) \div BlockGroups \in Interval(0, CeilDiv(l.groups, BlockGroups))
    BY CombineIs, ColumnBlock
  <2>3. <<RowAt(l, x), ColAt(l, x) \div BlockGroups>> \in LaunchGrid(l, 1)
    BY <2>1, <2>2 DEF Grid
  <2> QED BY <2>3 DEF CombineWriter
<1>2. \A p \in LaunchGrid(l, 1) : Does(l, 1, p, Addresses(l), W)
  BY CombineDoes
<1> HIDE DEF W
<1>3. Owned(l, Addresses(l), W)
  BY <1>1, <1>2, OneStage DEF Owned
<1> QED BY <1>3, SoundIf

-----------------------------------------------------------------------------
(* The ragged GEMM.                                                        *)

\* The expert and the tile of a row.
RowExpert(l, row) == KeysOf(l)[Sorted(KeysOf(l))[row]]
RowTile(l, row) ==
  TileStart(l, RowExpert(l, row)) + ((row - Start(l, RowExpert(l, row))) \div l.tile_rows)

LEMMA RaggedIs ==
  ASSUME NEW l \in Launches, Runs(l), l.kernel = "ragged"
  PROVE  /\ l.kernel \notin Gemms /\ l.kernel \notin Packers /\ l.groups \in Nat \ {0}
         /\ l.tile_rows \in Nat \ {0} /\ l.from_tokens \in BOOLEAN
         /\ KeysOf(l) \in Keys /\ Height(l) = Slots /\ LaunchGrid(l, 1) = RaggedGrid(l)
         /\ CeilDiv(l.groups, BlockGroups) \in Nat \ {0}
         /\ TileLimit(l) = TileRoom(l.tile_rows) /\ TileLimit(l) \in Nat
         /\ Cardinality(Routed(KeysOf(l))) \in Nat /\ Cardinality(Routed(KeysOf(l))) <= Slots
         /\ Cardinality(Routed(KeysOf(l))) = StartOf(KeysOf(l), Experts)
<1>1. l.kernel \notin Gemms /\ l.kernel \notin Packers
  BY DEF Gemms, Packers
<1>2. l.groups \in Nat \ {0} /\ l.tile_rows \in Nat \ {0} /\ KeysOf(l) \in Keys
  BY <1>1, MoeIs, KeysAre
<1>3. l.from_tokens \in BOOLEAN
  BY <1>1, LaunchAssumption
<1>4. Height(l) = Slots
  BY <1>1 DEF Height
<1>5. LaunchGrid(l, 1) = RaggedGrid(l)
  BY <1>1 DEF LaunchGrid
<1>6. CeilDiv(l.groups, BlockGroups) \in Nat \ {0}
  BY <1>2, LaunchSizes, CeilDivIs
<1>7. TileLimit(l) = TileRoom(l.tile_rows) /\ TileLimit(l) \in Nat
  BY <1>2, TilesSuffice DEF TileLimit, TileRoom
<1>8. Routed(KeysOf(l)) \subseteq Assignments
  BY DEF Routed
<1>9. Cardinality(Routed(KeysOf(l))) \in Nat /\ Cardinality(Routed(KeysOf(l))) <= Slots
  BY <1>8, PartFinite, PartLe, AssignmentsFinite
<1> QED BY <1>1, <1>2, <1>3, <1>4, <1>5, <1>6, <1>7, <1>9, RoutedPrefix

\* A routed row is in its expert's run, and in one of its tiles.
LEMMA RowIs ==
  ASSUME NEW l \in Launches, Runs(l), l.kernel = "ragged",
         NEW row \in 0 .. Cardinality(Routed(KeysOf(l))) - 1
  PROVE  /\ Sorted(KeysOf(l))[row] \in Routed(KeysOf(l)) /\ RowExpert(l, row) \in ExpertSet
         /\ RowTile(l, row) \in 0 .. TileLimit(l) - 1
         /\ RowExpert(l, row) \in ExpertOfTile(l, RowTile(l, row))
         /\ row \in Interval(Start(l, RowExpert(l, row))
                             + (RowTile(l, row) - TileStart(l, RowExpert(l, row))) * l.tile_rows, l.tile_rows)
         /\ row < Start(l, RowExpert(l, row) + 1)
<1> DEFINE key == KeysOf(l)
<1>1. PICK h, m : h = l.tile_rows /\ m = Cardinality(Routed(key))
  OBVIOUS
<1>2. h \in Nat \ {0} /\ m \in Nat /\ m <= Slots /\ key \in Keys /\ row \in Nat /\ row < m
      /\ row \in Assignments /\ m = StartOf(key, Experts)
  BY <1>1, RaggedIs, LaunchSizes DEF Assignments
<1>3. PICK a, e : a = Sorted(key)[row] /\ e = key[a]
  OBVIOUS
<1>4. a \in Assignments /\ Rank(key, a) = row /\ RowExpert(l, row) = e
  BY <1>2, <1>3, SortedRank DEF RowExpert
<1>5. a \in Routed(key)
  BY <1>2, <1>4, RoutedPrefix
<1>6. e \in ExpertSet /\ e \in Int
  BY <1>2, <1>3, <1>4, <1>5, KeyOf, LaunchSizes DEF Routed, ExpertSet
<1>7. PICK o, c, t, q : o = StartOf(key, e) /\ c = CountOf(key, e) /\ t = TilesUnder(key, e, h) /\ q = TileCount(key, e, h)
  OBVIOUS
<1>8. o \in Nat /\ c \in Nat /\ o <= row /\ row < o + c /\ StartOf(key, e + 1) = o + c
  BY <1>2, <1>3, <1>4, <1>6, <1>7, RankInRun, CountTypes, StartNext
<1>9. PICK i, r : i = (row - o) \div h /\ r = (row - o) % h
  OBVIOUS
<1>10. row - o \in 0 .. c - 1 /\ row - o \in Nat
  BY <1>2, <1>8
<1>11. i \in 0 .. q - 1 /\ r \in 0 .. h - 1 /\ row - o = i * h + r /\ q \in Nat /\ i \in Nat /\ i * h \in Nat
  <2>1. i \in 0 .. q - 1 /\ q \in Nat
    BY <1>2, <1>7, <1>8, <1>9, <1>10, CeilDivIs DEF TileCount
  <2>2. r \in 0 .. h - 1 /\ row - o = i * h + r /\ i \in Nat
    BY <1>2, <1>9, <1>10, Modulo
  <2> QED BY <1>2, <2>1, <2>2, Multiply
<1>12. e \in Bins /\ e + 1 \in Bins /\ Experts \in Bins /\ e + 1 <= Experts
  BY <1>6, LaunchSizes DEF Bins, ExpertSet
<1>13. t \in Nat /\ TilesUnder(key, e + 1, h) = t + q /\ TilesUnder(key, e + 1, h) <= TilesUnder(key, Experts, h)
       /\ TilesUnder(key, Experts, h) <= TileLimit(l) /\ TilesUnder(key, Experts, h) \in Nat /\ TileLimit(l) \in Nat
  BY <1>1, <1>2, <1>6, <1>7, <1>12, TilesUnderAre, TilesSuffice, RaggedIs
<1>14. Start(l, e) = o /\ Start(l, e + 1) = o + c /\ TileStart(l, e) = t /\ TilesOf(l, e) = q
  BY <1>1, <1>7, <1>8 DEF Start, TileStart, TilesOf, TilesUnder, TileCount, Count
<1>15. RowTile(l, row) = t + i
  BY <1>1, <1>4, <1>9, <1>14 DEF RowTile
<1>16. t + i \in 0 .. TileLimit(l) - 1
  BY <1>11, <1>13
<1>17. e \in ExpertOfTile(l, t + i)
  BY <1>6, <1>11, <1>13, <1>14 DEF ExpertOfTile, Interval
<1>18. t + i - t = i
  BY <1>11, <1>13
<1>19. row \in Interval(o + i * h, h) /\ row < o + c
  BY <1>2, <1>8, <1>11 DEF Interval
<1>20. PICK k : k = t + i
  OBVIOUS
<1>21. Start(l, e) + (k - TileStart(l, e)) * l.tile_rows = o + i * h
  <2>1. k - TileStart(l, e) = i
    BY <1>11, <1>13, <1>14, <1>20
  <2> QED BY <1>1, <1>14, <2>1
<1>22. /\ k \in 0 .. TileLimit(l) - 1 /\ e \in ExpertOfTile(l, k)
       /\ row \in Interval(Start(l, e) + (k - TileStart(l, e)) * l.tile_rows, l.tile_rows)
       /\ row < Start(l, e + 1)
  BY <1>1, <1>14, <1>16, <1>17, <1>19, <1>20, <1>21
<1>23. RowTile(l, row) = k /\ RowExpert(l, row) = e /\ Sorted(key)[row] = a
  BY <1>3, <1>4, <1>15, <1>20
<1> QED BY <1>5, <1>6, <1>22, <1>23

\* What a tile's rows are: the routed rows of that tile.
LEMMA TileRowIs ==
  ASSUME NEW l \in Launches, Runs(l), l.kernel = "ragged", NEW tile \in Nat, NEW e \in ExpertOfTile(l, tile),
         NEW row \in Interval(Start(l, e) + (tile - TileStart(l, e)) * l.tile_rows, l.tile_rows),
         row < Start(l, e + 1)
  PROVE  row \in 0 .. Cardinality(Routed(KeysOf(l))) - 1 /\ RowTile(l, row) = tile
<1> DEFINE key == KeysOf(l)
<1>1. PICK h, m : h = l.tile_rows /\ m = Cardinality(Routed(key))
  OBVIOUS
<1>2. h \in Nat \ {0} /\ m \in Nat /\ m <= Slots /\ key \in Keys /\ m = StartOf(key, Experts)
  BY <1>1, RaggedIs
<1>3. e \in ExpertSet /\ e \in Int /\ e \in Bins /\ e + 1 <= Experts /\ Experts \in Int
  BY LaunchSizes DEF ExpertOfTile, ExpertSet, Bins
<1>4. PICK o, c, t, q : o = StartOf(key, e) /\ c = CountOf(key, e) /\ t = TilesUnder(key, e, h) /\ q = TileCount(key, e, h)
  OBVIOUS
<1>5. o \in Nat /\ c \in Nat /\ StartOf(key, e + 1) = o + c /\ t \in Nat /\ q \in Nat /\ o + c <= m
  <2>1. StartOf(key, e + 1) <= m /\ e + 1 \in Int
    BY <1>2, <1>3, StartGrows
  <2> QED BY <1>2, <1>3, <1>4, <2>1, CountTypes, StartNext, TilesUnderAre
<1>6. Start(l, e) = o /\ Start(l, e + 1) = o + c /\ TileStart(l, e) = t /\ TilesOf(l, e) = q
  BY <1>1, <1>4, <1>5 DEF Start, TileStart, TilesOf, TilesUnder, TileCount, Count
<1>7. tile - t \in 0 .. q - 1
  BY <1>5, <1>6 DEF ExpertOfTile, Interval
<1>8. PICK i \in Nat : i = tile - t
  BY <1>7
<1>9. i * h \in Nat
  BY <1>2, Multiply
<1>10. row \in Interval(o + i * h, h) /\ row < o + c
  BY <1>1, <1>6, <1>8
<1>11. row \in Nat /\ o <= row /\ row - o - i * h \in 0 .. h - 1
  BY <1>2, <1>5, <1>9, <1>10 DEF Interval
<1>12. (row - o) \div h = i
  <2>1. PICK r \in 0 .. h - 1 : row - o = i * h + r
    BY <1>5, <1>9, <1>11
  <2> QED BY <1>2, <2>1, Division
<1>13. row \in 0 .. m - 1 /\ row \in Assignments
  BY <1>2, <1>5, <1>10, <1>11, LaunchSizes DEF Assignments
<1>14. RowExpert(l, row) = e
  <2>1. PICK a \in Assignments : a = Sorted(key)[row] /\ Rank(key, a) = row
    BY <1>2, <1>13, SortedRank
  <2>2. key[a] = e
    BY <1>2, <1>3, <1>4, <1>10, <1>11, <2>1, KeyOfRun
  <2> QED BY <2>1, <2>2 DEF RowExpert
<1>15. RowTile(l, row) = t + i
  BY <1>1, <1>6, <1>12, <1>14 DEF RowTile
<1>16. tile = t + i
  BY <1>5, <1>8
<1> QED BY <1>1, <1>13, <1>15, <1>16

RaggedCells(l) == {x \in Addresses(l) : RowAt(l, x) < Cardinality(Routed(KeysOf(l)))}
RaggedWriter(l) ==
  [x \in RaggedCells(l) |->
     <<1, <<RowTile(l, RowAt(l, x)) * CeilDiv(l.groups, BlockGroups) + (ColAt(l, x) \div BlockGroups), 0>>>>]

LEMMA RaggedDoes ==
  ASSUME NEW l \in Launches, Runs(l), l.kernel = "ragged", NEW p \in LaunchGrid(l, 1)
  PROVE  Does(l, 1, p, RaggedCells(l), RaggedWriter(l))
<1> DEFINE key == KeysOf(l)
           m == Cardinality(Routed(key))
           w == CeilDiv(l.groups, BlockGroups)
           tile == p[1] \div w
           y == p[1] % w
           R == RaggedRows(l, p)
           C == Columns(l, y)
           row == [r \in R |-> r]
           st == RaggedStores(l, p)
           V(r, g) == Value("projected", <<SourceRow(l, r), key[Sorted(key)[r]]>>, g)
<1>0. /\ l.kernel \notin Gemms /\ l.kernel \notin Packers /\ l.groups \in Nat \ {0}
      /\ l.tile_rows \in Nat \ {0} /\ l.from_tokens \in BOOLEAN
      /\ key \in Keys /\ Height(l) = Slots /\ LaunchGrid(l, 1) = RaggedGrid(l)
      /\ w \in Nat \ {0} /\ TileLimit(l) \in Nat /\ m \in Nat /\ m <= Slots
  BY RaggedIs
<1>1. p = <<p[1], 0>> /\ p[1] \in Nat /\ tile \in Nat /\ y \in 0 .. w - 1 /\ y \in Nat /\ p[1] = tile * w + y
  <2>1. p = <<p[1], 0>> /\ p[1] \in Nat
    <3>1. TileLimit(l) * w \in Nat
      BY <1>0, Multiply
    <3> HIDE DEF w
    <3> QED BY <1>0, <3>1 DEF RaggedGrid, Interval, w
  <2>2. tile \in Nat /\ y \in 0 .. w - 1 /\ p[1] = tile * w + y
    <3> HIDE DEF w
    <3> QED BY <1>0, <2>1, Modulo
  <2> HIDE DEF w, y, tile
  <2> QED BY <1>0, <2>1, <2>2
<1>2. Stores(l, 1, p) = st /\ Loads(l, 1, p) = RaggedLoads(l, p)
  BY <1>0 DEF Stores, Loads
<1>3. ASSUME NEW r PROVE r \in R <=> r \in 0 .. m - 1 /\ RowTile(l, r) = tile
  <2>0. R = UNION {{q \in Interval(Start(l, e) + (tile - TileStart(l, e)) * l.tile_rows, l.tile_rows) :
                      q < Start(l, e + 1)} : e \in ExpertOfTile(l, tile)}
    BY DEF RaggedRows
  <2> HIDE DEF R, tile, key, w, y
  <2>1. ASSUME r \in R PROVE r \in 0 .. m - 1 /\ RowTile(l, r) = tile
    <3>1. PICK e \in ExpertOfTile(l, tile) :
            /\ r \in Interval(Start(l, e) + (tile - TileStart(l, e)) * l.tile_rows, l.tile_rows)
            /\ r < Start(l, e + 1)
      BY <2>0, <2>1
    <3> QED BY <1>1, <3>1, TileRowIs DEF key
  <2>2. ASSUME r \in 0 .. m - 1, RowTile(l, r) = tile PROVE r \in R
    <3>1. /\ RowExpert(l, r) \in ExpertOfTile(l, RowTile(l, r))
          /\ r \in Interval(Start(l, RowExpert(l, r))
                            + (RowTile(l, r) - TileStart(l, RowExpert(l, r))) * l.tile_rows, l.tile_rows)
          /\ r < Start(l, RowExpert(l, r) + 1)
      BY <2>2, RowIs DEF key
    <3> QED BY <2>0, <2>2, <3>1
  <2> QED BY <2>1, <2>2
<1> HIDE DEF R, tile, m
<1>4. RowsApart(l, R, row)
  BY <1>0, <1>3, LaunchSizes DEF RowsApart
<1>5. DOMAIN st = {Address(l, u[1], u[2]) : u \in R \X C}
  BY DEF RaggedStores, Stored, R
<1>6. \A u \in R \X C : u[1] \in R /\ u[2] \in C /\ row[u[1]] = u[1]
  OBVIOUS
<1>7. CellsAt(l, st, R, row, y)
  <2> HIDE DEF st, row, y
  <2> QED BY <1>5, <1>6 DEF CellsAt
<1>8. ASSUME NEW u \in R \X C PROVE st[Address(l, u[1], u[2])] = V(u[1], u[2])
  <2>1. \A v \in R \X C : Address(l, v[1], v[2]) = Address(l, u[1], u[2]) => v = u
    <3> HIDE DEF row, y, w
    <3> QED BY <1>0, <1>1, <1>4, <1>6, CellsApart
  <2> QED BY <2>1 DEF RaggedStores, Stored, R
<1>9. ASSUME NEW x
      PROVE  x \in DOMAIN st <=>
               x \in Addresses(l) /\ ColAt(l, x) \div BlockGroups = y /\ RowAt(l, x) \in R
  <2>1. (\E r \in R : row[r] = RowAt(l, x)) <=> RowAt(l, x) \in R
    OBVIOUS
  <2>2. x \in DOMAIN st <=>
          x \in Addresses(l) /\ ColAt(l, x) \div BlockGroups = y /\ \E r \in R : row[r] = RowAt(l, x)
    <3> HIDE DEF row, st, y, w
    <3> QED BY <1>0, <1>1, <1>4, <1>7, CellStores
  <2> HIDE DEF row, st, y
  <2> QED BY <2>1, <2>2
<1>10. ASSUME NEW x \in DOMAIN st PROVE st[x] = Want(l, x)
  <2>1. PICK u \in R \X C : x = Address(l, u[1], u[2])
    <3> HIDE DEF C, st
    <3> QED BY <1>5
  <2>2. u[1] \in R /\ u[2] \in C /\ u[1] \in 0 .. m - 1 /\ u[1] \in 0 .. Height(l) - 1
    BY <1>0, <1>3, <1>6, LaunchSizes
  <2>3. x \in Addresses(l) /\ RowAt(l, x) = u[1] /\ ColAt(l, x) = u[2]
    <3> HIDE DEF w, y
    <3> QED BY <1>0, <1>1, <2>1, <2>2, BlockCells DEF C
  <2>4. PICK r, g : r = u[1] /\ g = u[2]
    OBVIOUS
  <2>5. x \div l.groups = r /\ x % l.groups = g /\ ~(r >= m)
    BY <1>0, <2>2, <2>3, <2>4, MoeIs
  <2>6. Expected(l, x) = Value("projected", <<SourceRow(l, r), key[Sorted(key)[r]]>>, g)
    BY <1>0, <2>5 DEF Expected, SourceRow, m
  <2>7. Want(l, x) = Expected(l, x)
    BY <1>0 DEF Want
  <2>8. st[x] = V(r, g)
    BY <1>8, <2>1, <2>4
  <2> HIDE DEF st
  <2> QED BY <2>6, <2>7, <2>8
<1>11. ASSUME NEW x \in RaggedCells(l)
       PROVE  RaggedWriter(l)[x] = <<1, p>> <=> RowTile(l, RowAt(l, x)) = tile /\ ColAt(l, x) \div BlockGroups = y
  <2>1. PICK t, g : t = RowTile(l, RowAt(l, x)) /\ g = ColAt(l, x) \div BlockGroups
    OBVIOUS
  <2>2. x \in Addresses(l) /\ RowAt(l, x) \in 0 .. m - 1
    BY <1>0, CellOf DEF RaggedCells, m
  <2>3. t \in Nat
    BY <1>0, <2>1, <2>2, RowIs DEF m
  <2>4. g \in 0 .. w - 1
    BY <1>0, <2>1, <2>2, ColumnBlock DEF Interval
  <2>5. (t * w + g) \div w = t /\ (t * w + g) % w = g
    <3> HIDE DEF w
    <3> QED BY <1>0, <2>3, <2>4, Division
  <2>6. RaggedWriter(l)[x] = <<1, <<t * w + g, 0>>>>
    BY <2>1 DEF RaggedWriter
  <2>7. t * w + g = p[1] <=> t = tile /\ g = y
    <3> HIDE DEF w
    <3> QED BY <1>1, <2>5 DEF tile
  <2>8. RaggedWriter(l)[x] = <<1, p>> <=> t * w + g = p[1]
    <3> HIDE DEF w
    <3> QED BY <1>1, <2>6
  <2> QED BY <2>1, <2>7, <2>8
<1>12. \A x : x \in RaggedCells(l) <=> x \in Addresses(l) /\ RowAt(l, x) \in 0 .. m - 1
  BY <1>0, CellOf DEF RaggedCells, m
<1>13. ASSUME NEW x PROVE x \in DOMAIN Stores(l, 1, p) <=> x \in RaggedCells(l) /\ RaggedWriter(l)[x] = <<1, p>>
  <2> HIDE DEF st, y
  <2> QED BY <1>2, <1>3, <1>9, <1>11, <1>12
<1>14. ASSUME NEW x \in RaggedCells(l), RaggedWriter(l)[x] = <<1, p>> PROVE Stores(l, 1, p)[x] = Want(l, x)
  <2> HIDE DEF st
  <2> QED BY <1>2, <1>10, <1>13, <1>14
<1>15. ASSUME NEW z \in Loads(l, 1, p) PROVE Alive(l, z)
  <2>1. PICK r \in R : z = SourceRow(l, r)
    BY <1>2 DEF RaggedLoads, R
  <2>2. r \in 0 .. m - 1 /\ Sorted(key)[r] \in Routed(key)
    BY <1>3, <2>1, RowIs DEF m
  <2>3. CASE l.from_tokens
    <3>1. z = Token(Sorted(key)[r])
      BY <2>1, <2>3 DEF SourceRow
    <3>2. z \in {Token(a) : a \in Routed(KeysOf(l))}
      BY <2>2, <3>1
    <3> QED BY <1>0, <2>3, <3>2 DEF Alive
  <2>4. CASE ~l.from_tokens
    <3>1. z \in Interval(0, Cardinality(Routed(KeysOf(l))))
      BY <1>0, <2>1, <2>2, <2>4 DEF SourceRow, Interval, m
    <3> QED BY <1>0, <2>4, <3>1 DEF Alive
  <2> QED BY <1>0, <2>3, <2>4
<1> QED BY <1>13, <1>14, <1>15 DEF Does

LEMMA RaggedSound ==
  ASSUME NEW l \in Launches, Runs(l), l.kernel = "ragged"
  PROVE  Sound(l)
<1> DEFINE W == RaggedWriter(l)
           D == RaggedCells(l)
           m == Cardinality(Routed(KeysOf(l)))
           w == CeilDiv(l.groups, BlockGroups)
<1>0. /\ l.kernel \notin Gemms /\ l.kernel \notin Packers /\ LaunchGrid(l, 1) = RaggedGrid(l)
      /\ l.kernel # "quantize_pack" /\ l.groups \in Nat \ {0}
      /\ w \in Nat \ {0} /\ TileLimit(l) \in Nat /\ m \in Nat
  BY RaggedIs
<1>1. ASSUME NEW x \in D PROVE \E p \in LaunchGrid(l, 1) : W[x] = <<1, p>>
  <2>1. x \in Addresses(l) /\ RowAt(l, x) \in 0 .. m - 1
    BY <1>0, CellOf DEF RaggedCells
  <2>2. PICK t, g : t = RowTile(l, RowAt(l, x)) /\ g = ColAt(l, x) \div BlockGroups
    OBVIOUS
  <2>3. t \in 0 .. TileLimit(l) - 1 /\ g \in 0 .. w - 1
    BY <1>0, <2>1, <2>2, RowIs, ColumnBlock DEF Interval
  <2>4. t * w + g \in Interval(0, TileLimit(l) * w)
    <3> HIDE DEF w
    <3>1. t * w + g \in Nat /\ t * w + g < TileLimit(l) * w /\ TileLimit(l) * w \in Nat
      BY <1>0, <2>3, Within
    <3> QED BY <3>1 DEF Interval
  <2>5. <<t * w + g, 0>> \in LaunchGrid(l, 1)
    BY <1>0, <2>4 DEF RaggedGrid
  <2>6. W[x] = <<1, <<t * w + g, 0>>>>
    BY <2>2 DEF RaggedWriter
  <2> QED BY <2>5, <2>6
<1>2. ASSUME NEW x \in Addresses(l) \ D PROVE Want(l, x) = Blank(l)
  <2>1. RowAt(l, x) >= m /\ x \div l.groups = RowAt(l, x)
    BY <1>0, CellOf, MoeIs DEF RaggedCells
  <2>2. Want(l, x) = Garbage
    BY <1>0, <2>1 DEF Want, Expected
  <2> QED BY <1>0, <2>2 DEF Blank
<1>3. D \subseteq Addresses(l)
  BY DEF RaggedCells
<1>4. \A p \in LaunchGrid(l, 1) : Does(l, 1, p, D, W)
  BY RaggedDoes
<1> HIDE DEF W, D
<1>5. Owned(l, D, W)
  BY <1>0, <1>1, <1>2, <1>3, <1>4, OneStage DEF Owned
<1> QED BY <1>5, SoundIf

-----------------------------------------------------------------------------
(* The bands of the GEMM's grid.                                           *)

\* Adding s turns the remainders of r around.
Turn(s, r, z) == CHOOSE v \in 0 .. r - 1 : (s + v) % r = z

LEMMA Turned ==
  ASSUME NEW s \in Nat, NEW r \in Nat \ {0}
  PROVE  /\ \A z \in 0 .. r - 1 : Turn(s, r, z) \in 0 .. r - 1 /\ (s + Turn(s, r, z)) % r = z
         /\ \A v \in 0 .. r - 1 : (s + v) % r \in 0 .. r - 1 /\ v = Turn(s, r, (s + v) % r)
<1>1. PICK a, y : a = s \div r /\ y = s % r
  OBVIOUS
<1>2. a \in Nat /\ y \in 0 .. r - 1 /\ s = a * r + y /\ a * r \in Nat /\ (a + 1) * r = a * r + r
  BY <1>1, Modulo, Multiply
<1>3. ASSUME NEW z \in 0 .. r - 1 PROVE \E v \in 0 .. r - 1 : (s + v) % r = z
  <2>1. CASE y <= z
    <3>1. z - y \in 0 .. r - 1 /\ s + (z - y) = a * r + z
      BY <1>2, <2>1
    <3>2. (s + (z - y)) % r = z
      BY <1>2, <3>1, Division
    <3> QED BY <3>1, <3>2
  <2>2. CASE ~(y <= z)
    <3>1. z - y + r \in 0 .. r - 1 /\ s + (z - y + r) = (a + 1) * r + z /\ a + 1 \in Nat
      BY <1>2, <2>2
    <3>2. (s + (z - y + r)) % r = z
      BY <3>1, Division
    <3> QED BY <3>1, <3>2
  <2> QED BY <2>1, <2>2
<1>4. ASSUME NEW v \in 0 .. r - 1, NEW w \in 0 .. r - 1, (s + v) % r = (s + w) % r
      PROVE  ~(v < w)
  <2> SUFFICES ASSUME v < w PROVE FALSE
    OBVIOUS
  <2>1. s + v \in Nat /\ s + w \in Nat
    OBVIOUS
  <2>2. PICK p, q, z : p = (s + v) \div r /\ q = (s + w) \div r /\ z = (s + v) % r
    OBVIOUS
  <2>3. /\ p \in Nat /\ q \in Nat /\ s + v = p * r + z /\ s + w = q * r + z /\ z \in 0 .. r - 1
    BY <1>4, <2>1, <2>2, Modulo
  <2>4. p * r \in Nat /\ q * r \in Nat /\ (p + 1) * r = p * r + r /\ p + 1 \in Nat
    BY <2>3, Multiply
  <2>5. p * r < q * r
    BY <2>3, <2>4
  <2>6. p + 1 <= q
    BY <2>3, <2>5, Multiply
  <2>7. (p + 1) * r <= q * r
    BY <2>3, <2>4, <2>6, Multiply
  <2> QED BY <2>3, <2>4, <2>7
<1>5. ASSUME NEW z \in 0 .. r - 1 PROVE Turn(s, r, z) \in 0 .. r - 1 /\ (s + Turn(s, r, z)) % r = z
  BY <1>3 DEF Turn
<1>6. ASSUME NEW v \in 0 .. r - 1 PROVE (s + v) % r \in 0 .. r - 1 /\ v = Turn(s, r, (s + v) % r)
  <2>1. s + v \in Nat
    OBVIOUS
  <2>2. (s + v) % r \in 0 .. r - 1
    BY <2>1, Modulo
  <2>3. PICK z, w : z = (s + v) % r /\ w = Turn(s, r, z)
    OBVIOUS
  <2>4. w \in 0 .. r - 1 /\ (s + w) % r = (s + v) % r
    BY <1>5, <2>2, <2>3
  <2>5. ~(v < w) /\ ~(w < v)
    BY <1>4, <2>4
  <2> QED BY <2>2, <2>3, <2>4, <2>5
<1> QED BY <1>5, <1>6

\* A multiple of r does not.
Rolled(s, r, c, v, x) == s \in Nat /\ r \in Nat \ {0} /\ c \in Nat /\ v \in 0 .. r - 1 /\ x = s + (c * r + v)

LEMMA RolledIs ==
  ASSUME NEW s, NEW r, NEW c, NEW v, NEW x, Rolled(s, r, c, v, x)
  PROVE  x % r = (s + v) % r
<1>0. s \in Nat /\ r \in Nat \ {0} /\ c \in Nat /\ v \in 0 .. r - 1 /\ x = s + (c * r + v)
  BY DEF Rolled
<1>1. s + v \in Nat
  BY <1>0
<1>2. PICK q, z, t : q = (s + v) \div r /\ z = (s + v) % r /\ t = q + c
  OBVIOUS
<1>3. q \in Nat /\ z \in 0 .. r - 1 /\ s + v = q * r + z
  BY <1>0, <1>1, <1>2, Modulo
<1>a. r \in Nat /\ c \in Nat /\ v \in Nat /\ s \in Nat /\ x = s + (c * r + v)
  BY <1>0
<1>4. t * r = q * r + c * r /\ q * r \in Nat /\ c * r \in Nat /\ t \in Nat
  <2>1. r \in Nat /\ c \in Nat /\ q \in Nat /\ t = q + c
    BY <1>2, <1>3, <1>a
  <2> QED BY ONLY <2>1
<1>5. t \in Nat /\ x = t * r + z
  <2>1. PICK d, e, f : d = q * r /\ e = c * r /\ f = t * r
    OBVIOUS
  <2>2. d \in Nat /\ e \in Nat /\ f = d + e /\ s + v = d + z /\ x = s + (e + v) /\ z \in Nat /\ s \in Nat /\ v \in Nat
    BY <1>3, <1>4, <1>a, <2>1
  <2>3. x = f + z
    BY ONLY <2>2
  <2> QED BY <1>4, <2>1, <2>3
<1>6. x % r = z
  <2>1. r \in Nat \ {0} /\ z \in 0 .. r - 1 /\ t \in Nat /\ x = t * r + z
    BY <1>0, <1>3, <1>5
  <2> QED BY ONLY <2>1, Division
<1> QED BY <1>2, <1>6

\* A program is in one band of rows, and in one column of it.
InBand(M, N, b, pid, q, u, r) ==
  /\ {M, N, b} \subseteq Nat \ {0} /\ pid \in 0 .. M * N - 1
  /\ q = pid \div (b * N) /\ u = pid % (b * N) /\ r = Smaller(M - q * b, b)

LEMMA BandSplit ==
  ASSUME NEW M, NEW N, NEW b, NEW pid, NEW q, NEW u, NEW r, InBand(M, N, b, pid, q, u, r)
  PROVE  /\ r \in Nat \ {0} /\ q \in Nat /\ q * b \in Nat /\ q * b + r <= M /\ r <= b
         /\ u \in Nat /\ u < N * r /\ pid = q * (b * N) + u
<1>0. /\ M \in Nat \ {0} /\ N \in Nat \ {0} /\ b \in Nat \ {0} /\ pid \in 0 .. M * N - 1
      /\ q = pid \div (b * N) /\ u = pid % (b * N) /\ r = Smaller(M - q * b, b)
  BY DEF InBand
<1>1. b * N \in Nat \ {0} /\ M * N \in Nat /\ pid \in Nat /\ pid < M * N
  <2>1. b * N \in Nat /\ M * N \in Nat /\ b * N # 0
    BY ONLY <1>0
  <2> QED BY <1>0, <2>1
<1>2. q \in Nat /\ u \in 0 .. b * N - 1 /\ pid = q * (b * N) + u
  BY <1>0, <1>1, Modulo
<1>3. PICK f : f = q * b
  OBVIOUS
<1>4. f \in Nat
  BY <1>0, <1>2, <1>3, Multiply
<1>5. q * (b * N) = f * N /\ f * N \in Nat
  <2>1. b \in Nat /\ N \in Nat /\ q \in Nat /\ f = q * b
    BY <1>0, <1>2, <1>3
  <2> QED BY ONLY <2>1
<1>6. f * N < M * N
  BY <1>0, <1>1, <1>2, <1>5
<1>7. f < M
  BY <1>0, <1>4, <1>6, Multiply
<1>8. r \in Nat \ {0} /\ f + r <= M /\ r <= b /\ (r = b \/ f + r = M)
  BY <1>0, <1>3, <1>4, <1>7 DEF Smaller
<1>9. u < r * N
  <2>1. CASE r = b
    BY <1>0, <1>1, <1>2, <2>1
  <2>2. CASE f + r = M
    <3>1. M * N = f * N + r * N /\ r * N \in Nat
      BY ONLY <1>0, <2>2, <1>4, <1>8
    <3> QED BY <1>0, <1>1, <1>2, <1>5, <3>1
  <2> QED BY <1>0, <1>8, <2>1, <2>2
<1>10. r * N = N * r
  BY ONLY <1>0, <1>8
<1> QED BY <1>0, <1>1, <1>2, <1>3, <1>4, <1>8, <1>9, <1>10

\* A tile is in one band, and one program of it is the tile's.
OfBand(M, N, b, i, j, q, r, v, pid) ==
  /\ {M, N, b} \subseteq Nat \ {0} /\ i \in 0 .. M - 1 /\ j \in 0 .. N - 1
  /\ q = i \div b /\ r = Smaller(M - q * b, b) /\ v \in 0 .. r - 1
  /\ pid = q * (b * N) + (j * r + v)

LEMMA BandJoin ==
  ASSUME NEW M, NEW N, NEW b, NEW i, NEW j, NEW q, NEW r, NEW v, NEW pid,
         OfBand(M, N, b, i, j, q, r, v, pid)
  PROVE  /\ r \in Nat \ {0} /\ q \in Nat /\ i - q * b \in 0 .. r - 1 /\ q * b \in Nat
         /\ pid \in 0 .. M * N - 1 /\ pid \div (b * N) = q /\ pid % (b * N) = j * r + v
         /\ q * (b * N) \in Nat
<1>0. /\ M \in Nat \ {0} /\ N \in Nat \ {0} /\ b \in Nat \ {0} /\ i \in 0 .. M - 1 /\ j \in 0 .. N - 1
      /\ q = i \div b /\ r = Smaller(M - q * b, b) /\ v \in 0 .. r - 1
      /\ pid = q * (b * N) + (j * r + v)
  BY DEF OfBand
<1>1. b * N \in Nat \ {0} /\ M * N \in Nat /\ i \in Nat
  <2>1. b * N \in Nat /\ M * N \in Nat /\ b * N # 0
    BY ONLY <1>0
  <2> QED BY <1>0, <2>1
<1>2. PICK f, w : f = q * b /\ w = i % b
  OBVIOUS
<1>3. q \in Nat /\ f \in Nat /\ w \in 0 .. b - 1 /\ i = f + w
  <2>1. q \in Nat /\ i % b \in 0 .. b - 1 /\ i = q * b + (i % b)
    BY <1>0, <1>1, Modulo
  <2> QED BY <1>0, <1>2, <2>1, Multiply
<1>4. r \in Nat \ {0} /\ f + r <= M /\ r <= b /\ (r = b \/ f + r = M) /\ i - f \in 0 .. r - 1
  BY <1>0, <1>2, <1>3 DEF Smaller
<1>5. PICK u : u = j * r + v
  OBVIOUS
<1>6. u \in Nat /\ u < N * r /\ N * r \in Nat
  BY <1>0, <1>4, <1>5, Within
<1>7. N * r = r * N /\ r * N <= b * N /\ f * N + r * N <= M * N /\ q * (b * N) = f * N /\ f * N \in Nat
  <2>1. N * r = r * N /\ q * (b * N) = f * N /\ f * N \in Nat
    <3>1. b \in Nat /\ N \in Nat /\ q \in Nat /\ f = q * b /\ r \in Nat
      BY <1>0, <1>2, <1>3, <1>4
    <3> QED BY ONLY <3>1
  <2>2. r * N <= b * N
    BY <1>0, <1>4, Multiply
  <2>3. (f + r) * N <= M * N /\ (f + r) * N = f * N + r * N
    <3>1. f + r \in Nat /\ (f + r) * N = f * N + r * N
      BY ONLY <1>0, <1>3, <1>4
    <3> QED BY <1>0, <1>4, <3>1, Multiply
  <2> QED BY <1>0, <2>1, <2>2, <2>3
<1>8. u \in 0 .. b * N - 1 /\ pid = q * (b * N) + u
  <2>1. PICK x, y : x = b * N /\ y = r * N
    OBVIOUS
  <2>2. u < y /\ y <= x /\ x \in Nat /\ u \in Nat /\ y \in Nat
    BY <1>0, <1>1, <1>6, <1>7, <2>1
  <2>3. u \in 0 .. x - 1
    BY ONLY <1>0, <2>2
  <2>4. pid = q * x + u
    BY <1>0, <1>5, <2>1
  <2> QED BY <1>0, <2>1, <2>3, <2>4
<1>9. pid \div (b * N) = q /\ pid % (b * N) = u
  <2>1. PICK x : x = b * N
    OBVIOUS
  <2>2. x \in Nat \ {0} /\ u \in 0 .. x - 1 /\ pid = q * x + u /\ q \in Nat
    BY <1>0, <1>1, <1>3, <1>8, <2>1
  <2>3. pid \div x = q /\ pid % x = u
    BY ONLY <2>2, Division
  <2> QED BY <1>0, <2>1, <2>3
<1>10. pid \in 0 .. M * N - 1
  BY <1>0, <1>1, <1>6, <1>7, <1>8
<1> QED BY <1>0, <1>2, <1>3, <1>4, <1>5, <1>7, <1>9, <1>10

-----------------------------------------------------------------------------
(* The GEMM.                                                               *)

TilesDown(l) == CeilDiv(l.m, l.tile_m)
TilesAcross(l) == CeilDiv(l.n, l.tile_n)

LEMMA GemmIs ==
  ASSUME NEW l \in Launches, Runs(l), l.kernel \in Gemms
  PROVE  /\ {l.m, l.n, l.k, l.tile_m, l.tile_n, l.band, l.group, l.stride_m, l.stride_k} \subseteq Nat \ {0}
         /\ TilesDown(l) \in Nat \ {0} /\ TilesAcross(l) \in Nat \ {0} /\ TilesDown(l) * TilesAcross(l) \in Nat
         /\ LaunchGrid(l, 1) = GemmGrid(l) /\ l.kernel # "quantize_pack" /\ l.kernel \notin Packers
         /\ Height(l) = l.m /\ Breadth(l) = l.n /\ Accepted(l)
<1>1. {l.m, l.n, l.k, l.tile_m, l.tile_n, l.band, l.group, l.stride_m, l.stride_k} \subseteq Nat \ {0}
  BY LaunchAssumption
<1>2. TilesDown(l) \in Nat \ {0} /\ TilesAcross(l) \in Nat \ {0}
  BY <1>1, CeilDivIs DEF TilesDown, TilesAcross
<1>3. l.kernel # "quantize_pack" /\ l.kernel \notin Packers
  BY DEF Gemms, Packers
<1>4. LaunchGrid(l, 1) = GemmGrid(l)
  BY <1>3 DEF LaunchGrid, Gemms, Packers
<1>5. Height(l) = l.m /\ Breadth(l) = l.n
  BY <1>3 DEF Height, Breadth, Gemms
<1>6. Accepted(l)
  BY DEF Runs
<1>7. TilesDown(l) * TilesAcross(l) \in Nat
  BY ONLY <1>2
<1> QED BY <1>1, <1>2, <1>3, <1>4, <1>5, <1>6, <1>7

LEMMA Remains ==
  ASSUME NEW d \in Nat \ {0}, NEW r \in 0 .. d - 1
  PROVE  r % d = r
<1>1. 0 \in Nat /\ r = 0 * d + r
  OBVIOUS
<1> QED BY <1>1, Division

\* The program of tile i, j.
PidOf(l, i, j) ==
  LET q == i \div l.band
      r == Smaller(TilesDown(l) - q * l.band, l.band)
      s == q * (l.band * TilesAcross(l))
  IN s + (j * r + Turn(s, r, i - q * l.band))

LEMMA TileOfIs ==
  ASSUME NEW l, NEW pid, NEW q, q = pid \div (l.band * TilesAcross(l)),
         NEW r, r = Smaller(TilesDown(l) - q * l.band, l.band)
  PROVE  TileOf(l, pid) = <<q * l.band + (pid % r), (pid % (l.band * TilesAcross(l))) \div r>>
BY DEF TileOf, BandRows, TilesDown, TilesAcross

LEMMA PidTile ==
  ASSUME NEW l \in Launches, Runs(l), l.kernel \in Gemms,
         NEW i \in 0 .. TilesDown(l) - 1, NEW j \in 0 .. TilesAcross(l) - 1
  PROVE  PidOf(l, i, j) \in 0 .. TilesDown(l) * TilesAcross(l) - 1 /\ TileOf(l, PidOf(l, i, j)) = <<i, j>>
<1>1. PICK M, N, b : M = TilesDown(l) /\ N = TilesAcross(l) /\ b = l.band
  OBVIOUS
<1>2. M \in Nat \ {0} /\ N \in Nat \ {0} /\ b \in Nat \ {0} /\ i \in 0 .. M - 1 /\ j \in 0 .. N - 1
  BY <1>1, GemmIs
<1>3. PICK q, s, r : q = i \div b /\ s = q * (b * N) /\ r = Smaller(M - q * b, b)
  OBVIOUS
<1>4. PICK v, pid : v = Turn(s, r, i - q * b) /\ pid = s + (j * r + v)
  OBVIOUS
<1>5. pid = PidOf(l, i, j)
  BY <1>1, <1>3, <1>4 DEF PidOf
<1>6. r \in Nat \ {0} /\ q \in Nat /\ i - q * b \in 0 .. r - 1 /\ q * b \in Nat /\ s \in Nat
  <2>1. q \in Nat /\ q * b \in Nat /\ q * b <= i
    <3>0. i \in Nat
      BY <1>2
    <3>1. q \in Nat /\ i % b \in 0 .. b - 1 /\ i = q * b + (i % b)
      BY ONLY <1>2, <1>3, <3>0, Modulo
    <3>2. q * b \in Nat
      BY <1>2, <3>1, Multiply
    <3> QED BY <1>2, <3>0, <3>1, <3>2
  <2>2. 0 \in 0 .. r - 1
    <3>1. r \in Nat \ {0}
      BY <1>2, <1>3, <2>1 DEF Smaller
    <3> QED BY <3>1
  <2>3. PICK x : x = q * (b * N) + (j * r + 0)
    OBVIOUS
  <2>4. q = i \div b /\ r = Smaller(M - q * b, b)
    BY <1>3
  <2>5. r \in Nat \ {0} /\ q \in Nat /\ i - q * b \in 0 .. r - 1 /\ q * b \in Nat /\ q * (b * N) \in Nat
    <3>1. OfBand(M, N, b, i, j, q, r, 0, x)
      BY <1>2, <2>2, <2>3, <2>4 DEF OfBand
    <3> QED BY <3>1, BandJoin
  <2> QED BY <1>3, <2>5
<1>7. v \in 0 .. r - 1 /\ (s + v) % r = i - q * b
  BY <1>4, <1>6, Turned
<1>8. pid \in 0 .. M * N - 1 /\ pid \div (b * N) = q /\ pid % (b * N) = j * r + v
  <2>1. q = i \div b /\ r = Smaller(M - q * b, b) /\ pid = q * (b * N) + (j * r + v) /\ v \in 0 .. r - 1
    BY <1>3, <1>4, <1>7
  <2>2. OfBand(M, N, b, i, j, q, r, v, pid)
    BY <1>2, <2>1 DEF OfBand
  <2> QED BY <2>2, BandJoin
<1>9. (j * r + v) \div r = j
  <2>1. PICK x : x = j * r + v
    OBVIOUS
  <2>2. j \in Nat
    BY <1>2
  <2>3. x \div r = j
    BY ONLY <1>6, <1>7, <2>1, <2>2, Division
  <2> QED BY <2>1, <2>3
<1>10. pid % r = i - q * b
  <2>1. j \in Nat /\ pid = s + (j * r + v)
    BY <1>2, <1>4
  <2>2. Rolled(s, r, j, v, pid)
    BY <1>6, <1>7, <2>1 DEF Rolled
  <2>3. pid % r = (s + v) % r
    BY <2>2, RolledIs
  <2> QED BY <1>7, <2>3
<1>11. q * b + (i - q * b) = i
  BY <1>2, <1>6
<1>12. TileOf(l, pid) = <<q * b + (pid % r), (pid % (b * N)) \div r>>
  BY <1>1, <1>3, <1>8, TileOfIs
<1>13. TileOf(l, pid) = <<i, j>>
  BY <1>8, <1>9, <1>10, <1>11, <1>12
<1> QED BY <1>1, <1>5, <1>8, <1>13

LEMMA TilePid ==
  ASSUME NEW l \in Launches, Runs(l), l.kernel \in Gemms,
         NEW pid \in 0 .. TilesDown(l) * TilesAcross(l) - 1
  PROVE  /\ TileOf(l, pid) = <<TileOf(l, pid)[1], TileOf(l, pid)[2]>>
         /\ TileOf(l, pid)[1] \in 0 .. TilesDown(l) - 1 /\ TileOf(l, pid)[2] \in 0 .. TilesAcross(l) - 1
         /\ pid = PidOf(l, TileOf(l, pid)[1], TileOf(l, pid)[2])
<1>1. PICK M, N, b : M = TilesDown(l) /\ N = TilesAcross(l) /\ b = l.band
  OBVIOUS
<1>2. M \in Nat \ {0} /\ N \in Nat \ {0} /\ b \in Nat \ {0} /\ pid \in 0 .. M * N - 1
  BY <1>1, GemmIs
<1>3. PICK q, u, r : q = pid \div (b * N) /\ u = pid % (b * N) /\ r = Smaller(M - q * b, b)
  OBVIOUS
<1>4. /\ r \in Nat \ {0} /\ q \in Nat /\ q * b \in Nat /\ q * b + r <= M /\ r <= b
      /\ u \in Nat /\ u < N * r /\ pid = q * (b * N) + u
  <2>1. InBand(M, N, b, pid, q, u, r)
    BY <1>2, <1>3 DEF InBand
  <2> QED BY <2>1, BandSplit
<1>5. PICK s, j, v, z : s = q * (b * N) /\ j = u \div r /\ v = u % r /\ z = pid % r
  OBVIOUS
<1>6. s \in Nat
  BY ONLY <1>2, <1>4, <1>5
<1>7. j \in 0 .. N - 1 /\ v \in 0 .. r - 1 /\ u = j * r + v
  <2>1. N * r \in Nat
    BY <1>2, <1>4, Multiply
  <2>2. u \in 0 .. N * r - 1 /\ N \in Nat
    BY <1>2, <1>4, <2>1
  <2>3. u \div r \in 0 .. N - 1 /\ u % r \in 0 .. r - 1 /\ u = (u \div r) * r + (u % r)
    BY ONLY <1>4, <2>2, Without
  <2> QED BY <1>5, <2>3
<1>8. z = (s + v) % r
  <2>1. j \in Nat /\ pid = s + (j * r + v)
    BY <1>2, <1>4, <1>5, <1>7
  <2>2. Rolled(s, r, j, v, pid)
    BY <1>4, <1>6, <1>7, <2>1 DEF Rolled
  <2>3. pid % r = (s + v) % r
    BY <2>2, RolledIs
  <2> QED BY <1>5, <2>3
<1>9. z \in 0 .. r - 1 /\ v = Turn(s, r, z)
  BY <1>4, <1>6, <1>7, <1>8, Turned
<1>10. PICK i, f : i = f + z /\ f = q * b
  OBVIOUS
<1>11. i \in 0 .. M - 1 /\ i - f = z /\ z \in 0 .. b - 1
  BY <1>2, <1>4, <1>9, <1>10
<1>12. i \div b = q
  BY <1>2, <1>4, <1>10, <1>11, Division
<1>13. TileOf(l, pid) = <<i, j>>
  BY <1>1, <1>3, <1>5, <1>10, TileOfIs
<1>14. PidOf(l, i, j) = s + (j * r + v)
  BY <1>1, <1>3, <1>5, <1>9, <1>10, <1>11, <1>12 DEF PidOf
<1>15. pid = s + (j * r + v)
  BY <1>4, <1>5, <1>7
<1> QED BY <1>1, <1>7, <1>11, <1>13, <1>14, <1>15

\* A row within the sizes is read where it is, and the groups part K.
LEMMA ProductIs ==
  ASSUME NEW l \in Launches, Runs(l), l.kernel \in Gemms, NEW r \in 0 .. l.m - 1, NEW c
  PROVE  Product(l, r, c) =
           Value("product", <<r, c>>,
                 [g \in 0 .. CeilDiv(l.k, l.group) - 1 |-> <<{kk \in 0 .. l.k - 1 : kk \div l.group = g}, g>>])
<1>0. /\ l.m \in Nat \ {0} /\ l.k \in Nat \ {0} /\ l.group \in Nat \ {0}
      /\ l.stride_m \in Nat \ {0} /\ l.stride_k \in Nat \ {0} /\ Accepted(l)
  BY GemmIs
<1>1. ASSUME NEW kk \in Interval(0, l.k) PROVE Fits(r * l.stride_m + kk * l.stride_k)
  <2>1. kk \in 0 .. l.k - 1 /\ kk \in Nat /\ r \in Nat
    BY <1>0 DEF Interval
  <2>2. PICK a, b, c1, d : /\ a = r * l.stride_m /\ b = kk * l.stride_k
                           /\ c1 = (l.m - 1) * l.stride_m /\ d = (l.k - 1) * l.stride_k
    OBVIOUS
  <2>3. a \in Nat /\ c1 \in Nat /\ a <= c1
    <3>1. l.m - 1 \in Nat /\ r <= l.m - 1
      BY <1>0
    <3> QED BY <1>0, <2>1, <2>2, <3>1, Multiply
  <2>4. b \in Nat /\ d \in Nat /\ b <= d
    <3>1. l.k - 1 \in Nat /\ kk <= l.k - 1
      BY <1>0, <2>1
    <3> QED BY <1>0, <2>1, <2>2, <3>1, Multiply
  <2>5. PICK e : e = 2 ^ (OffsetBits - 1)
    OBVIOUS
  <2>6. c1 + d <= e - 1 /\ e \in Nat
    BY <1>0, <2>2, <2>5, LaunchSizes DEF Accepted
  <2>7. a + b \in Nat /\ a + b < e
    BY <2>3, <2>4, <2>6
  <2>8. Wrap(a + b) = a + b
    BY <2>5, <2>7, WrapIs
  <2> QED BY <2>2, <2>8 DEF Fits
<1>2. RowOf(l, r) = r
  BY <1>1 DEF RowOf
<1>3. CeilDiv(l.k, l.group) \in Nat
  BY <1>0, CeilDivIs
<1>4. Groups(l) = 0 .. CeilDiv(l.k, l.group) - 1
  BY <1>3 DEF Groups, Interval
<1>5. ASSUME NEW g \in Groups(l)
      PROVE  Partial(l, g) = <<{kk \in 0 .. l.k - 1 : kk \div l.group = g}, g>>
  <2>1. g \in Nat /\ l.k \in Nat
    BY <1>0, <1>3, <1>4
  <2>2. /\ Taken(g, l.group, l.k) \subseteq 0 .. l.k - 1
        /\ \A kk \in 0 .. l.k - 1 : kk \in Taken(g, l.group, l.k) <=> kk \div l.group = g
    BY <1>0, <2>1, TakenIs
  <2>3. Taken(g, l.group, l.k) = {kk \in 0 .. l.k - 1 : kk \div l.group = g}
    BY <2>2
  <2>4. Partial(l, g) = <<Taken(g, l.group, l.k), g>>
    BY DEF Partial, Taken
  <2> QED BY <2>3, <2>4
<1>6. [g \in Groups(l) |-> Partial(l, g)]
        = [g \in 0 .. CeilDiv(l.k, l.group) - 1 |-> <<{kk \in 0 .. l.k - 1 : kk \div l.group = g}, g>>]
  BY <1>4, <1>5
<1> QED BY <1>2, <1>6 DEF Product

GemmWriter(l) ==
  [x \in Addresses(l) |-> <<1, <<PidOf(l, RowAt(l, x) \div l.tile_m, ColAt(l, x) \div l.tile_n), 0>>>>]

\* The tile of an element.
LEMMA TileAt ==
  ASSUME NEW l \in Launches, Runs(l), l.kernel \in Gemms, NEW x \in Addresses(l)
  PROVE  /\ RowAt(l, x) \in 0 .. l.m - 1 /\ ColAt(l, x) \in 0 .. l.n - 1
         /\ RowAt(l, x) \div l.tile_m \in 0 .. TilesDown(l) - 1
         /\ ColAt(l, x) \div l.tile_n \in 0 .. TilesAcross(l) - 1
<1>1. RowAt(l, x) \in 0 .. l.m - 1 /\ ColAt(l, x) \in 0 .. l.n - 1
  BY GemmIs, CellOf
<1>2. l.m \in Nat /\ l.n \in Nat /\ l.tile_m \in Nat \ {0} /\ l.tile_n \in Nat \ {0}
  BY GemmIs
<1> QED BY <1>1, <1>2, CeilDivIs DEF TilesDown, TilesAcross

LEMMA GemmDoes ==
  ASSUME NEW l \in Launches, Runs(l), l.kernel \in Gemms, NEW p \in LaunchGrid(l, 1)
  PROVE  Does(l, 1, p, Addresses(l), GemmWriter(l))
<1> DEFINE pid == p[1]
           i == TileOf(l, pid)[1]
           j == TileOf(l, pid)[2]
           Lanes == {lane \in LanesOf(l, pid) : Inside(l, lane)}
           At(lane) == Wrap(lane[1] * l.n + lane[2])
           st == GemmStores(l, pid)
           V(lane) == IF l.kernel = "gemm" THEN Product(l, lane[1], lane[2])
                      ELSE Product(l, lane[1] % l.m, lane[2] % l.n)
<1>0. /\ {l.m, l.n, l.tile_m, l.tile_n} \subseteq Nat \ {0}
      /\ TilesDown(l) \in Nat \ {0} /\ TilesAcross(l) \in Nat \ {0} /\ TilesDown(l) * TilesAcross(l) \in Nat
      /\ LaunchGrid(l, 1) = GemmGrid(l) /\ Height(l) = l.m /\ Breadth(l) = l.n
  BY GemmIs
<1>1. p = <<pid, 0>> /\ pid \in 0 .. TilesDown(l) * TilesAcross(l) - 1
  BY <1>0 DEF GemmGrid, Interval, TilesDown, TilesAcross
<1>2. /\ i \in 0 .. TilesDown(l) - 1 /\ j \in 0 .. TilesAcross(l) - 1 /\ pid = PidOf(l, i, j)
      /\ i \in Nat /\ j \in Nat
  BY <1>0, <1>1, TilePid
<1>3. Stores(l, 1, p) = st /\ Loads(l, 1, p) = GemmLoads(l, pid)
  BY DEF Stores, Loads, Gemms, Packers
<1>4. /\ Taken(i, l.tile_m, l.m) \subseteq 0 .. l.m - 1 /\ Taken(j, l.tile_n, l.n) \subseteq 0 .. l.n - 1
      /\ \A r \in 0 .. l.m - 1 : r \in Taken(i, l.tile_m, l.m) <=> r \div l.tile_m = i
      /\ \A c \in 0 .. l.n - 1 : c \in Taken(j, l.tile_n, l.n) <=> c \div l.tile_n = j
  <2> HIDE DEF i, j
  <2>1. PICK a, b, m, n : a = l.tile_m /\ b = l.tile_n /\ m = l.m /\ n = l.n
    OBVIOUS
  <2>2. {a, b} \subseteq Nat \ {0} /\ m \in Nat /\ n \in Nat /\ i \in Nat /\ j \in Nat
    BY <1>0, <1>2, <2>1
  <2>3. /\ Taken(i, a, m) \subseteq 0 .. m - 1 /\ Taken(j, b, n) \subseteq 0 .. n - 1
        /\ \A r \in 0 .. m - 1 : r \in Taken(i, a, m) <=> r \div a = i
        /\ \A c \in 0 .. n - 1 : c \in Taken(j, b, n) <=> c \div b = j
    BY ONLY <2>2, TakenIs
  <2> QED BY <2>1, <2>3
<1>5. ASSUME NEW lane PROVE lane \in Lanes <=> lane \in Taken(i, l.tile_m, l.m) \X Taken(j, l.tile_n, l.n)
  BY DEF LanesOf, Inside, Taken
<1> HIDE DEF i, j, Lanes
<1>6. ASSUME NEW lane \in Lanes
      PROVE  /\ lane = <<lane[1], lane[2]>> /\ lane[1] \in 0 .. l.m - 1 /\ lane[2] \in 0 .. l.n - 1
             /\ lane[1] \div l.tile_m = i /\ lane[2] \div l.tile_n = j
             /\ At(lane) \in Addresses(l) /\ RowAt(l, At(lane)) = lane[1] /\ ColAt(l, At(lane)) = lane[2]
  <2>1. /\ lane = <<lane[1], lane[2]>> /\ lane[1] \in 0 .. l.m - 1 /\ lane[2] \in 0 .. l.n - 1
        /\ lane[1] \div l.tile_m = i /\ lane[2] \div l.tile_n = j
    BY <1>4, <1>5
  <2>2. At(lane) \in Addresses(l) /\ RowAt(l, At(lane)) = lane[1] /\ ColAt(l, At(lane)) = lane[2]
    BY <1>0, <2>1, CellIs
  <2> QED BY <2>1, <2>2
<1>7. DOMAIN st = {At(lane) : lane \in Lanes}
  BY DEF GemmStores, Stored, Lanes
<1>8. ASSUME NEW lane \in Lanes PROVE st[At(lane)] = V(lane)
  <2>1. \A v \in Lanes : At(v) = At(lane) => v = lane
    <3> HIDE DEF At
    <3> QED BY <1>6
  <2> QED BY <2>1 DEF GemmStores, Stored, Lanes
<1>9. ASSUME NEW lane \in Lanes PROVE V(lane) = Want(l, At(lane))
  <2>1. PICK r, c, x : r = lane[1] /\ c = lane[2] /\ x = At(lane)
    OBVIOUS
  <2>2. r \in 0 .. l.m - 1 /\ c \in 0 .. l.n - 1 /\ r % l.m = r /\ c % l.n = c
        /\ x \div l.n = r /\ x % l.n = c
    <3>1. r \in 0 .. l.m - 1 /\ c \in 0 .. l.n - 1 /\ RowAt(l, x) = r /\ ColAt(l, x) = c
      <4> HIDE DEF At
      <4> QED BY <1>6, <2>1
    <3>2. r % l.m = r /\ c % l.n = c
      BY <1>0, <3>1, Remains
    <3> QED BY <1>0, <3>1, <3>2 DEF RowAt, ColAt
  <2>3. V(lane) = Product(l, r, c)
    BY <2>1, <2>2
  <2>4. Want(l, x) = ExpectedProduct(l, x)
    BY DEF Want
  <2>5. Product(l, r, c) = ExpectedProduct(l, x)
    BY <2>2, ProductIs DEF ExpectedProduct
  <2> QED BY <2>1, <2>3, <2>4, <2>5
<1>10. ASSUME NEW x \in Addresses(l)
       PROVE  GemmWriter(l)[x] = <<1, p>> <=> RowAt(l, x) \div l.tile_m = i /\ ColAt(l, x) \div l.tile_n = j
  <2>1. PICK a, b : a = RowAt(l, x) \div l.tile_m /\ b = ColAt(l, x) \div l.tile_n
    OBVIOUS
  <2>2. a \in 0 .. TilesDown(l) - 1 /\ b \in 0 .. TilesAcross(l) - 1
    BY <2>1, TileAt
  <2>3. TileOf(l, PidOf(l, a, b)) = <<a, b>>
    BY <2>2, PidTile
  <2>4. PidOf(l, a, b) = pid <=> a = i /\ b = j
    <3>1. ASSUME PidOf(l, a, b) = pid PROVE a = i /\ b = j
      BY <2>3, <3>1 DEF i, j
    <3> QED BY <1>2, <3>1
  <2>5. GemmWriter(l)[x] = <<1, <<PidOf(l, a, b), 0>>>>
    BY <2>1 DEF GemmWriter
  <2>6. GemmWriter(l)[x] = <<1, p>> <=> PidOf(l, a, b) = pid
    <3> HIDE DEF pid
    <3> QED BY <1>1, <2>5
  <2> QED BY <2>1, <2>4, <2>6
<1>11. ASSUME NEW x \in Addresses(l), RowAt(l, x) \div l.tile_m = i, ColAt(l, x) \div l.tile_n = j
       PROVE  x \in DOMAIN st
  <2>1. PICK lane : lane = <<RowAt(l, x), ColAt(l, x)>>
    OBVIOUS
  <2>2. RowAt(l, x) \in 0 .. l.m - 1 /\ ColAt(l, x) \in 0 .. l.n - 1
    BY TileAt
  <2>3. lane \in Lanes /\ lane[1] = RowAt(l, x) /\ lane[2] = ColAt(l, x)
    BY <1>4, <1>5, <1>11, <2>1, <2>2
  <2>4. At(lane) = x
    <3>1. x = RowAt(l, x) * l.n + ColAt(l, x) /\ Wrap(x) = x
      BY <1>0, <2>2, CellOf, CellIs
    <3> QED BY <2>3, <3>1
  <2> HIDE DEF At, st
  <2> QED BY <1>7, <2>3, <2>4
<1>12. ASSUME NEW x \in DOMAIN st
       PROVE  x \in Addresses(l) /\ RowAt(l, x) \div l.tile_m = i /\ ColAt(l, x) \div l.tile_n = j /\ st[x] = Want(l, x)
  <2>1. PICK lane \in Lanes : x = At(lane)
    <3> HIDE DEF At, st
    <3> QED BY <1>7
  <2> HIDE DEF At, st, V
  <2> QED BY <1>6, <1>8, <1>9, <2>1
<1> HIDE DEF st
<1>13. ASSUME NEW x PROVE x \in DOMAIN Stores(l, 1, p) <=> x \in Addresses(l) /\ GemmWriter(l)[x] = <<1, p>>
  BY <1>3, <1>10, <1>11, <1>12
<1>14. ASSUME NEW x \in Addresses(l), GemmWriter(l)[x] = <<1, p>> PROVE Stores(l, 1, p)[x] = Want(l, x)
  BY <1>3, <1>12, <1>13, <1>14
<1>15. ASSUME NEW row \in Loads(l, 1, p) PROVE Alive(l, row)
  <2>1. PICK lane \in LanesOf(l, pid) :
          /\ l.kernel = "gemm" => lane[1] < l.m
          /\ row = IF l.kernel = "gemm" THEN lane[1] ELSE lane[1] % l.m
    BY <1>3 DEF GemmLoads
  <2>2. lane[1] \in Interval(i * l.tile_m, l.tile_m)
    BY DEF LanesOf, i
  <2>3. i * l.tile_m \in Nat
    BY <1>0, <1>2, Multiply
  <2>4. lane[1] \in Nat
    BY <1>0, <2>2, <2>3 DEF Interval
  <2>5. row \in 0 .. l.m - 1
    <3>1. lane[1] % l.m \in 0 .. l.m - 1
      BY <1>0, <2>4, Modulo
    <3> QED BY <1>0, <2>1, <2>4, <3>1
  <2>6. row \in Interval(0, l.m)
    BY <1>0, <2>5 DEF Interval
  <2>7. l.kernel \notin Packers /\ l.kernel # "ragged" /\ l.kernel \notin {"activate", "combine"}
    BY DEF Gemms, Packers
  <2> QED BY <2>6, <2>7 DEF Alive
<1> QED BY <1>13, <1>14, <1>15 DEF Does

LEMMA GemmSound ==
  ASSUME NEW l \in Launches, Runs(l), l.kernel \in Gemms
  PROVE  Sound(l)
<1> DEFINE W == GemmWriter(l)
<1>0. LaunchGrid(l, 1) = GemmGrid(l) /\ l.kernel # "quantize_pack" /\ TilesDown(l) * TilesAcross(l) \in Nat
  BY GemmIs
<1>1. ASSUME NEW x \in Addresses(l) PROVE \E p \in LaunchGrid(l, 1) : W[x] = <<1, p>>
  <2>1. PICK q : q = PidOf(l, RowAt(l, x) \div l.tile_m, ColAt(l, x) \div l.tile_n)
    OBVIOUS
  <2>2. q \in 0 .. TilesDown(l) * TilesAcross(l) - 1
    BY <2>1, TileAt, PidTile
  <2>3. <<q, 0>> \in LaunchGrid(l, 1)
    BY <1>0, <2>2 DEF GemmGrid, Interval, TilesDown, TilesAcross
  <2> QED BY <2>1, <2>3 DEF GemmWriter
<1>2. \A p \in LaunchGrid(l, 1) : Does(l, 1, p, Addresses(l), W)
  BY GemmDoes
<1> HIDE DEF W
<1>3. Owned(l, Addresses(l), W)
  BY <1>0, <1>1, <1>2, OneStage DEF Owned
<1> QED BY <1>3, SoundIf

-----------------------------------------------------------------------------
(* The invariant.                                                          *)

LEMMA AllSound ==
  ASSUME NEW l \in Launches, Runs(l)
  PROVE  Sound(l) /\ Stages(l) \in {1, 2}
<1>1. \/ l.kernel \in Gemms
      \/ l.kernel \in {"pack", "quantize_pack", "fused", "ragged", "activate", "combine"}
  BY LaunchAssumption DEF Packers
<1>2. Sound(l)
  BY <1>1, GemmSound, PackSound, QuantizeSound, FusedSound, RaggedSound, ActivateSound, CombineSound
<1>3. Stages(l) \in {1, 2}
  BY DEF Stages
<1> QED BY <1>2, <1>3

\* The programs of launch s that have run, and the elements they stored.
Ran(s) ==
  {p \in LaunchGrid(launch, s) : s < stage \/ (s = stage /\ p \notin waiting)}
Written(x) ==
  \E s \in 1 .. Stages(launch) : \E p \in Ran(s) : x \in DOMAIN Stores(launch, s, p)
MemoryHolds ==
  /\ DOMAIN memory = Addresses(launch)
  /\ \A x \in Addresses(launch) :
       /\ Written(x) => memory[x] = [value |-> Want(launch, x), stores |-> 1]
       /\ ~Written(x) => memory[x] = [value |-> Blank(launch), stores |-> 0]
LaunchHolds ==
  /\ launch \in Launches /\ Runs(launch)
  /\ stage \in 1 .. Stages(launch) /\ waiting \subseteq LaunchGrid(launch, stage)
LoadedHolds == \A row \in loaded : Alive(launch, row)

\* The programs that have run left what they are wanted to leave, each element
\* at most once, and the others are as the call found them.
LaunchInv == LaunchHolds /\ MemoryHolds /\ LoadedHolds

LEMMA LaunchInitInv ==
  LaunchInit => LaunchInv
<1> SUFFICES ASSUME LaunchInit PROVE LaunchInv
  OBVIOUS
<1>1. LaunchHolds
  BY AllSound DEF LaunchInit, LaunchHolds
<1>2. MemoryHolds
  <2>1. ASSUME NEW x PROVE ~Written(x)
    <3>1. \A s \in 1 .. Stages(launch) : Ran(s) = {}
      BY AllSound DEF Ran, LaunchInit
    <3> QED BY <3>1 DEF Written
  <2>2. \A x \in Addresses(launch) : memory[x] = [value |-> Blank(launch), stores |-> 0]
    BY DEF LaunchInit, Blank
  <2>3. DOMAIN memory = Addresses(launch)
    BY DEF LaunchInit
  <2> QED BY <2>1, <2>2, <2>3 DEF MemoryHolds
<1>3. LoadedHolds
  BY DEF LaunchInit, LoadedHolds
<1> QED BY <1>1, <1>2, <1>3 DEF LaunchInv

\* A program leaves what it is wanted to, on elements that no other program
\* of the call stores.
LEMMA RunProgramInv ==
  ASSUME LaunchInv, NEW p \in waiting, RunProgram(p)
  PROVE  LaunchInv'
<1> DEFINE stores == Stores(launch, stage, p)
<1>1. /\ launch \in Launches /\ Runs(launch) /\ stage \in 1 .. Stages(launch)
      /\ p \in LaunchGrid(launch, stage) /\ waiting \subseteq LaunchGrid(launch, stage)
      /\ launch' = launch /\ stage' = stage /\ waiting' = waiting \ {p}
  BY DEF LaunchInv, LaunchHolds, RunProgram
<1>2. Exactly(launch) /\ Once(launch) /\ OnlyAlive(launch) /\ Stages(launch) \in {1, 2}
  BY <1>1, AllSound DEF Sound
<1>3. LaunchHolds'
  BY <1>1 DEF LaunchHolds
<1>4. \A x \in DOMAIN stores : x \in Addresses(launch) /\ stores[x] = Want(launch, x)
  BY <1>1, <1>2 DEF Exactly
<1>5. ASSUME NEW x PROVE (Written(x)' <=> (Written(x) \/ x \in DOMAIN stores))
  <2>1. ASSUME NEW s \in 1 .. Stages(launch)
        PROVE  Ran(s)' = IF s = stage THEN Ran(s) \cup {p} ELSE Ran(s)
    <3>1. Ran(s)' = {q \in LaunchGrid(launch, s) : s < stage \/ (s = stage /\ q \notin waiting \ {p})}
      BY <1>1 DEF Ran
    <3>2. s = stage => p \in LaunchGrid(launch, s)
      BY <1>1
    <3> HIDE DEF stores
    <3> QED BY ONLY <3>1, <3>2 DEF Ran
  <2> HIDE DEF stores
  <2>2. (Written(x)' <=> \E s \in 1 .. Stages(launch) : \E q \in Ran(s)' : x \in DOMAIN Stores(launch, s, q))
    BY <1>1 DEF Written
  <2>3. ASSUME Written(x) PROVE Written(x)'
    BY <2>1, <2>2, <2>3 DEF Written
  <2>4. ASSUME x \in DOMAIN stores PROVE Written(x)'
    BY <1>1, <2>1, <2>2, <2>4 DEF stores
  <2>5. ASSUME Written(x)', x \notin DOMAIN stores PROVE Written(x)
    BY <1>1, <2>1, <2>2, <2>5 DEF stores, Written
  <2> QED BY <2>3, <2>4, <2>5
<1>6. ASSUME NEW x \in DOMAIN stores PROVE ~Written(x)
  <2> SUFFICES ASSUME NEW s \in 1 .. Stages(launch), NEW q \in Ran(s),
                      x \in DOMAIN Stores(launch, s, q)
               PROVE  FALSE
    BY DEF Written
  <2>1. q \in LaunchGrid(launch, s) /\ (s = stage => q # p)
    BY <1>1 DEF Ran
  <2>2. s = stage /\ q = p
    BY <1>1, <1>2, <2>1 DEF Once
  <2> QED BY <2>1, <2>2
<1>7. MemoryHolds'
  <2>1. DOMAIN memory = Addresses(launch)
    BY DEF LaunchInv, MemoryHolds
  <2>2. memory' = [x \in DOMAIN memory \cup DOMAIN stores |->
                     IF x \notin DOMAIN stores THEN memory[x]
                     ELSE [value |-> stores[x],
                           stores |-> IF x \in DOMAIN memory THEN memory[x].stores + 1 ELSE 1]]
    BY DEF RunProgram
  <2> HIDE DEF stores
  <2>3. DOMAIN memory' = Addresses(launch)
    BY <1>4, <2>1, <2>2
  <2>4. ASSUME NEW x \in Addresses(launch)
        PROVE  /\ Written(x)' => memory'[x] = [value |-> Want(launch, x), stores |-> 1]
               /\ ~Written(x)' => memory'[x] = [value |-> Blank(launch), stores |-> 0]
    <3>1. CASE x \in DOMAIN stores
      <4>1. memory[x] = [value |-> Blank(launch), stores |-> 0]
        BY <1>6, <3>1 DEF LaunchInv, MemoryHolds
      <4>2. memory'[x] = [value |-> stores[x], stores |-> memory[x].stores + 1]
        BY <2>1, <2>2, <3>1
      <4>3. memory'[x] = [value |-> Want(launch, x), stores |-> 1]
        BY <1>4, <3>1, <4>1, <4>2
      <4> QED BY <1>5, <3>1, <4>3
    <3>2. CASE x \notin DOMAIN stores
      <4>1. memory'[x] = memory[x]
        BY <2>1, <2>2, <3>2
      <4> QED BY <1>5, <3>2, <4>1 DEF LaunchInv, MemoryHolds
    <3> QED BY <3>1, <3>2
  <2>5. Addresses(launch)' = Addresses(launch)
    BY <1>1
  <2>6. \A x : Want(launch, x)' = Want(launch, x) /\ Blank(launch)' = Blank(launch)
    BY <1>1
  <2> QED BY <1>1, <2>3, <2>4, <2>5, <2>6 DEF MemoryHolds
<1>8. LoadedHolds'
  <2>1. loaded' = loaded \cup Loads(launch, stage, p)
    BY DEF RunProgram
  <2>2. \A row \in Loads(launch, stage, p) : Alive(launch, row)
    BY <1>1, <1>2 DEF OnlyAlive
  <2>3. \A row \in loaded' : Alive(launch, row)
    BY <2>1, <2>2 DEF LaunchInv, LoadedHolds
  <2> QED BY <1>1, <2>3 DEF LoadedHolds
<1> QED BY <1>3, <1>7, <1>8 DEF LaunchInv

\* The launch before has run every program when the next one starts.
LEMMA NextLaunchInv ==
  ASSUME LaunchInv, NextLaunch
  PROVE  LaunchInv'
<1>1. /\ launch \in Launches /\ Runs(launch) /\ stage \in 1 .. Stages(launch)
      /\ waiting = {} /\ stage < Stages(launch)
      /\ launch' = launch /\ stage' = stage + 1 /\ waiting' = LaunchGrid(launch, stage')
      /\ memory' = memory /\ loaded' = loaded
  BY DEF LaunchInv, LaunchHolds, NextLaunch
<1>2. Stages(launch) \in {1, 2}
  BY <1>1, AllSound
<1>3. LaunchHolds'
  BY <1>1, <1>2 DEF LaunchHolds
<1>4. ASSUME NEW s \in 1 .. Stages(launch) PROVE Ran(s)' = Ran(s)
  <2>1. Ran(s)' = {q \in LaunchGrid(launch, s) : s < stage + 1 \/ (s = stage + 1 /\ q \notin LaunchGrid(launch, stage + 1))}
    BY <1>1 DEF Ran
  <2>2. Ran(s) = {q \in LaunchGrid(launch, s) : s < stage \/ s = stage}
    BY <1>1 DEF Ran
  <2> QED BY <1>1, <1>2, <2>1, <2>2
<1>5. \A x : (Written(x)' <=> Written(x))
  BY <1>1, <1>4 DEF Written
<1>6. MemoryHolds'
  BY <1>1, <1>5 DEF LaunchInv, MemoryHolds
<1>7. LoadedHolds'
  BY <1>1 DEF LaunchInv, LoadedHolds
<1> QED BY <1>3, <1>6, <1>7 DEF LaunchInv

LEMMA LaunchStutter ==
  ASSUME LaunchInv, UNCHANGED launch_vars
  PROVE  LaunchInv'
<1>1. /\ launch' = launch /\ stage' = stage /\ waiting' = waiting /\ memory' = memory
      /\ loaded' = loaded
  BY DEF launch_vars
<1>2. \A s : Ran(s)' = Ran(s)
  BY <1>1 DEF Ran
<1>3. \A x : (Written(x)' <=> Written(x))
  BY <1>1, <1>2 DEF Written
<1> QED BY <1>1, <1>3 DEF LaunchInv, LaunchHolds, MemoryHolds, LoadedHolds

\* LaunchInv is an invariant of a call.
THEOREM LaunchInvHolds == LaunchSpec => []LaunchInv
<1>1. LaunchInit => LaunchInv
  BY LaunchInitInv
<1>2. LaunchInv /\ [LaunchNext]_launch_vars => LaunchInv'
  BY RunProgramInv, NextLaunchInv, LaunchStutter DEF LaunchNext
<1> QED BY <1>1, <1>2, PTL DEF LaunchSpec

\* However the programs of a call interleave, no element of its output is
\* stored by two of them, and no program stores outside the buffer: whatever
\* the sizes, the routing, the mask and the width of the offsets.
THEOREM StoredAtMostOnce == LaunchSpec => []StoredOnce
<1>1. LaunchInv => StoredOnce
  BY DEF LaunchInv, MemoryHolds, StoredOnce
<1> QED BY <1>1, LaunchInvHolds, PTL

\* The programs load no row that routing excludes, no row of the padding, and
\* no row of A past its end.
THEOREM LoadsAreLive == LaunchSpec => []OnlyLiveLoaded
<1>1. ASSUME LaunchInv PROVE OnlyLiveLoaded
  <2>1. \A row \in loaded : Alive(launch, row)
    BY <1>1 DEF LaunchInv, LoadedHolds
  <2>2. launch \in Launches
    BY <1>1 DEF LaunchInv, LaunchHolds
  <2>3. CASE launch.kernel \in Packers
    BY <2>1, <2>3 DEF OnlyLiveLoaded, Alive, Packers
  <2>4. CASE launch.kernel = "ragged"
    BY <2>1, <2>2, <2>4, LaunchAssumption DEF OnlyLiveLoaded, Alive, Packers, Gemms
  <2>5. CASE launch.kernel \in {"activate", "combine"}
    BY <2>1, <2>5 DEF OnlyLiveLoaded, Alive, Packers
  <2>6. CASE launch.kernel \in Gemms
    BY <2>1, <2>6 DEF OnlyLiveLoaded, Alive, Packers, Gemms
  <2> QED BY <2>2, <2>3, <2>4, <2>5, <2>6, LaunchAssumption
<1> QED BY <1>1, LaunchInvHolds, PTL

\* When every program of every launch of a call has run, each element of the
\* output is computed from its own inputs, padding included, and none is left
\* as the buffer was unless it is to be.
THEOREM OutputsExact == LaunchSpec => []OutputExact
<1>1. ASSUME LaunchInv PROVE OutputExact
  <2> SUFFICES ASSUME Finished, NEW x \in Addresses(launch)
               PROVE  memory[x].value = Want(launch, x)
    BY DEF OutputExact, Want
  <2>1. launch \in Launches /\ Runs(launch)
    BY <1>1 DEF LaunchInv, LaunchHolds
  <2>2. Wholly(launch) /\ Stages(launch) \in {1, 2}
    BY <2>1, AllSound DEF Sound
  <2>3. CASE Written(x)
    BY <1>1, <2>3 DEF LaunchInv, MemoryHolds
  <2>4. CASE ~Written(x)
    <3>1. \A s \in 1 .. Stages(launch) : Ran(s) = LaunchGrid(launch, s)
      BY <2>2 DEF Ran, Finished
    <3>2. Want(launch, x) = Blank(launch)
      BY <2>2, <2>4, <3>1 DEF Wholly, Written
    <3> QED BY <1>1, <2>4, <3>2 DEF LaunchInv, MemoryHolds
  <2> QED BY <2>3, <2>4
<1> QED BY <1>1, LaunchInvHolds, PTL
=============================================================================
