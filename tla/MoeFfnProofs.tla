----------------------------- MODULE MoeFfnProofs -----------------------------
(***************************************************************************)
(* What the routing metadata says of any keys: the stable sort is a        *)
(* permutation, and the assignments of one expert take one run of places.  *)
(* From that: an MoE call returns every token's terms, whatever path it    *)
(* takes, and takes a native path only where it may.                       *)
(***************************************************************************)
EXTENDS MoeFfn, FiniteSetTheorems, TLAPS

-----------------------------------------------------------------------------
(* The routing of any keys.                                                *)

Keys == [Assignments -> Bins]

LEMMA SlotsType == Slots \in Nat \ {0}
<1>1. Tokens * TopK \in Nat /\ Tokens * TopK > 0
  BY SizeAssumption
<1> QED BY <1>1 DEF Slots

LEMMA AssignmentsFinite == IsFiniteSet(Assignments) /\ Cardinality(Assignments) = Slots
<1>1. IsFiniteSet(0 .. Slots - 1)
      /\ Cardinality(0 .. Slots - 1) = IF 0 > Slots - 1 THEN 0 ELSE Slots - 1 - 0 + 1
  BY SlotsType, FS_Interval
<1> QED BY <1>1, SlotsType DEF Assignments

LEMMA PartFinite ==
  ASSUME NEW S, S \subseteq Assignments
  PROVE  IsFiniteSet(S) /\ Cardinality(S) \in Nat
<1>1. S \in SUBSET Assignments
  OBVIOUS
<1>2. IsFiniteSet(S)
  BY <1>1, AssignmentsFinite, FS_Subset
<1> QED BY <1>2, FS_CardinalityType

LEMMA PartLe ==
  ASSUME NEW S, NEW T, S \subseteq T, T \subseteq Assignments
  PROVE  Cardinality(S) <= Cardinality(T) /\ (Cardinality(S) = Cardinality(T) => S = T)
<1>1. IsFiniteSet(T) /\ S \in SUBSET T
  BY PartFinite
<1>2. IsFiniteSet(S) /\ Cardinality(S) \in Nat /\ Cardinality(T) \in Nat
  BY PartFinite
<1>3. Cardinality(S) <= Cardinality(T) /\ (Cardinality(T) = Cardinality(S) => T = S)
  BY <1>1, FS_Subset
<1> QED BY <1>2, <1>3

LEMMA PartLt ==
  ASSUME NEW S, NEW T, NEW x \in T, S \subseteq T, x \notin S, T \subseteq Assignments
  PROVE  Cardinality(S) < Cardinality(T)
<1>1. Cardinality(S) <= Cardinality(T) /\ (Cardinality(S) = Cardinality(T) => S = T)
  BY PartLe
<1>2. Cardinality(S) \in Nat /\ Cardinality(T) \in Nat
  <2>1. S \subseteq Assignments
    OBVIOUS
  <2> QED BY <2>1, PartFinite
<1> QED BY <1>1, <1>2

-----------------------------------------------------------------------------
(* The stable sort.                                                        *)

Before(key, a) == {b \in Assignments : Precedes(key, b, a)}

LEMMA RankBefore ==
  ASSUME NEW key \in Keys, NEW a
  PROVE  Rank(key, a) = Cardinality(Before(key, a))
BY DEF Rank, Before, Keys

LEMMA KeyOf ==
  ASSUME NEW key \in Keys, NEW a \in Assignments
  PROVE  key[a] \in 0 .. Experts /\ key[a] \in Int /\ a \in Int
BY SizeAssumption, SlotsType DEF Keys, Bins, Assignments

LEMMA Order ==
  ASSUME NEW key \in Keys, NEW a \in Assignments, NEW b \in Assignments, a # b
  PROVE  Precedes(key, a, b) \/ Precedes(key, b, a)
BY KeyOf DEF Precedes

LEMMA RankGrows ==
  ASSUME NEW key \in Keys, NEW a \in Assignments, NEW b \in Assignments,
         Precedes(key, a, b)
  PROVE  Rank(key, a) < Rank(key, b)
<1>1. a \in Before(key, b) /\ a \notin Before(key, a)
  BY KeyOf DEF Before, Precedes
<1>2. Before(key, a) \subseteq Before(key, b)
  BY KeyOf DEF Before, Precedes
<1>3. Before(key, b) \subseteq Assignments
  BY DEF Before
<1>4. Cardinality(Before(key, a)) < Cardinality(Before(key, b))
  BY <1>1, <1>2, <1>3, PartLt
<1> QED BY <1>4, RankBefore

LEMMA RankType ==
  ASSUME NEW key \in Keys, NEW a \in Assignments
  PROVE  Rank(key, a) \in Assignments
<1>1. Before(key, a) \subseteq Assignments /\ a \notin Before(key, a)
  BY KeyOf DEF Before, Precedes
<1>2. Cardinality(Before(key, a)) \in Nat
  BY <1>1, PartFinite
<1>3. Cardinality(Before(key, a)) < Slots
  BY <1>1, PartLt, AssignmentsFinite
<1> QED BY <1>2, <1>3, RankBefore, SlotsType DEF Assignments

LEMMA RankDistinct ==
  ASSUME NEW key \in Keys, NEW a \in Assignments, NEW b \in Assignments,
         Rank(key, a) = Rank(key, b)
  PROVE  a = b
<1>1. Rank(key, a) \in Int
  BY RankType, SlotsType DEF Assignments
<1>2. ASSUME a # b PROVE FALSE
  BY <1>1, <1>2, Order, RankGrows
<1> QED BY <1>2

\* Every place of the sorted order is some assignment's.
LEMMA RankCovers ==
  ASSUME NEW key \in Keys, NEW s \in Assignments
  PROVE  \E a \in Assignments : Rank(key, a) = s
<1> DEFINE f == [a \in Assignments |-> Rank(key, a)]
<1>1. f \in [Assignments -> Assignments]
  BY RankType
<1>2. \A a, b \in Assignments : f[a] = f[b] => a = b
  BY RankDistinct
<1>3. f \in Injection(Assignments, Assignments)
  BY <1>1, <1>2 DEF Injection, IsInjective
<1>4. f \in Surjection(Assignments, Assignments)
  BY <1>3, AssignmentsFinite, FS_Injection
<1> QED BY <1>4 DEF Surjection

LEMMA SortedRank ==
  ASSUME NEW key \in Keys
  PROVE  /\ \A s \in Assignments : Sorted(key)[s] \in Assignments
                                   /\ Rank(key, Sorted(key)[s]) = s
         /\ \A a \in Assignments : Sorted(key)[Rank(key, a)] = a
<1>1. \A s \in Assignments : Sorted(key)[s] \in Assignments /\ Rank(key, Sorted(key)[s]) = s
  BY RankCovers DEF Sorted
<1>2. ASSUME NEW a \in Assignments PROVE Sorted(key)[Rank(key, a)] = a
  BY <1>1, RankType, RankDistinct
<1> QED BY <1>1, <1>2

-----------------------------------------------------------------------------
(* The runs of the experts.                                                *)

With(key, e) == {a \in Assignments : key[a] = e}
Under(key, e) == {a \in Assignments : key[a] < e}

LEMMA CountTypes ==
  ASSUME NEW key \in Keys, NEW e
  PROVE  /\ CountOf(key, e) = Cardinality(With(key, e)) /\ CountOf(key, e) \in Nat
         /\ StartOf(key, e) = Cardinality(Under(key, e)) /\ StartOf(key, e) \in Nat
         /\ CountOf(key, e) <= Slots
<1>1. With(key, e) \subseteq Assignments /\ Under(key, e) \subseteq Assignments
  BY DEF With, Under
<1>2. Cardinality(With(key, e)) <= Slots
  BY <1>1, PartLe, AssignmentsFinite
<1> QED BY <1>1, <1>2, PartFinite DEF CountOf, StartOf, With, Under

LEMMA StartNext ==
  ASSUME NEW key \in Keys, NEW e \in Int
  PROVE  StartOf(key, e + 1) = StartOf(key, e) + CountOf(key, e)
<1>1. Under(key, e + 1) = Under(key, e) \cup With(key, e)
      /\ Under(key, e) \cap With(key, e) = {}
  BY KeyOf DEF Under, With
<1>2. IsFiniteSet(Under(key, e)) /\ IsFiniteSet(With(key, e))
  BY PartFinite DEF Under, With
<1>3. Cardinality(Under(key, e) \cup With(key, e))
        = Cardinality(Under(key, e)) + Cardinality(With(key, e)) - 0
  BY <1>1, <1>2, FS_Union, FS_EmptySet
<1>4. StartOf(key, e + 1) = Cardinality(Under(key, e + 1))
  BY CountTypes
<1>5. /\ StartOf(key, e) = Cardinality(Under(key, e)) /\ StartOf(key, e) \in Nat
      /\ CountOf(key, e) = Cardinality(With(key, e)) /\ CountOf(key, e) \in Nat
  BY CountTypes
<1> QED BY <1>1, <1>3, <1>4, <1>5

LEMMA StartGrows ==
  ASSUME NEW key \in Keys, NEW d \in Int, NEW e \in Int, d <= e
  PROVE  StartOf(key, d) <= StartOf(key, e)
<1>1. Under(key, d) \subseteq Under(key, e) /\ Under(key, e) \subseteq Assignments
  BY KeyOf DEF Under
<1>2. Cardinality(Under(key, d)) <= Cardinality(Under(key, e))
  BY <1>1, PartLe
<1> QED BY <1>2, CountTypes

LEMMA RankInRun ==
  ASSUME NEW key \in Keys, NEW a \in Assignments
  PROVE  /\ StartOf(key, key[a]) <= Rank(key, a)
         /\ Rank(key, a) < StartOf(key, key[a]) + CountOf(key, key[a])
<1> DEFINE e == key[a]
<1>1. e \in Int
  BY KeyOf
<1>2. Under(key, e) \subseteq Before(key, a) /\ Before(key, a) \subseteq Assignments
  BY DEF Under, Before, Precedes
<1>3. Before(key, a) \subseteq Under(key, e + 1) /\ a \in Under(key, e + 1) /\ a \notin Before(key, a)
      /\ Under(key, e + 1) \subseteq Assignments
  BY KeyOf DEF Under, Before, Precedes
<1>4. Cardinality(Under(key, e)) <= Cardinality(Before(key, a))
  BY <1>2, PartLe
<1>5. Cardinality(Before(key, a)) < Cardinality(Under(key, e + 1))
  BY <1>3, PartLt
<1> QED BY <1>1, <1>4, <1>5, RankBefore, CountTypes, StartNext

\* An assignment's key is that of the run its place is in.
LEMMA KeyOfRun ==
  ASSUME NEW key \in Keys, NEW a \in Assignments, NEW e \in Int,
         StartOf(key, e) <= Rank(key, a), Rank(key, a) < StartOf(key, e) + CountOf(key, e)
  PROVE  key[a] = e
<1>1. key[a] \in Int
  BY KeyOf
<1>2. /\ StartOf(key, key[a]) <= Rank(key, a)
      /\ Rank(key, a) < StartOf(key, key[a]) + CountOf(key, key[a])
  BY RankInRun
<1>3. Rank(key, a) \in Int
  BY RankType, SlotsType DEF Assignments
<1>4. StartOf(key, e) \in Nat /\ StartOf(key, key[a]) \in Nat /\ StartOf(key, e + 1) \in Nat
      /\ StartOf(key, key[a] + 1) \in Nat /\ CountOf(key, e) \in Nat /\ CountOf(key, key[a]) \in Nat
  BY CountTypes
<1>5. StartOf(key, e + 1) = StartOf(key, e) + CountOf(key, e)
      /\ StartOf(key, key[a] + 1) = StartOf(key, key[a]) + CountOf(key, key[a])
  BY <1>1, StartNext
<1>6. CASE key[a] < e
  <2>1. key[a] + 1 <= e /\ key[a] + 1 \in Int
    BY <1>1, <1>6
  <2>2. StartOf(key, key[a] + 1) <= StartOf(key, e)
    BY <2>1, StartGrows
  <2> QED BY <2>2, <1>2, <1>3, <1>4, <1>5
<1>7. CASE key[a] > e
  <2>1. e + 1 <= key[a] /\ e + 1 \in Int
    BY <1>1, <1>7
  <2>2. StartOf(key, e + 1) <= StartOf(key, key[a])
    BY <2>1, <1>1, StartGrows
  <2> QED BY <2>2, <1>2, <1>3, <1>4, <1>5
<1> QED BY <1>1, <1>6, <1>7

\* The routed assignments are the sorted prefix.
LEMMA RoutedPrefix ==
  ASSUME NEW key \in Keys
  PROVE  /\ StartOf(key, Experts) = Cardinality(Routed(key)) /\ StartOf(key, Experts) \in Nat
         /\ \A a \in Assignments : a \in Routed(key) <=> Rank(key, a) < StartOf(key, Experts)
<1>1. StartOf(key, Experts) = Cardinality(Routed(key)) /\ StartOf(key, Experts) \in Nat
  BY CountTypes DEF StartOf, Routed
<1>2. ASSUME NEW a \in Assignments
      PROVE  a \in Routed(key) <=> Rank(key, a) < StartOf(key, Experts)
  <2>1. key[a] \in Int /\ key[a] <= Experts /\ Experts \in Int
    BY KeyOf, SizeAssumption
  <2>2. /\ StartOf(key, key[a]) <= Rank(key, a)
        /\ Rank(key, a) < StartOf(key, key[a]) + CountOf(key, key[a])
    BY RankInRun
  <2>3. Rank(key, a) \in Int
    BY RankType, SlotsType DEF Assignments
  <2>4. StartOf(key, key[a]) \in Nat /\ CountOf(key, key[a]) \in Nat
    BY CountTypes
  <2>5. CASE key[a] < Experts
    <3>1. key[a] + 1 <= Experts
      BY <2>1, <2>5
    <3>2. StartOf(key, key[a] + 1) <= StartOf(key, Experts)
      BY <2>1, <3>1, StartGrows
    <3>3. StartOf(key, key[a] + 1) = StartOf(key, key[a]) + CountOf(key, key[a])
      BY <2>1, StartNext
    <3> QED BY <1>1, <2>2, <2>3, <2>4, <2>5, <3>2, <3>3 DEF Routed
  <2>6. CASE key[a] = Experts
    BY <1>1, <2>1, <2>2, <2>3, <2>6 DEF Routed
  <2> QED BY <2>1, <2>5, <2>6
<1> QED BY <1>1, <1>2

LEMMA EffectiveKeys ==
  ASSUME NEW id, NEW enabled
  PROVE  EffectiveIds(id, enabled) \in Keys
BY SizeAssumption DEF EffectiveIds, Keys, Bins, InRange, ExpertSet

-----------------------------------------------------------------------------
(* The invariant.                                                          *)

\* What the host knows before it sizes the buffers.
Chosen ==
  /\ selected \in {"triton", "cutlass"} /\ capacity = 0 /\ tiled = Ragged
  /\ selected # "triton" /\ setup.backend = "auto" => AutoNative
  /\ selected # "triton" /\ setup.backend # "auto" => Explicit

Justified ==
  /\ setup.built /\ setup.bf16 /\ setup.w_aligned
  /\ setup.thor => setup.x_aligned
  /\ setup.backend = "auto" => ~setup.capturing

\* The rows launched with: enough for every expert, in a replay for any ids.
Planned ==
  IF Ragged THEN tiled /\ capacity = 0
  ELSE /\ selected = "cutlass" /\ Justified
       /\ capacity \in 1 .. RoundUp(Slots)
       /\ IF setup.capturing THEN Slots <= capacity
          ELSE \A e \in ExpertSet : CountOf(Wanted, e) <= capacity
       /\ setup.backend = "auto" => RowCount <= 2 * Cardinality(Routed(Wanted))

PlanInv ==
  /\ phase = "select" => selected = "none" /\ capacity = 0 /\ tiled = FALSE /\ call = 1
  /\ phase = "route" /\ ~setup.capturing => Chosen
  /\ phase \in {"validate", "check", "size"} => Chosen
  /\ phase = "size" /\ Explicit => ~Unsupported
  /\ phase \in {"workspace", "run"} \cup Running => Planned
  /\ phase = "workspace" => ~Ragged
  /\ phase = "route" /\ setup.capturing => Planned
  /\ phase = "ended" /\ result \in {"captured", "returned"} => Planned

Host == {"validate", "check", "size", "workspace", "run"}
Finished == phase = "ended" /\ result \in {"returned", "zeros"}
RouteInv ==
  /\ \/ phase \in Running
     \/ Finished
     \/ ~setup.capturing /\ phase \in Host
     => routes = Wanted
  /\ \/ ~setup.capturing /\ phase \in (Host \ {"validate"}) \cup Running
     \/ ~setup.capturing /\ phase = "ended" /\ result # "ValueError"
     => InvalidIds(ids, mask) = {}

Launched ==
  \/ phase \in Running
  \/ phase = "route" /\ setup.capturing
  \/ phase = "ended" /\ result \in {"captured", "returned"}
Buffers == {packed, gate_up, hidden, expert_output}
BufferInv ==
  /\ ~Launched => \A b \in Buffers : b = <<>>
  /\ Launched => \A b \in Buffers : DOMAIN b = RowSet
  /\ Launched \/ phase = "run" => RowCount <= setup.room

\* Each routed assignment's row of a buffer, after its expert's steps.
Carries(buffer, n) ==
  \A a \in Routed(routes) :
    buffer[SlotOf(a)] = Row(TokenOf(a), [i \in 1 .. n |-> routes[a]])
RowInv ==
  /\ phase = "activate" => Carries(gate_up, 1)
  /\ phase = "second" => Carries(hidden, 1)
  /\ phase = "combine" => Carries(expert_output, 2)
  /\ Finished => output = [t \in TokenSet |-> [r \in Ranks |-> Term(t * TopK + r)]]

TypeInv ==
  /\ setup \in Setups /\ ids \in [Assignments -> Ids] /\ call \in 1 .. Calls
  /\ phase \in {"select", "route", "validate", "check", "size", "workspace", "run",
                "first", "activate", "second", "combine", "ended"}
  /\ result \in {"none", "ValueError", "unsupported", "zeros", "captured", "returned"}
  /\ selected \in {"none", "triton", "cutlass"} /\ capacity \in 0 .. RoundUp(Slots)
  /\ tiled \in BOOLEAN /\ routes \in Keys

IInv == TypeInv /\ PlanInv /\ RouteInv /\ BufferInv /\ RowInv

-----------------------------------------------------------------------------
(* Arithmetic.                                                             *)

LEMMA Modulo ==
  ASSUME NEW s \in Nat, NEW d \in Nat \ {0}
  PROVE  s \div d \in Nat /\ s % d \in 0 .. d - 1 /\ s = (s \div d) * d + (s % d)
<1>1. s \div d \in Int /\ s % d \in 0 .. d - 1
  OBVIOUS
<1>2. s = d * (s \div d) + (s % d)
  OBVIOUS
<1>3. \A q \in Int, r \in 0 .. d - 1 : s = d * q + r => q >= 0 /\ d * q = q * d
  OBVIOUS
<1> QED BY <1>1, <1>2, <1>3

LEMMA Division ==
  ASSUME NEW d \in Nat \ {0}, NEW q \in Nat, NEW r \in 0 .. d - 1, NEW s, s = q * d + r
  PROVE  s \in Nat /\ s \div d = q /\ s % d = r
<1>1. s \in Nat
  <2>1. q * d \in Nat
    OBVIOUS
  <2> QED BY <2>1
<1>2. s \div d \in Nat /\ s % d \in 0 .. d - 1 /\ s = (s \div d) * d + (s % d)
  BY <1>1, Modulo
<1>3. PICK p, x : p = s \div d /\ x = s % d
  OBVIOUS
<1>4. p \in Int /\ x \in 0 .. d - 1 /\ q * d + r = p * d + x
  BY <1>2, <1>3
<1>5. q = p
  BY ONLY <1>4, d \in Nat \ {0}, q \in Nat, r \in 0 .. d - 1
<1>6. r = x
  BY <1>4, <1>5
<1> QED BY <1>1, <1>3, <1>5, <1>6

\* The place of row r of expert q among the rows of n experts.
LEMMA Within ==
  ASSUME NEW d \in Nat \ {0}, NEW n \in Nat, NEW q \in 0 .. n - 1, NEW r \in 0 .. d - 1
  PROVE  q * d + r \in 0 .. n * d - 1
<1>1. q * d \in Nat /\ n * d \in Nat
  OBVIOUS
<1>2. PICK m \in Nat : n = q + 1 + m
  <2>1. n - q - 1 \in Nat /\ n = q + 1 + (n - q - 1)
    OBVIOUS
  <2> QED BY <2>1
<1>3. (q + 1 + m) * d = q * d + d + m * d /\ m * d \in Nat
  OBVIOUS
<1> QED BY <1>1, <1>2, <1>3

LEMMA RoundUpType ==
  ASSUME NEW n \in Nat
  PROVE  RoundUp(n) \in Nat /\ n <= RoundUp(n) /\ RoundUp(n) < n + Align
<1>1. Align \in Nat \ {0} /\ n + Align - 1 \in Nat
  BY FfnAssumption
<1>2. PICK q, r : q = (n + Align - 1) \div Align /\ r = (n + Align - 1) % Align
  OBVIOUS
<1>3. q \in Nat /\ r \in 0 .. Align - 1 /\ n + Align - 1 = q * Align + r
  BY <1>1, <1>2, Modulo
<1>4. q * Align \in Nat
  BY <1>1, <1>3
<1>5. RoundUp(n) = q * Align
  BY <1>2 DEF RoundUp
<1> HIDE DEF RoundUp
<1> QED BY <1>1, <1>3, <1>4, <1>5

LEMMA Multiples ==
  ASSUME NEW d \in Nat \ {0}, NEW p \in Nat, NEW q \in Nat, p * d < q * d + d
  PROVE  p * d <= q * d
<1>1. CASE p <= q
  BY <1>1
<1>2. CASE q < p
  <2>1. PICK m \in Nat : p = q + 1 + m
    <3>1. p - q - 1 \in Nat /\ p = q + 1 + (p - q - 1)
      BY <1>2
    <3> QED BY <3>1
  <2>2. (q + 1 + m) * d = q * d + d + m * d /\ m * d \in Nat /\ q * d \in Nat
    OBVIOUS
  <2> QED BY <2>1, <2>2
<1> QED BY <1>1, <1>2

LEMMA RoundUpGrows ==
  ASSUME NEW m \in Nat, NEW n \in Nat, m <= n
  PROVE  RoundUp(m) <= RoundUp(n)
<1>1. Align \in Nat \ {0} /\ n + Align - 1 \in Nat /\ m + Align - 1 \in Nat
  BY FfnAssumption
<1>2. PICK p, q : p = (m + Align - 1) \div Align /\ q = (n + Align - 1) \div Align
  OBVIOUS
<1>3. p \in Nat /\ q \in Nat
  BY <1>1, <1>2, Modulo
<1>4. RoundUp(m) = p * Align /\ RoundUp(n) = q * Align
  BY <1>2 DEF RoundUp
<1>5. RoundUp(m) < m + Align /\ n <= RoundUp(n) /\ RoundUp(m) \in Nat /\ RoundUp(n) \in Nat
  BY RoundUpType
<1>6. p * Align < q * Align + Align
  BY <1>1, <1>4, <1>5
<1> HIDE DEF RoundUp
<1> QED BY <1>1, <1>3, <1>4, <1>6, Multiples

\* A finite set of integers that is not empty has a greatest element: the family
\* of what lies above each element has a least member.
LEMMA Greatest ==
  ASSUME NEW T, T \subseteq Int, IsFiniteSet(T), T # {}
  PROVE  Max(T) \in T /\ \A y \in T : y <= Max(T)
<1> DEFINE Above(x) == {y \in T : x < y}
           F == {Above(x) : x \in T}
           R == StrictSubsetOrdering(T)
<1>1. IsWellFoundedOn(R, FiniteSubsetsOf(T))
  BY FS_StrictSubsetOrderingWellFounded
<1>2. F \subseteq FiniteSubsetsOf(T) /\ F # {}
  <2>1. \A x \in T : Above(x) \in SUBSET T
    OBVIOUS
  <2>2. FiniteSubsetsOf(T) = SUBSET T
    BY FS_FiniteSubsetsOfFinite
  <2>3. PICK x : x \in T
    OBVIOUS
  <2>4. Above(x) \in F
    BY <2>3
  <2>5. \A U \in F : U \in SUBSET T
    <3> HIDE DEF Above
    <3> QED BY <2>1
  <2>6. F # {} /\ F \subseteq SUBSET T
    <3> HIDE DEF F
    <3> QED BY <2>4, <2>5
  <2> QED BY <2>2, <2>6
<1>3. \E U \in F : \A V \in F : ~ (<<V, U>> \in R)
  <2> HIDE DEF F, R
  <2> QED BY <1>1, <1>2, WFMin
<1>4. PICK x \in T : \A y \in T : <<Above(y), Above(x)>> \notin R
  <2>1. PICK U \in F : \A V \in F : <<V, U>> \notin R
    BY <1>3
  <2>2. PICK x \in T : U = Above(x)
    BY <2>1
  <2>3. \A y \in T : Above(y) \in F
    OBVIOUS
  <2>4. \A y \in T : <<Above(y), U>> \notin R
    <3> HIDE DEF F, R, Above
    <3> QED BY <2>1, <2>3
  <2>5. \A y \in T : <<Above(y), Above(x)>> \notin R
    BY ONLY <2>2, <2>4
  <2> QED BY ONLY <2>2, <2>5
<1>5. ASSUME NEW y \in T, x < y PROVE FALSE
  <2>1. Above(y) \subseteq Above(x)
    <3>1. \A z \in T : y < z => x < z
      <4>1. x \in Int /\ y \in Int /\ \A z \in T : z \in Int
        OBVIOUS
      <4> QED BY <4>1, <1>5
    <3> QED BY <3>1
  <2>2. y \in Above(x) /\ y \notin Above(y)
    BY <1>5
  <2>3. Above(y) \in SUBSET T /\ Above(x) \in SUBSET T /\ Above(y) # Above(x)
    BY <2>2
  <2>4. <<Above(y), Above(x)>> \in R
    BY <2>1, <2>3 DEF StrictSubsetOrdering
  <2> QED BY <2>4, <1>4
<1>6. \A y \in T : x >= y
  BY <1>5
<1>7. Max(T) \in T /\ \A y \in T : Max(T) >= y
  BY <1>6 DEF Max
<1> QED BY <1>7

LEMMA CountsBounded ==
  ASSUME NEW key \in Keys
  PROVE  LET m == Max({CountOf(key, e) : e \in ExpertSet})
         IN  m \in 0 .. Slots /\ \A e \in ExpertSet : CountOf(key, e) <= m
<1> DEFINE T == {CountOf(key, e) : e \in ExpertSet}
<1>1. \A e \in ExpertSet : CountOf(key, e) \in 0 .. Slots
  BY CountTypes, SlotsType
<1>2. T \subseteq 0 .. Slots
  BY <1>1
<1>3. IsFiniteSet(T)
  <2>1. IsFiniteSet(0 .. Slots)
    BY SlotsType, FS_Interval
  <2>2. T \in SUBSET (0 .. Slots)
    BY <1>2
  <2> QED BY <2>1, <2>2, FS_Subset
<1>4. T # {}
  <2>1. 0 \in ExpertSet
    BY SizeAssumption DEF ExpertSet
  <2>2. CountOf(key, 0) \in T
    BY <2>1
  <2> QED BY <2>2
<1>5. \A e \in ExpertSet : CountOf(key, e) \in T
  OBVIOUS
<1>6. T \subseteq Int
  BY <1>2
<1> HIDE DEF T
<1>7. Max(T) \in T /\ \A y \in T : y <= Max(T)
  BY <1>3, <1>4, <1>6, Greatest
<1> QED BY <1>2, <1>5, <1>7 DEF T

-----------------------------------------------------------------------------
(* Where the rows are.                                                     *)

Fits ==
  IF Ragged THEN capacity = 0
  ELSE capacity \in Nat \ {0} /\ \A e \in ExpertSet : CountOf(routes, e) <= capacity

\* The row where combine looks for an assignment is live and is that assignment's.
LEMMA SlotOk ==
  ASSUME routes \in Keys, Fits, NEW a \in Routed(routes)
  PROVE  /\ SlotOf(a) \in RowSet /\ Live(SlotOf(a)) /\ AssignmentAt(SlotOf(a)) = a
         /\ ~Ragged => Expert(SlotOf(a)) = routes[a]
<1>1. a \in Assignments /\ routes[a] \in ExpertSet
  BY KeyOf, SizeAssumption DEF Routed, ExpertSet
<1>2. Rank(routes, a) \in Assignments /\ Sorted(routes)[Rank(routes, a)] = a
  BY <1>1, RankType, SortedRank
<1>3. CASE Ragged
  <2>1. SlotOf(a) = Rank(routes, a)
    BY <1>3 DEF Fits, SlotOf
  <2>2. Rank(routes, a) < StartOf(routes, Experts)
    BY <1>1, RoutedPrefix
  <2> QED BY <1>2, <1>3, <2>1, <2>2 DEF RowSet, RowCount, Live, AssignmentAt, Assignments
<1>4. CASE ~Ragged
  <2> DEFINE e == routes[a]
             off == Rank(routes, a) - StartOf(routes, e)
  <2>1. capacity \in Nat \ {0} /\ CountOf(routes, e) <= capacity /\ e \in 0 .. Experts - 1
        /\ Experts \in Nat /\ e \in Nat
    BY <1>1, <1>4, SizeAssumption DEF Fits, ExpertSet
  <2>2. StartOf(routes, e) <= Rank(routes, a)
        /\ Rank(routes, a) < StartOf(routes, e) + CountOf(routes, e)
    BY <1>1, RankInRun
  <2>3. StartOf(routes, e) \in Nat /\ CountOf(routes, e) \in Nat
    BY CountTypes
  <2>4. Rank(routes, a) \in Nat
    BY <1>2, SlotsType DEF Assignments
  <2>5. off \in 0 .. capacity - 1 /\ off < CountOf(routes, e)
    BY <2>1, <2>2, <2>3, <2>4
  <2>6. SlotOf(a) = e * capacity + Rank(routes, a) - StartOf(routes, e)
    BY <2>1 DEF SlotOf
  <2>7. e * capacity \in Nat
    BY <2>1
  <2>8. SlotOf(a) = e * capacity + off
    <3> HIDE DEF e
    <3> QED BY <2>3, <2>4, <2>6, <2>7
  <2>9. Rank(routes, a) = StartOf(routes, e) + off
    BY <2>3, <2>4
  <2> HIDE DEF e, off
  <2>10. SlotOf(a) \in Nat /\ SlotOf(a) \div capacity = e /\ SlotOf(a) % capacity = off
    BY <2>1, <2>5, <2>8, Division
  <2>11. SlotOf(a) \in 0 .. Experts * capacity - 1
    BY <2>1, <2>5, <2>8, Within
  <2>12. Expert(SlotOf(a)) = e /\ Local(SlotOf(a)) = off
    BY <2>10 DEF Expert, Local
  <2>13. Live(SlotOf(a)) /\ AssignmentAt(SlotOf(a)) = a
    BY <1>2, <1>4, <2>5, <2>9, <2>12 DEF Live, AssignmentAt
  <2>14. RowSet = 0 .. Experts * capacity - 1
    BY <1>4 DEF RowSet, RowCount
  <2> QED BY <2>11, <2>12, <2>13, <2>14 DEF e
<1> QED BY <1>3, <1>4

-----------------------------------------------------------------------------
(* The host's steps.                                                       *)

LEMMA InitOk == Init => IInv
<1> SUFFICES ASSUME Init PROVE IInv
  OBVIOUS
<1>1. TypeInv
  <2>1. RoundUp(Slots) \in Nat
    BY SlotsType, RoundUpType
  <2>2. routes \in Keys
    BY SizeAssumption DEF Init, Keys, Bins
  <2>3. ids \in [Assignments -> Ids]
    BY DEF Init, Inputs
  <2>4. Calls \in Nat \ {0}
    BY FfnAssumption
  <2>5. call \in 1 .. Calls
    BY <2>4 DEF Init
  <2>6. capacity \in 0 .. RoundUp(Slots)
    BY <2>1 DEF Init
  <2>7. setup \in Setups /\ phase = "select" /\ result = "none" /\ selected = "none" /\ tiled = FALSE
    BY DEF Init
  <2> QED BY <2>2, <2>3, <2>5, <2>6, <2>7 DEF TypeInv
<1>2. PlanInv
  BY DEF Init, PlanInv, Running
<1>3. RouteInv
  BY DEF Init, RouteInv, Finished, Host, Running
<1>4. BufferInv
  BY DEF Init, BufferInv, Launched, Buffers, Running
<1>5. RowInv
  BY DEF Init, RowInv, Finished
<1> QED BY <1>1, <1>2, <1>3, <1>4, <1>5 DEF IInv

LEMMA SelectOk == IInv /\ Select => IInv'
<1> SUFFICES ASSUME IInv, Select PROVE IInv'
  OBVIOUS
<1> USE DEF inputs, rows
<1>1. setup.backend \in {"auto", "triton", "cutlass"}
  BY SetupAssumption DEF IInv, TypeInv, AllSetups
<1>2. TypeInv'
  BY <1>1 DEF IInv, TypeInv, Select
<1>3. PlanInv'
  BY <1>1 DEF IInv, TypeInv, PlanInv, Select, Chosen, Explicit, AutoNative, Ragged, Running
<1>4. RouteInv'
  BY DEF Select, RouteInv, Finished, Host, Running
<1>5. BufferInv'
  BY DEF IInv, PlanInv, Select, BufferInv, Launched, Buffers, Running
<1>6. RowInv'
  BY DEF Select, RowInv, Finished
<1> QED BY <1>2, <1>3, <1>4, <1>5, <1>6 DEF IInv

LEMMA ValidateOk == IInv /\ Validate => IInv'
<1> SUFFICES ASSUME IInv, Validate PROVE IInv'
  OBVIOUS
<1> USE DEF inputs, plan, rows, End
<1>1. TypeInv'
  BY DEF IInv, TypeInv, Validate
<1>2. PlanInv'
  BY DEF IInv, PlanInv, Validate, Chosen, Explicit, AutoNative, Ragged, Running
<1>3. RouteInv'
  BY DEF IInv, RouteInv, Validate, AnyInvalid, Finished, Host, Running, Wanted
<1>4. BufferInv'
  BY DEF IInv, PlanInv, Validate, BufferInv, Launched, Buffers, Running
<1>5. RowInv'
  BY DEF Validate, RowInv, Finished
<1> QED BY <1>1, <1>2, <1>3, <1>4, <1>5 DEF IInv

LEMMA CheckExplicitOk == IInv /\ CheckExplicit => IInv'
<1> SUFFICES ASSUME IInv, CheckExplicit PROVE IInv'
  OBVIOUS
<1> USE DEF inputs, plan, rows, End
<1>1. TypeInv'
  BY DEF IInv, TypeInv, CheckExplicit
<1>2. PlanInv'
  BY DEF IInv, PlanInv, CheckExplicit, Chosen, Explicit, Unsupported, AutoNative, Ragged, Running
<1>3. RouteInv'
  BY DEF IInv, RouteInv, CheckExplicit, Finished, Host, Running, Wanted
<1>4. BufferInv'
  BY DEF IInv, CheckExplicit, BufferInv, Launched, Buffers, Running
<1>5. RowInv'
  BY DEF CheckExplicit, RowInv, Finished
<1> QED BY <1>1, <1>2, <1>3, <1>4, <1>5 DEF IInv

LEMMA CheckWorkspaceOk == IInv /\ CheckWorkspace => IInv'
<1> SUFFICES ASSUME IInv, CheckWorkspace PROVE IInv'
  OBVIOUS
<1> USE DEF inputs, plan, rows, End
<1>1. TypeInv'
  BY DEF IInv, TypeInv, CheckWorkspace
<1>2. Planned /\ (Planned <=> Planned')
  BY DEF IInv, PlanInv, CheckWorkspace, Planned, Justified, Ragged, RowCount, Wanted
<1>3. PlanInv'
  BY <1>2 DEF CheckWorkspace, PlanInv, Running
<1>4. RouteInv'
  BY DEF IInv, RouteInv, CheckWorkspace, Finished, Host, Running, Wanted
<1>5. RowCount' = RowCount /\ RowCount \in Int /\ setup.room \in Int
  <2>1. capacity \in Int /\ Experts \in Int /\ Slots \in Int
    BY SizeAssumption, SlotsType, RoundUpType DEF IInv, TypeInv
  <2>2. setup.room \in Nat
    BY SetupAssumption, FfnAssumption DEF IInv, TypeInv, AllSetups
  <2> QED BY <2>1, <2>2 DEF CheckWorkspace, RowCount, Ragged
<1>6. BufferInv'
  BY <1>5 DEF IInv, CheckWorkspace, WorkspaceTooLarge, BufferInv, Launched, Buffers, Running
<1>7. RowInv'
  BY DEF CheckWorkspace, RowInv, Finished
<1> QED BY <1>1, <1>3, <1>4, <1>6, <1>7 DEF IInv

LEMMA ReplayOk == IInv /\ Replay => IInv'
<1> SUFFICES ASSUME IInv, Replay PROVE IInv'
  OBVIOUS
<1> USE DEF plan, rows
<1>1. TypeInv'
  BY FfnAssumption DEF IInv, TypeInv, Replay, Inputs
<1>2. Planned /\ setup.capturing
  BY DEF IInv, PlanInv, Replay
<1>3. Planned'
  BY <1>2 DEF Replay, Planned, Justified, Ragged
<1>4. PlanInv'
  BY <1>2, <1>3 DEF Replay, PlanInv, Running
<1>5. RouteInv'
  BY <1>2 DEF Replay, RouteInv, Finished, Host, Running
<1>6. BufferInv'
  BY <1>2 DEF IInv, Replay, BufferInv, Launched, Buffers, Running, RowSet, RowCount, Ragged
<1>7. RowInv'
  BY DEF Replay, RowInv, Finished
<1> QED BY <1>1, <1>4, <1>5, <1>6, <1>7 DEF IInv

\* The rows of a native launch are enough.
LEMMA MaximumOk ==
  ASSUME routes \in Keys
  PROVE  /\ Maximum \in 0 .. Slots
         /\ \A e \in ExpertSet : CountOf(routes, e) \in Nat /\ CountOf(routes, e) <= Maximum
         /\ RoundUp(Maximum) \in 0 .. RoundUp(Slots) /\ Maximum <= RoundUp(Maximum)
<1>1. Maximum \in 0 .. Slots /\ \A e \in ExpertSet : CountOf(routes, e) <= Maximum
  BY CountsBounded DEF Maximum
<1>2. \A e \in ExpertSet : CountOf(routes, e) \in Nat
  BY CountTypes
<1>3. Maximum \in Nat /\ Slots \in Nat /\ Maximum <= Slots
  BY <1>1, SlotsType
<1>4. RoundUp(Maximum) \in Nat /\ Maximum <= RoundUp(Maximum)
  BY <1>3, RoundUpType
<1>5. RoundUp(Maximum) <= RoundUp(Slots) /\ RoundUp(Slots) \in Nat
  BY <1>3, RoundUpGrows, RoundUpType
<1> QED BY <1>1, <1>2, <1>4, <1>5

LEMMA NothingRouted ==
  ASSUME routes \in Keys, Maximum = 0
  PROVE  Routed(routes) = {}
<1> SUFFICES ASSUME NEW a \in Routed(routes) PROVE FALSE
  OBVIOUS
<1>1. a \in Assignments /\ routes[a] \in ExpertSet
  BY KeyOf, SizeAssumption DEF Routed, ExpertSet
<1>2. CountOf(routes, routes[a]) = 0
  BY <1>1, MaximumOk
<1>3. StartOf(routes, routes[a]) <= Rank(routes, a)
      /\ Rank(routes, a) < StartOf(routes, routes[a]) + CountOf(routes, routes[a])
  BY <1>1, RankInRun
<1>4. StartOf(routes, routes[a]) \in Nat /\ Rank(routes, a) \in Nat
  BY <1>1, CountTypes, RankType, SlotsType DEF Assignments
<1> QED BY <1>2, <1>3, <1>4

\* With the sizes of the rows known, the four ways a call goes on.
LEMMA SizeOk == IInv /\ Size => IInv'
<1> SUFFICES ASSUME IInv, Size PROVE IInv'
  OBVIOUS
<1>1. /\ Chosen /\ (Explicit => ~Unsupported) /\ routes \in Keys /\ phase = "size"
      /\ \A b \in Buffers : b = <<>>
      /\ ~setup.capturing => routes = Wanted /\ InvalidIds(ids, mask) = {}
      /\ setup \in AllSetups
  BY SetupAssumption DEF IInv, TypeInv, PlanInv, RouteInv, BufferInv, Launched, Size, Host, Running
<1>2. UNCHANGED <<setup, ids, mask, call, routes, packed, gate_up, hidden, expert_output>>
  BY DEF Size, inputs, rows
<1>3. TypeInv'
  <2>1. RoundUp(Maximum) \in 0 .. RoundUp(Slots) /\ CapturedRows \in 0 .. RoundUp(Slots)
    BY <1>1, MaximumOk, RoundUpType, SlotsType DEF CapturedRows
  <2> HIDE DEF CapturedRows
  <2> QED BY <1>2, <2>1 DEF IInv, TypeInv, Size, plan, End
<1>4. Unsupported \/ (setup.built /\ setup.bf16 /\ setup.w_aligned /\ (setup.thor => setup.x_aligned))
  BY DEF Unsupported
<1>5. ~Ragged => selected = "cutlass" /\ Justified
  BY <1>1, <1>4 DEF Chosen, Ragged, Justified, AutoNative, Explicit
<1>6. CASE selected = "triton"
  <2>1. phase' = "run" /\ UNCHANGED <<plan, result, output>>
    BY <1>6 DEF Size
  <2>2. Planned' /\ Ragged'
    BY <1>1, <1>6, <2>1 DEF Chosen, Planned, Ragged, plan
  <2>3. RowCount' <= setup'.room
    BY <1>1, <1>2, <2>2, FfnAssumption DEF AllSetups, RowCount
  <2>4. PlanInv' /\ RouteInv' /\ RowInv'
    BY <1>1, <1>2, <2>1, <2>2 DEF PlanInv, RouteInv, RowInv, Finished, Running, Host, Wanted
  <2>5. BufferInv'
    BY <1>1, <1>2, <2>1, <2>3 DEF BufferInv, Launched, Buffers, Running
  <2> QED BY <1>3, <2>4, <2>5 DEF IInv
<1>7. CASE selected # "triton" /\ setup.capturing
  <2>1. capacity' = CapturedRows /\ phase' = "workspace" /\ UNCHANGED <<selected, tiled, result, output>>
    BY <1>7 DEF Size
  <2>2. CapturedRows \in 1 .. RoundUp(Slots) /\ Slots <= CapturedRows
    BY SlotsType, RoundUpType DEF CapturedRows
  <2>3. Planned' /\ ~Ragged'
    <3> HIDE DEF CapturedRows
    <3> QED BY <1>2, <1>5, <1>7, <2>1, <2>2 DEF Planned, Ragged, Justified
  <2>4. PlanInv' /\ RouteInv' /\ RowInv'
    BY <1>1, <1>2, <1>7, <2>1, <2>3 DEF PlanInv, RouteInv, RowInv, Finished, Running, Host, Wanted
  <2>5. BufferInv'
    BY <1>1, <1>2, <2>1 DEF BufferInv, Launched, Buffers, Running
  <2> QED BY <1>3, <2>4, <2>5 DEF IInv
<1>8. CASE selected # "triton" /\ ~setup.capturing /\ Maximum = 0
  <2>1. /\ output' = [t \in TokenSet |-> [r \in Ranks |-> NoTerm]]
        /\ phase' = "ended" /\ result' = "zeros" /\ UNCHANGED plan
    BY <1>8 DEF Size, End
  <2>2. Routed(Wanted') = {}
    BY <1>1, <1>2, <1>8, NothingRouted DEF Wanted
  <2>3. RowInv'
    BY <2>1, <2>2 DEF RowInv, Term
  <2>4. PlanInv' /\ RouteInv'
    BY <1>1, <1>2, <1>8, <2>1 DEF PlanInv, RouteInv, Finished, Running, Host, Wanted
  <2>5. BufferInv'
    BY <1>1, <1>2, <2>1 DEF BufferInv, Launched, Buffers, Running
  <2> QED BY <1>3, <2>3, <2>4, <2>5 DEF IInv
<1>9. CASE selected # "triton" /\ ~setup.capturing /\ Maximum # 0
  <2>1. UNCHANGED <<result, output>>
    BY <1>9 DEF Size
  <2>2. CASE setup.backend = "auto" /\ Skewed(RoundUp(Maximum))
    <3>1. selected' = "triton" /\ tiled' = TRUE /\ phase' = "run" /\ UNCHANGED capacity
      BY <1>9, <2>2 DEF Size
    <3>2. Planned' /\ Ragged'
      BY <1>1, <3>1 DEF Chosen, Planned, Ragged
    <3>3. RowCount' <= setup'.room
      BY <1>1, <1>2, <3>2, FfnAssumption DEF AllSetups, RowCount
    <3>4. PlanInv' /\ RouteInv' /\ RowInv'
      BY <1>1, <1>2, <1>9, <3>1, <3>2 DEF PlanInv, RouteInv, RowInv, Finished, Running, Host, Wanted
    <3>5. BufferInv'
      BY <1>1, <1>2, <3>1, <3>3 DEF BufferInv, Launched, Buffers, Running
    <3> QED BY <1>3, <3>4, <3>5 DEF IInv
  <2>3. CASE ~(setup.backend = "auto" /\ Skewed(RoundUp(Maximum)))
    <3>1. capacity' = RoundUp(Maximum) /\ phase' = "workspace" /\ UNCHANGED <<selected, tiled>>
      BY <1>9, <2>3 DEF Size
    <3>2. capacity' \in 1 .. RoundUp(Slots) /\ \A e \in ExpertSet : CountOf(routes, e) <= capacity'
      <4>1. Maximum \in Nat /\ Maximum > 0 /\ RoundUp(Maximum) \in Nat /\ Maximum <= RoundUp(Maximum)
            /\ RoundUp(Maximum) <= RoundUp(Slots) /\ RoundUp(Slots) \in Nat
        BY <1>1, <1>9, MaximumOk, RoundUpType, SlotsType
      <4>2. \A e \in ExpertSet : CountOf(routes, e) \in Nat /\ CountOf(routes, e) <= Maximum
        BY <1>1, MaximumOk
      <4> HIDE DEF RoundUp, Maximum, CountOf
      <4> QED BY <3>1, <4>1, <4>2
    <3>3. setup.backend = "auto" => Experts * capacity' <= 2 * Cardinality(Routed(Wanted))
      <4>1. Experts * RoundUp(Maximum) \in Int /\ 2 * Total \in Int
        <5>1. RoundUp(Maximum) \in Int /\ Experts \in Int
          BY <1>1, MaximumOk, RoundUpType, SlotsType, SizeAssumption
        <5>2. Total \in Nat
          BY <1>1, RoutedPrefix DEF Total
        <5> HIDE DEF RoundUp, Maximum, Total
        <5> QED BY <5>1, <5>2
      <4>2. Total = Cardinality(Routed(Wanted))
        BY <1>1, <1>9 DEF Total
      <4> QED BY <2>3, <3>1, <4>1, <4>2 DEF Skewed
    <3>4. Planned' /\ ~Ragged'
      BY <1>1, <1>2, <1>5, <1>9, <3>1, <3>2, <3>3 DEF Planned, Ragged, Justified, RowCount, Wanted
    <3>5. PlanInv' /\ RouteInv' /\ RowInv'
      BY <1>1, <1>2, <1>9, <3>1, <3>4 DEF PlanInv, RouteInv, RowInv, Finished, Running, Host, Wanted
    <3>6. BufferInv'
      BY <1>1, <1>2, <3>1 DEF BufferInv, Launched, Buffers, Running
    <3> QED BY <1>3, <3>5, <3>6 DEF IInv
  <2> QED BY <2>2, <2>3
<1> QED BY <1>6, <1>7, <1>8, <1>9

\* The buffers come with the launches.
LEMMA LaunchOk == IInv /\ Launch => IInv'
<1> SUFFICES ASSUME IInv, Launch PROVE IInv'
  OBVIOUS
<1> USE DEF inputs, plan, End
<1>1. TypeInv'
  BY DEF IInv, TypeInv, Launch
<1>2. Planned /\ (Planned <=> Planned')
  BY DEF IInv, PlanInv, Launch, Planned, Justified, Ragged, RowCount, Wanted
<1>3. PlanInv'
  BY <1>2 DEF Launch, PlanInv, Running
<1>4. RouteInv'
  BY DEF IInv, RouteInv, Launch, Finished, Host, Running, Wanted
<1>5. RowSet' = RowSet /\ RowCount' = RowCount
  BY DEF Launch, RowSet, RowCount, Ragged
<1>6. BufferInv'
  BY <1>5 DEF IInv, Launch, BufferInv, Launched, Buffers, Running
<1>7. RowInv'
  BY DEF Launch, RowInv, Finished
<1> QED BY <1>1, <1>3, <1>4, <1>6, <1>7 DEF IInv

-----------------------------------------------------------------------------
(* The stream's steps.                                                     *)

\* While the stream runs, the routes are this run's and the rows fit.
LEMMA RunningFits ==
  ASSUME IInv, phase \in Running
  PROVE  /\ routes \in Keys /\ routes = Wanted /\ Fits /\ Planned
         /\ \A b \in Buffers : DOMAIN b = RowSet
<1>1. Planned /\ routes = Wanted /\ routes \in Keys /\ \A b \in Buffers : DOMAIN b = RowSet
  BY DEF IInv, TypeInv, PlanInv, RouteInv, BufferInv, Launched
<1>2. Fits
  <2>1. CASE Ragged
    BY <1>1, <2>1 DEF Planned, Fits
  <2>2. CASE ~Ragged
    <3>1. capacity \in Nat \ {0}
      BY <1>1, <2>2, RoundUpType, SlotsType DEF Planned
    <3>2. \A e \in ExpertSet : CountOf(routes, e) <= capacity
      <4>1. \A e \in ExpertSet : CountOf(routes, e) \in Nat /\ CountOf(routes, e) <= Slots
        BY <1>1, CountTypes
      <4> HIDE DEF CountOf
      <4> QED BY <1>1, <2>2, <3>1, <4>1, SlotsType DEF Planned
    <3> QED BY <2>2, <3>1, <3>2 DEF Fits
  <2> QED BY <2>1, <2>2
<1> QED BY <1>1, <1>2

LEMMA RouteOk == IInv /\ Route => IInv'
<1> SUFFICES ASSUME IInv, Route PROVE IInv'
  OBVIOUS
<1> USE DEF inputs, plan, rows
<1>1. routes' = Wanted /\ Wanted' = Wanted /\ Wanted \in Keys
  BY EffectiveKeys DEF Route, Wanted
<1>2. TypeInv'
  BY <1>1 DEF IInv, TypeInv, Route
<1>3. PlanInv'
  <2>1. CASE setup.capturing
    <3>1. Planned /\ (Planned <=> Planned')
      BY <2>1 DEF IInv, PlanInv, Route, Planned, Justified, Ragged, RowCount, Wanted
    <3> QED BY <2>1, <3>1 DEF Route, PlanInv, Running
  <2>2. CASE ~setup.capturing
    <3>1. Chosen /\ (Chosen <=> Chosen')
      BY <2>2 DEF IInv, PlanInv, Route, Chosen, AutoNative, Explicit, Ragged
    <3> QED BY <2>2, <3>1 DEF Route, PlanInv, Running
  <2> QED BY <2>1, <2>2
<1>4. RouteInv'
  BY <1>1 DEF Route, RouteInv, Finished, Host, Running
<1>5. BufferInv'
  BY DEF IInv, Route, BufferInv, Launched, Buffers, Running, RowSet, RowCount, Ragged
<1>6. RowInv'
  BY DEF Route, RowInv, Finished
<1> QED BY <1>2, <1>3, <1>4, <1>5, <1>6 DEF IInv

\* What a step of the stream that only writes rows leaves alone.
LEMMA StreamFrame ==
  ASSUME IInv, phase \in Running, phase' \in Running,
         UNCHANGED <<inputs, result, plan, routes>>,
         \A b \in Buffers' : DOMAIN b = RowSet
  PROVE  TypeInv' /\ PlanInv' /\ RouteInv' /\ BufferInv'
<1> USE DEF inputs, plan
<1>1. TypeInv'
  BY DEF IInv, TypeInv, Running
<1>2. Planned /\ (Planned <=> Planned')
  BY DEF IInv, PlanInv, Planned, Justified, Ragged, RowCount, Wanted
<1>3. PlanInv'
  BY <1>2 DEF PlanInv, Running
<1>4. RouteInv'
  BY DEF IInv, RouteInv, Finished, Running, Wanted
<1>5. RowSet' = RowSet /\ RowCount' = RowCount
  BY DEF RowSet, RowCount, Ragged
<1>6. BufferInv'
  BY <1>5 DEF IInv, BufferInv, Launched, Running
<1> QED BY <1>1, <1>3, <1>4, <1>6

LEMMA FirstProjectionOk == IInv /\ FirstProjection => IInv'
<1> SUFFICES ASSUME IInv, FirstProjection PROVE IInv'
  OBVIOUS
<1>1. phase = "first" /\ phase \in Running /\ phase' \in {"activate", "second"} /\ phase' \in Running
      /\ UNCHANGED <<inputs, result, plan, routes, expert_output, output>>
  BY DEF FirstProjection, Running
<1>2. /\ routes \in Keys /\ routes = Wanted /\ Fits /\ Planned
      /\ \A b \in Buffers : DOMAIN b = RowSet
  BY <1>1, RunningFits
<1>3. \A b \in Buffers' : DOMAIN b = RowSet
  BY <1>1, <1>2 DEF FirstProjection, Buffers
<1>4. TypeInv' /\ PlanInv' /\ RouteInv' /\ BufferInv'
  BY <1>1, <1>3, StreamFrame
<1>5. ASSUME NEW a \in Routed(routes)
      PROVE  LET i == SlotOf(a)
             IN  IF phase' = "activate" THEN gate_up'[i] = Row(TokenOf(a), <<routes[a]>>)
                                        ELSE hidden'[i] = Row(TokenOf(a), <<routes[a]>>)
  <2> DEFINE i == SlotOf(a)
  <2>1. i \in RowSet /\ Live(i) /\ AssignmentAt(i) = a /\ (~Ragged => Expert(i) = routes[a])
    BY <1>2, SlotOk
  <2> HIDE DEF i
  <2>2. CASE Ragged
    <3>1. tiled
      BY <1>2, <2>2 DEF Planned
    <3> QED BY <2>1, <2>2, <3>1 DEF FirstProjection, i
  <2>3. CASE ~Ragged /\ ~setup.thor
    <3>1. packed'[i] = Row(TokenOf(a), <<>>)
      BY <2>1, <2>3 DEF FirstProjection
    <3>2. gate_up'[i] = [packed'[i] EXCEPT !.experts = <<Expert(i)>>]
      BY <2>1, <2>3 DEF FirstProjection
    <3>3. gate_up'[i] = Row(TokenOf(a), <<routes[a]>>)
      BY <2>1, <2>3, <3>1, <3>2 DEF Row
    <3> QED BY <2>3, <3>3 DEF FirstProjection, i
  <2>4. CASE ~Ragged /\ setup.thor
    BY <2>1, <2>4 DEF FirstProjection, i
  <2> QED BY <2>2, <2>3, <2>4
<1>6. \A a : SlotOf(a)' = SlotOf(a) /\ routes' = routes /\ call' = call
  BY <1>1 DEF SlotOf, plan, inputs
<1>7. RowInv'
  <2>1. \A a : [j \in 1 .. 1 |-> routes[a]] = <<routes[a]>>
    OBVIOUS
  <2>2. phase' = "activate" => Carries(gate_up, 1)'
    BY <1>5, <1>6, <2>1 DEF Carries, Row
  <2>3. phase' = "second" => Carries(hidden, 1)'
    BY <1>5, <1>6, <2>1 DEF Carries, Row
  <2> QED BY <1>1, <2>2, <2>3 DEF RowInv, Finished
<1> QED BY <1>4, <1>7 DEF IInv

LEMMA ActivateOk == IInv /\ Activate => IInv'
<1> SUFFICES ASSUME IInv, Activate PROVE IInv'
  OBVIOUS
<1>1. phase = "activate" /\ phase \in Running /\ phase' = "second" /\ phase' \in Running
      /\ UNCHANGED <<inputs, result, plan, routes, packed, gate_up, expert_output, output>>
      /\ hidden' = [i \in RowSet |-> IF Live(i) THEN gate_up[i] ELSE Pad]
  BY DEF Activate, Running
<1>2. /\ routes \in Keys /\ routes = Wanted /\ Fits /\ Planned
      /\ \A b \in Buffers : DOMAIN b = RowSet
  BY <1>1, RunningFits
<1>3. \A b \in Buffers' : DOMAIN b = RowSet
  BY <1>1, <1>2 DEF Buffers
<1>4. TypeInv' /\ PlanInv' /\ RouteInv' /\ BufferInv'
  BY <1>1, <1>3, StreamFrame
<1>5. Carries(gate_up, 1)
  BY <1>1 DEF IInv, RowInv
<1>6. \A a \in Routed(routes) : hidden'[SlotOf(a)] = gate_up[SlotOf(a)]
  BY <1>1, <1>2, SlotOk
<1>7. \A a : SlotOf(a)' = SlotOf(a) /\ routes' = routes /\ call' = call
  BY <1>1 DEF SlotOf, plan, inputs
<1>8. Carries(hidden, 1)'
  BY <1>5, <1>6, <1>7 DEF Carries, Row
<1>9. RowInv'
  BY <1>1, <1>8 DEF RowInv, Finished
<1> QED BY <1>4, <1>9 DEF IInv

LEMMA SecondProjectionOk == IInv /\ SecondProjection => IInv'
<1> SUFFICES ASSUME IInv, SecondProjection PROVE IInv'
  OBVIOUS
<1>1. phase = "second" /\ phase \in Running /\ phase' = "combine" /\ phase' \in Running
      /\ UNCHANGED <<inputs, result, plan, routes, packed, gate_up, hidden, output>>
  BY DEF SecondProjection, Running
<1>2. /\ routes \in Keys /\ routes = Wanted /\ Fits /\ Planned
      /\ \A b \in Buffers : DOMAIN b = RowSet
  BY <1>1, RunningFits
<1>3. \A b \in Buffers' : DOMAIN b = RowSet
  BY <1>1, <1>2 DEF SecondProjection, Buffers
<1>4. TypeInv' /\ PlanInv' /\ RouteInv' /\ BufferInv'
  BY <1>1, <1>3, StreamFrame
<1>5. Carries(hidden, 1)
  BY <1>1 DEF IInv, RowInv
<1>6. ASSUME NEW a \in Routed(routes)
      PROVE  expert_output'[SlotOf(a)] = Row(TokenOf(a), <<routes[a], routes[a]>>)
  <2> DEFINE i == SlotOf(a)
  <2>1. i \in RowSet /\ Live(i) /\ AssignmentAt(i) = a /\ (~Ragged => Expert(i) = routes[a])
    BY <1>2, SlotOk
  <2>2. Ragged => tiled
    BY <1>2 DEF Planned
  <2>3. hidden[i] = Row(TokenOf(a), <<routes[a]>>)
    <3>1. [j \in 1 .. 1 |-> routes[a]] = <<routes[a]>>
      OBVIOUS
    <3> QED BY <1>5, <3>1 DEF Carries
  <2> HIDE DEF i
  <2>4. expert_output'[i] = [hidden[i] EXCEPT !.experts = Append(@, routes[a])]
    <3>1. PICK skip \in BOOLEAN :
            expert_output' = [j \in RowSet |->
              IF skip /\ (~Live(j) \/ (Ragged /\ ~tiled)) THEN expert_output[j]
              ELSE LET e == IF Ragged THEN routes[AssignmentAt(j)] ELSE Expert(j)
                   IN [hidden[j] EXCEPT !.experts = Append(@, e)]]
      BY DEF SecondProjection
    <3>2. (IF Ragged THEN routes[AssignmentAt(i)] ELSE Expert(i)) = routes[a]
      BY <2>1
    <3>3. ~(skip /\ (~Live(i) \/ (Ragged /\ ~tiled)))
      BY <2>1, <2>2
    <3>4. PICK e : e = IF Ragged THEN routes[AssignmentAt(i)] ELSE Expert(i)
      OBVIOUS
    <3>5. expert_output'[i] = [hidden[i] EXCEPT !.experts = Append(@, e)]
      BY ONLY <2>1, <3>1, <3>3, <3>4
    <3>6. e = routes[a]
      BY ONLY <3>2, <3>4
    <3> QED BY ONLY <3>5, <3>6
  <2>5. Append(<<routes[a]>>, routes[a]) = <<routes[a], routes[a]>>
    <3>1. PICK e : e = routes[a]
      OBVIOUS
    <3>2. PICK s : s = [j \in 1 .. 1 |-> e]
      OBVIOUS
    <3>3. s \in Seq({e}) /\ Len(s) = 1
      BY ONLY <3>2
    <3>4. Append(s, e) = [j \in 1 .. 2 |-> e]
      BY ONLY <3>2, <3>3
    <3>5. s = <<e>> /\ [j \in 1 .. 2 |-> e] = <<e, e>>
      BY ONLY <3>2
    <3> QED BY ONLY <3>1, <3>4, <3>5
  <2>6. expert_output'[i] = Row(TokenOf(a), <<routes[a], routes[a]>>)
    BY <2>3, <2>4, <2>5 DEF Row
  <2> QED BY <2>6 DEF i
<1>7. \A a : SlotOf(a)' = SlotOf(a) /\ routes' = routes /\ call' = call
  BY <1>1 DEF SlotOf, plan, inputs
<1>8. Carries(expert_output, 2)'
  <2>1. \A a : [j \in 1 .. 2 |-> routes[a]] = <<routes[a], routes[a]>>
    OBVIOUS
  <2> QED BY <1>6, <1>7, <2>1 DEF Carries, Row
<1>9. RowInv'
  BY <1>1, <1>8 DEF RowInv, Finished
<1> QED BY <1>4, <1>9 DEF IInv

LEMMA CombineOk == IInv /\ Combine => IInv'
<1> SUFFICES ASSUME IInv, Combine PROVE IInv'
  OBVIOUS
<1>1. phase = "combine" /\ phase \in Running /\ phase' = "ended" /\ result' = "returned"
      /\ UNCHANGED <<inputs, plan, routes, rows>>
  BY DEF Combine, Running, End
<1>2. /\ routes \in Keys /\ routes = Wanted /\ Fits /\ Planned
      /\ \A b \in Buffers : DOMAIN b = RowSet
  BY <1>1, RunningFits
<1> USE DEF inputs, plan, rows
<1>3. TypeInv'
  BY <1>1 DEF IInv, TypeInv
<1>4. Planned'
  BY <1>1, <1>2 DEF Planned, Justified, Ragged, RowCount, Wanted
<1>5. PlanInv'
  BY <1>1, <1>4 DEF PlanInv, Running
<1>6. RouteInv'
  BY <1>1, <1>2 DEF IInv, RouteInv, Finished, Host, Running, Wanted
<1>7. BufferInv'
  BY <1>1 DEF IInv, BufferInv, Launched, Buffers, Running, RowSet, RowCount, Ragged
<1>8. Carries(expert_output, 2)
  BY <1>1 DEF IInv, RowInv
<1>9. ASSUME NEW a PROVE IF a \in Routed(routes) THEN At(expert_output, SlotOf(a)) = Term(a)'
                         ELSE Term(a)' = NoTerm
  <2>1. Wanted' = routes /\ call' = call
    BY <1>1, <1>2 DEF Wanted
  <2>2. CASE a \in Routed(routes)
    <3>1. SlotOf(a) \in DOMAIN expert_output
      BY <1>2, <2>2, SlotOk DEF Buffers
    <3>2. expert_output[SlotOf(a)] = Row(TokenOf(a), [i \in 1 .. 2 |-> routes[a]])
      BY <1>8, <2>2 DEF Carries
    <3>3. [i \in 1 .. 2 |-> routes[a]] = <<routes[a], routes[a]>>
      OBVIOUS
    <3> QED BY <2>1, <2>2, <3>1, <3>2, <3>3 DEF At, Term, Row
  <2>3. CASE a \notin Routed(routes)
    BY <2>1, <2>3 DEF Term
  <2> QED BY <2>2, <2>3
<1>10. output' = [t \in TokenSet |-> [r \in Ranks |-> Term(t * TopK + r)']]
  BY <1>9 DEF Combine
<1>11. RowInv'
  BY <1>1, <1>10 DEF RowInv, Finished
<1> QED BY <1>3, <1>5, <1>6, <1>7, <1>11 DEF IInv

-----------------------------------------------------------------------------
(* The theorems.                                                           *)

LEMMA StutterOk == IInv /\ UNCHANGED vars => IInv'
<1> SUFFICES ASSUME IInv, UNCHANGED vars PROVE IInv'
  OBVIOUS
<1>1. UNCHANGED <<setup, ids, mask, call, phase, result, selected, capacity, tiled, routes,
                  packed, gate_up, hidden, expert_output, output>>
  BY DEF vars, inputs, plan, rows
<1>2. TypeInv'
  BY <1>1 DEF IInv, TypeInv
<1>3. PlanInv'
  BY <1>1 DEF IInv, PlanInv, Chosen, Planned, Justified, AutoNative, Explicit, Unsupported,
              Ragged, RowCount, Wanted
<1>4. RouteInv'
  BY <1>1 DEF IInv, RouteInv, Finished, Wanted
<1>5. BufferInv'
  BY <1>1 DEF IInv, BufferInv, Launched, Buffers, RowSet, RowCount, Ragged
<1>6. RowInv'
  BY <1>1 DEF IInv, RowInv, Carries, SlotOf, Row, Finished, Term, Wanted
<1> QED BY <1>2, <1>3, <1>4, <1>5, <1>6 DEF IInv

THEOREM IInvHolds == Spec => []IInv
<1>1. IInv /\ [Next]_vars => IInv'
  BY SelectOk, ValidateOk, CheckExplicitOk, SizeOk, CheckWorkspaceOk, LaunchOk, ReplayOk,
     RouteOk, FirstProjectionOk, ActivateOk, SecondProjectionOk, CombineOk, StutterOk
     DEF Next
<1> QED BY <1>1, InitOk, PTL DEF Spec

\* Whatever path a call takes and whatever the buffers held, each token's sum
\* has exactly the terms of its unmasked, valid assignments, made in this run.
THEOREM OutputSafe == Spec => []OutputComplete
<1>1. IInv => OutputComplete
  <2> SUFFICES ASSUME IInv PROVE OutputComplete
    OBVIOUS
  <2>1. \A b \in Buffers : b = <<>> \/ (DOMAIN b = RowSet /\ RowCount <= setup.room)
    BY DEF IInv, BufferInv
  <2>2. TypeOK
    BY <2>1 DEF IInv, TypeInv, TypeOK, Keys, Buffers
  <2> QED BY <2>2 DEF IInv, RowInv, Finished, OutputComplete
<1> QED BY <1>1, IInvHolds, PTL

\* A native path starts only with what it needs, and auto's never computes
\* more than twice the rows that are routed.
THEOREM NativeSafe == Spec => []NativeJustified
<1>1. IInv => NativeJustified
  BY DEF IInv, PlanInv, Planned, Justified, NativeJustified, Running
<1> QED BY <1>1, IInvHolds, PTL

\* An eager call never returns a result for an id that is out of range.
THEOREM InvalidSafe == Spec => []InvalidRejected
<1>1. IInv => InvalidRejected
  BY DEF IInv, RouteInv, InvalidRejected
<1> QED BY <1>1, IInvHolds, PTL
=============================================================================
