---------------------------- MODULE OneBlockProofs ----------------------------
(***************************************************************************)
(* Proofs about the kernels of one block, for any sizes: the               *)
(* warp-specialised kernel (OneSmPipeline), then the ping-pong kernel      *)
(* (PingPong, the instance Pong).                                          *)
(*                                                                         *)
(* One-SM, for any number of slots, groups, warps and lanes: the three     *)
(* rings are counted lap by lap in the entry a cursor is at; a lane's      *)
(* cursor, Reached, counts the groups it has released, so that both of its *)
(* empty barriers follow it.                                               *)
(***************************************************************************)
EXTENDS OneSmPipeline, FiniteSetTheorems, TLAPS

-----------------------------------------------------------------------------
(* The invariant.                                                          *)

\* How many of the groups below x use entry k of a ring of n entries.
Fills(x, k, n) == (x \div n) + (IF k < x % n THEN 1 ELSE 0)
Bit(b) == IF b THEN 1 ELSE 0

\* Groups whose data a warp has begun to read, and those a thread released.
Begun(w) == group[w] + Bit(held[w] # {})
Reached == [t \in Threads |-> group[t[1]] + Bit(held[t[1]] # {} /\ t[2] \notin held[t[1]])]

\* A barrier that members of S arrive on once per phase: r[x] counts the
\* arrivals of x, and whoever is one behind is still missing.
Counted(b, S, r) ==
  /\ b \in BarrierType /\ b.count = Cardinality(S) /\ b.tx = 0
  /\ \A x \in S : r[x] \in {b.done, b.done + 1}
  /\ b.left = Cardinality({x \in S : r[x] = b.done}) /\ b.left >= 1
Laps(S, D, k, n) == [x \in S |-> Fills(D[x], k, n)]

Issued(k) == Fills(tma, k, P)
OperandTypes ==
  /\ operand_full \in [Slots -> BarrierType] /\ operand_empty \in [Slots -> BarrierType]
  /\ operand \in [Slots -> [group : {Staged, Garbage} \cup 0 .. Groups, landed : BOOLEAN]]
  /\ tma \in 0 .. Groups /\ mma \in 0 .. tma /\ retired \in 0 .. mma
  /\ owed_empty \in [Slots -> Nat]
OperandRing(k) ==
  /\ operand_empty[k] = Barrier(1, 1, 0, Fills(retired, k, P) - owed_empty[k])
  /\ operand_full[k] = IF operand[k].landed THEN Barrier(1, 1, 0, Issued(k))
                                            ELSE Barrier(1, 0, 1, Issued(k) - 1)
  /\ Issued(k) <= operand_empty[k].done + 1
  /\ Fills(mma, k, P) <= operand_full[k].done
  /\ phase = "rings" /\ Issued(k) > 0 => operand[k].group = (Issued(k) - 1) * P + k
OperandInv == OperandTypes /\ \A k \in Slots : OperandRing(k)

ScaleTypes ==
  /\ scale_full \in [Slots -> BarrierType] /\ scale_empty \in [Slots -> BarrierType]
  /\ sf \in [ScaleLanes -> 0 .. Groups] /\ scale \in [Slots -> [ScaleLanes -> Int]]
ScaleRing(k) ==
  /\ Counted(scale_full[k], ScaleLanes, Laps(ScaleLanes, sf, k, P))
  /\ Counted(scale_empty[k], Threads, Laps(Threads, Reached, k, P))
  /\ \A l \in ScaleLanes :
       /\ Fills(sf[l], k, P) <= scale_empty[k].done + 1
       /\ Fills(sf[l], k, P) > 0 => scale[k][l] = (Fills(sf[l], k, P) - 1) * P + k
  /\ \A w \in Warps : Fills(Begun(w), k, P) <= scale_full[k].done
ScaleInv == ScaleTypes /\ \A k \in Slots : ScaleRing(k)

StageTypes ==
  /\ accumulator_full \in [Stages -> BarrierType] /\ accumulator_empty \in [Stages -> BarrierType]
  /\ tmem \in [Stages -> Int] /\ owed_full \in [Stages -> Nat]
StageRing(j) ==
  /\ accumulator_full[j] = Barrier(1, 1, 0, Fills(retired, j, 2) - owed_full[j])
  /\ Counted(accumulator_empty[j], Threads, Laps(Threads, Reached, j, 2))
  /\ Fills(mma, j, 2) <= accumulator_empty[j].done + 1
  /\ Fills(retired, j, 2) = Fills(mma, j, 2) /\ Fills(mma, j, 2) > 0 =>
       tmem[j] = (Fills(mma, j, 2) - 1) * 2 + j
  /\ \A w \in Warps : Fills(Begun(w), j, 2) <= accumulator_full[j].done
StageInv == StageTypes /\ \A j \in Stages : StageRing(j)

ConsumerTypes ==
  /\ group \in [Warps -> 0 .. Groups] /\ held \in [Warps -> SUBSET Lanes]
  /\ \A w \in Warps : held[w] # {} => group[w] < Groups

\* The sum of a thread: the groups it released, in order.
FirstGroups(n) == [g \in 1 .. n |-> g - 1]
SumInv ==
  /\ \A w \in Warps : held[w] # {} => partial[w] = group[w]
  /\ DOMAIN partial = Warps
  /\ total = [t \in Threads |-> FirstGroups(Reached[t])]

EpilogueTypes ==
  /\ phase \in {"rings", "write", "store", "freed"} /\ at_barrier \subseteq Warps
  /\ DOMAIN exchange = Warps /\ DOMAIN output = Warps
EpilogueInv ==
  /\ EpilogueTypes
  /\ IF phase = "rings" THEN at_barrier = {} ELSE AllRolesDone
  /\ \A w \in Warps : phase \in {"store", "freed"} \/ w \in at_barrier => exchange[w] = {InOrder}
  /\ \A w \in Warps : output[w] \in {{}, {{InOrder}}}

BlockInv ==
  /\ OperandInv /\ ConsumerTypes /\ ScaleInv /\ StageInv /\ SumInv /\ EpilogueInv

Shape == SizeAssumption /\ ThreadAssumption

-----------------------------------------------------------------------------
(* Laps of a ring.                                                         *)

LEMMA Modulo ==
  ASSUME NEW s \in Nat, NEW d \in Nat \ {0}
  PROVE  s \div d \in Nat /\ s % d \in 0 .. d - 1 /\ s = (s \div d) * d + (s % d)
<1>1. s \div d \in Int /\ s % d \in 0 .. d - 1
  OBVIOUS
<1>2. s = d * (s \div d) + (s % d)
  OBVIOUS
<1>3. \A q \in Int, r \in 0 .. d - 1 : s = d * q + r => q >= 0 /\ d * q = q * d
  OBVIOUS
<1> QED BY <1>1, <1>2, <1>3

LEMMA Division ==
  ASSUME NEW d \in Nat \ {0}, NEW q \in Nat, NEW r \in 0 .. d - 1, NEW s, s = q * d + r
  PROVE  s \in Nat /\ s \div d = q /\ s % d = r
<1>1. s \in Nat
  <2>1. q * d \in Nat
    OBVIOUS
  <2> QED BY <2>1
<1>2. s \div d \in Nat /\ s % d \in 0 .. d - 1 /\ s = (s \div d) * d + (s % d)
  BY <1>1, Modulo
<1>3. PICK p, x : p = s \div d /\ x = s % d
  OBVIOUS
<1>4. p \in Int /\ x \in 0 .. d - 1 /\ q * d + r = p * d + x
  BY <1>2, <1>3
<1>5. q = p
  BY ONLY <1>4, d \in Nat \ {0}, q \in Nat, r \in 0 .. d - 1
<1>6. r = x
  BY <1>4, <1>5
<1> QED BY <1>1, <1>3, <1>5, <1>6

\* The laps of a ring: group x uses entry x % n, and then the next.
LEMMA FillsAt ==
  ASSUME NEW n \in Nat \ {0}, NEW x \in Nat
  PROVE  /\ x % n \in 0 .. n - 1 /\ x \div n \in Nat
         /\ Fills(x, x % n, n) = x \div n
         /\ (x \div n) * n + (x % n) = x
         /\ x < n => x \div n = 0
<1>1. x \div n \in Nat /\ x % n \in 0 .. n - 1 /\ x = (x \div n) * n + (x % n)
  BY Modulo
<1>2. PICK q, r : q = x \div n /\ r = x % n
  OBVIOUS
<1>3. q \in Nat /\ r \in 0 .. n - 1 /\ x = q * n + r
  BY <1>1, <1>2
<1>4. x < n => q = 0
  <2>1. SUFFICES ASSUME x < n, q >= 1 PROVE FALSE
    BY <1>3
  <2>2. PICK m \in Nat : q = 1 + m
    <3>1. q - 1 \in Nat /\ q = 1 + (q - 1)
      BY <1>3, <2>1
    <3> QED BY <3>1
  <2>3. (1 + m) * n = n + m * n /\ m * n \in Nat
    OBVIOUS
  <2> QED BY <1>3, <2>1, <2>2, <2>3
<1>5. Fills(x, r, n) = q + (IF r < r THEN 1 ELSE 0)
  BY <1>2 DEF Fills
<1>6. Fills(x, r, n) = q
  BY <1>3, <1>5
<1> QED BY <1>1, <1>2, <1>4, <1>6

\* x is entry r of lap q.
Split(x, n, q, r) == q \in Nat /\ r \in 0 .. n - 1 /\ x = q * n + r

LEMMA SplitAt ==
  ASSUME NEW n \in Nat \ {0}, NEW x \in Nat
  PROVE  \E q, r : Split(x, n, q, r) /\ q = x \div n /\ r = x % n
<1>1. PICK q, r : q = x \div n /\ r = x % n
  OBVIOUS
<1>2. q \in Nat /\ r \in 0 .. n - 1 /\ x = q * n + r
  BY <1>1, Modulo
<1> QED BY <1>1, <1>2 DEF Split

LEMMA FillsIs ==
  ASSUME NEW n \in Nat \ {0}, NEW q, NEW r, NEW x, Split(x, n, q, r), NEW k \in 0 .. n - 1
  PROVE  Fills(x, k, n) = IF k < r THEN q + 1 ELSE q
<1>1. x \div n = q /\ x % n = r
  BY Division DEF Split
<1>2. Fills(x, k, n) = q + (IF k < r THEN 1 ELSE 0)
  BY <1>1 DEF Fills
<1>3. q \in Nat
  BY DEF Split
<1> QED BY ONLY <1>2, <1>3

LEMMA FillsNext ==
  ASSUME NEW n \in Nat \ {0}, NEW x \in Nat, NEW k \in 0 .. n - 1
  PROVE  /\ Fills(x, k, n) \in Nat
         /\ Fills(x + 1, k, n) = IF k = x % n THEN Fills(x, k, n) + 1 ELSE Fills(x, k, n)
<1>1. PICK q, r : Split(x, n, q, r) /\ q = x \div n /\ r = x % n
  BY SplitAt
<1>2. q \in Nat /\ r \in 0 .. n - 1 /\ x = q * n + r
  BY <1>1 DEF Split
<1>3. Fills(x, k, n) = IF k < r THEN q + 1 ELSE q
  BY <1>1, FillsIs
<1>4. CASE r + 1 = n
  <2>1. (q + 1) * n = q * n + n /\ q * n \in Nat
    BY <1>2
  <2>2. x + 1 = (q + 1) * n + 0 /\ q + 1 \in Nat /\ 0 \in 0 .. n - 1
    BY <1>2, <1>4, <2>1
  <2>3. Split(x + 1, n, q + 1, 0)
    BY <2>2 DEF Split
  <2>4. Fills(x + 1, k, n) = IF k < 0 THEN q + 1 + 1 ELSE q + 1
    BY <2>3, FillsIs
  <2> QED BY <1>1, <1>2, <1>3, <1>4, <2>4
<1>5. CASE r + 1 # n
  <2>1. q * n \in Nat
    BY <1>2
  <2>2. x + 1 = q * n + (r + 1) /\ r + 1 \in 0 .. n - 1
    BY <1>2, <1>5, <2>1
  <2>3. Split(x + 1, n, q, r + 1)
    BY <1>2, <2>2 DEF Split
  <2>4. Fills(x + 1, k, n) = IF k < r + 1 THEN q + 1 ELSE q
    BY <2>3, FillsIs
  <2> QED BY <1>1, <1>2, <1>3, <2>4
<1> QED BY <1>4, <1>5

LEMMA FillsGrow ==
  ASSUME NEW n \in Nat \ {0}, NEW x \in Nat, NEW y \in Nat, x <= y, NEW k \in 0 .. n - 1
  PROVE  Fills(x, k, n) <= Fills(y, k, n)
<1>1. PICK q, r : Split(x, n, q, r)
  BY SplitAt
<1>2. PICK p, t : Split(y, n, p, t)
  BY SplitAt
<1>3. Fills(x, k, n) = (IF k < r THEN q + 1 ELSE q) /\ Fills(y, k, n) = (IF k < t THEN p + 1 ELSE p)
  BY <1>1, <1>2, FillsIs
<1>4. q \in Nat /\ r \in 0 .. n - 1 /\ x = q * n + r /\ p \in Nat /\ t \in 0 .. n - 1 /\ y = p * n + t
  BY <1>1, <1>2 DEF Split
<1>5. CASE q = p
  BY <1>3, <1>4, <1>5
<1>6. CASE q < p
  BY <1>3, <1>4, <1>6
<1>7. CASE p < q
  <2>1. PICK m \in Nat : q = p + 1 + m
    <3>1. q - p - 1 \in Nat /\ q = p + 1 + (q - p - 1)
      BY <1>4, <1>7
    <3> QED BY <3>1
  <2>2. (p + 1 + m) * n = p * n + n + m * n /\ m * n \in Nat /\ p * n \in Nat
    BY <1>4
  <2> QED BY <1>4, <2>1, <2>2
<1> QED BY <1>4, <1>5, <1>6, <1>7

\* If x has gone past entry k more often than y, x is further on.
LEMMA FillsLess ==
  ASSUME NEW n \in Nat \ {0}, NEW x \in Nat, NEW y \in Nat, NEW k \in 0 .. n - 1,
         Fills(x, k, n) < Fills(y, k, n)
  PROVE  x < y
<1>1. CASE y <= x
  <2>1. Fills(y, k, n) <= Fills(x, k, n)
    BY <1>1, FillsGrow
  <2>2. Fills(x, k, n) \in Nat /\ Fills(y, k, n) \in Nat
    BY FillsNext
  <2> QED BY <2>1, <2>2
<1> QED BY <1>1

LEMMA FillsZero ==
  ASSUME NEW n \in Nat \ {0}, NEW k \in 0 .. n - 1
  PROVE  Fills(0, k, n) = 0
<1>1. 0 % n = 0 /\ 0 \div n = 0
  BY Division, 0 = 0 * n + 0
<1> QED BY <1>1 DEF Fills

LEMMA ParityWait ==
  ASSUME NEW b, NEW x \in Int, b.done \in {x, x + 1}, Passes(b, x % 2)
  PROVE  b.done = x + 1
BY DEF Passes

-----------------------------------------------------------------------------
(* Barriers.                                                               *)

\* One of the members still missing arrives.
LEMMA CountedArrive ==
  ASSUME NEW S, IsFiniteSet(S), NEW b, NEW r, NEW q, NEW x \in S,
         Counted(b, S, r), r[x] = b.done, q[x] = b.done + 1,
         \A y \in S \ {x} : q[y] = r[y]
  PROVE  Counted(Arrive(b), S, q) /\ Arrive(b).done \in {b.done, b.done + 1}
<1> DEFINE T == {y \in S : r[y] = b.done}
           U == {y \in S : q[y] = b.done}
<1>1. /\ b \in BarrierType /\ b.done \in Nat /\ b.count = Cardinality(S) /\ b.tx = 0
      /\ b.left >= 1 /\ b.left = Cardinality(T) /\ b.left \in Int /\ b.count \in Nat
      /\ \A y \in S : r[y] \in {b.done, b.done + 1}
  BY DEF Counted, BarrierType
<1>2. U = T \ {x} /\ x \in T
  BY <1>1
<1>3. IsFiniteSet(T) /\ IsFiniteSet(U) /\ Cardinality(U) = b.left - 1
  <2>1. IsFiniteSet(T)
    BY FS_Subset
  <2> HIDE DEF T, U
  <2>2. IsFiniteSet(T \ {x}) /\ Cardinality(T \ {x}) = Cardinality(T) - 1
    BY <1>2, <2>1, FS_RemoveElement
  <2> QED BY <1>1, <1>2, <2>1, <2>2
<1>4. \A y \in S : q[y] \in {b.done, b.done + 1}
  BY <1>1
<1>5. CASE b.left = 1
  <2>1. U = {}
    BY <1>3, <1>5, FS_EmptySet
  <2>2. \A y \in S : q[y] = b.done + 1
    BY <2>1, <1>4
  <2>3. Arrive(b) = [count |-> b.count, left |-> b.count, tx |-> 0, done |-> b.done + 1]
    BY <1>1, <1>5 DEF Arrive, Settle, Barrier, BarrierType
  <2>4. {y \in S : q[y] = b.done + 1} = S
    BY <2>2
  <2>5. Cardinality(S) >= 1
    BY <1>1, FS_EmptySet
  <2> HIDE DEF T, U
  <2> QED BY <2>2, <2>3, <2>4, <2>5, <1>1 DEF Counted, BarrierType
<1>6. CASE b.left # 1
  <2>1. Arrive(b) = [count |-> b.count, left |-> b.left - 1, tx |-> 0, done |-> b.done]
    BY <1>1, <1>6 DEF Arrive, Settle, Barrier, BarrierType
  <2> QED BY <2>1, <1>1, <1>3, <1>4, <1>6 DEF Counted, BarrierType
<1> QED BY <1>5, <1>6

LEMMA CountedDone ==
  ASSUME NEW b, NEW S, NEW r, Counted(b, S, r)
  PROVE  /\ b.done \in Nat /\ b \in BarrierType
         /\ \A x \in S : r[x] \in {b.done, b.done + 1}
BY DEF Counted, BarrierType

\* Member x, at group D[x] of a ring, arrives for that group.
Arrival(S, n, D, E, x) ==
  /\ D \in [S -> Nat] /\ x \in S /\ E = [D EXCEPT ![x] = @ + 1]

LEMMA CountedNext ==
  ASSUME NEW S, IsFiniteSet(S), NEW n \in Nat \ {0}, NEW D, NEW E, NEW x,
         Arrival(S, n, D, E, x), NEW k \in 0 .. n - 1, NEW b, NEW c,
         Counted(b, S, Laps(S, D, k, n)),
         k = D[x] % n => b.done = D[x] \div n,
         c = IF k = D[x] % n THEN Arrive(b) ELSE b
  PROVE  Counted(c, S, Laps(S, E, k, n)) /\ c.done >= b.done /\ b.done \in Nat
<1>1. /\ D \in [S -> Nat] /\ x \in S /\ D[x] \in Nat /\ E[x] = D[x] + 1
      /\ \A y \in S \ {x} : E[y] = D[y]
  BY DEF Arrival
<1>2. b.done \in Nat
  BY CountedDone
<1>3. CASE k # D[x] % n
  <2>1. Fills(E[x], k, n) = Fills(D[x], k, n)
    BY <1>1, <1>3, FillsNext
  <2>2. Laps(S, E, k, n) = Laps(S, D, k, n)
    BY <1>1, <2>1 DEF Laps
  <2> QED BY <1>2, <1>3, <2>2
<1>4. CASE k = D[x] % n
  <2> DEFINE r == Laps(S, D, k, n)
             q == Laps(S, E, k, n)
  <2>1. Fills(D[x], k, n) = b.done /\ Fills(E[x], k, n) = b.done + 1
    <3>1. PICK d : d = D[x]
      OBVIOUS
    <3>2. d \in Nat /\ E[x] = d + 1 /\ k = d % n /\ b.done = d \div n
      BY <1>1, <1>4, <3>1
    <3>3. Fills(d, k, n) = d \div n
      BY <3>2, FillsAt
    <3>4. Fills(d + 1, k, n) = Fills(d, k, n) + 1
      BY <3>2, FillsNext
    <3> QED BY <3>1, <3>2, <3>3, <3>4
  <2>2. r[x] = b.done /\ q[x] = b.done + 1 /\ \A y \in S \ {x} : q[y] = r[y]
    BY <1>1, <2>1 DEF Laps
  <2> HIDE DEF r, q
  <2>3. Counted(Arrive(b), S, q) /\ Arrive(b).done \in {b.done, b.done + 1}
    BY ONLY <1>1, <2>2, CountedArrive, IsFiniteSet(S), Counted(b, S, Laps(S, D, k, n)) DEF r
  <2> QED BY <1>2, <1>4, <2>3 DEF q
<1> QED BY <1>3, <1>4

LEMMA CountedNew ==
  ASSUME NEW S, IsFiniteSet(S), S # {}, NEW n \in Nat \ {0}, NEW k \in 0 .. n - 1
  PROVE  Counted(NewBarrier(Cardinality(S)), S, Laps(S, [x \in S |-> 0], k, n))
<1>1. Cardinality(S) \in Nat /\ Cardinality(S) # 0
  BY FS_CardinalityType, FS_EmptySet
<1>2. Fills(0, k, n) = 0
  BY FillsZero
<1>3. PICK r : r = Laps(S, [x \in S |-> 0], k, n)
  OBVIOUS
<1>4. \A x \in S : r[x] = 0
  BY <1>2, <1>3 DEF Laps
<1>5. {x \in S : r[x] = 0} = S
  BY <1>4
<1>6. Counted(NewBarrier(Cardinality(S)), S, r)
  BY ONLY <1>1, <1>4, <1>5 DEF Counted, NewBarrier, Barrier, BarrierType
<1> QED BY <1>3, <1>6

LEMMA SingleArrive ==
  ASSUME NEW n \in Int
  PROVE  Arrive(Barrier(1, 1, 0, n)) = Barrier(1, 1, 0, n + 1)
BY DEF Arrive, Settle, Barrier

-----------------------------------------------------------------------------
(* Entries.                                                                *)

LEMMA Sizes ==
  ASSUME Shape
  PROVE  /\ P \in Nat \ {0} /\ 2 \in Nat \ {0} /\ Groups \in Nat \ {0}
         /\ Slots = 0 .. P - 1 /\ Stages = 0 .. 2 - 1
         /\ IsFiniteSet(ScaleLanes) /\ ScaleLanes # {}
         /\ IsFiniteSet(Threads) /\ Threads # {} /\ Lanes # {} /\ Warps # {}
<1>1. IsFiniteSet(Threads)
  BY FS_Product DEF Shape, ThreadAssumption, Threads
<1>2. Threads # {}
  <2>1. PICK w \in Warps, l \in Lanes : TRUE
    BY DEF Shape, ThreadAssumption
  <2>2. <<w, l>> \in Threads
    BY DEF Threads
  <2> QED BY <2>2
<1> QED BY <1>1, <1>2 DEF Shape, SizeAssumption, ThreadAssumption, Slots, Stages

\* Group g is lap q of entry k.
At(g, n, k, q) ==
  /\ k \in 0 .. n - 1 /\ q \in Nat /\ g = q * n + k /\ Fills(g, k, n) = q
  /\ g < n => q = 0
  /\ \A m \in 0 .. n - 1 : /\ Fills(g, m, n) \in Nat
                           /\ Fills(g + 1, m, n) = IF m = k THEN q + 1 ELSE Fills(g, m, n)

LEMMA AtGroup ==
  ASSUME NEW n \in Nat \ {0}, NEW g \in Nat
  PROVE  \E k, q : At(g, n, k, q) /\ k = g % n /\ q = g \div n
<1>1. PICK k, q : k = g % n /\ q = g \div n
  OBVIOUS
<1>2. k \in 0 .. n - 1 /\ q \in Nat /\ g = q * n + k /\ Fills(g, k, n) = q /\ (g < n => q = 0)
  BY <1>1, FillsAt
<1>3. \A m \in 0 .. n - 1 : /\ Fills(g, m, n) \in Nat
                            /\ Fills(g + 1, m, n) = IF m = k THEN Fills(g, m, n) + 1
                                                             ELSE Fills(g, m, n)
  BY <1>1, FillsNext
<1>4. At(g, n, k, q)
  BY <1>2, <1>3 DEF At
<1> QED BY <1>1, <1>4

\* What a cursor that may go on finds at its entry: a phase counted by done is
\* over once for each lap before its own.
LEMMA Awaits ==
  ASSUME NEW n \in Nat \ {0}, NEW g \in Nat, NEW k, NEW q, At(g, n, k, q),
         q = g \div n, NEW b, b.done \in Nat, q <= b.done + 1, b.done <= q,
         g >= n => Passes(b, LastLap(g, n))
  PROVE  b.done = q
<1>1. q \in Nat /\ (g < n => q = 0)
  BY DEF At
<1>2. CASE g < n
  BY <1>1, <1>2
<1>3. CASE g >= n
  <2>1. Passes(b, (q - 1) % 2) /\ b.done \in {q - 1, q - 1 + 1}
    BY <1>1, <1>3 DEF LastLap
  <2>2. q - 1 \in Int
    BY <1>1
  <2>3. b.done = q - 1 + 1
    BY <2>1, <2>2, ParityWait
  <2> QED BY <1>1, <2>3
<1> QED BY <1>2, <1>3

-----------------------------------------------------------------------------
(* The operand ring.                                                       *)

\* The states of a slot in the order its data take.
Chain(k) ==
  /\ operand_empty[k].done \in Nat /\ operand_full[k].done \in Nat
  /\ Issued(k) \in Nat /\ Fills(mma, k, P) \in Nat /\ Fills(retired, k, P) \in Nat
  /\ operand[k].landed \in BOOLEAN
  /\ operand_empty[k].done <= Fills(retired, k, P)
  /\ Fills(retired, k, P) <= Fills(mma, k, P)
  /\ Fills(mma, k, P) <= operand_full[k].done
  /\ operand_full[k].done = IF operand[k].landed THEN Issued(k) ELSE Issued(k) - 1
  /\ Issued(k) <= operand_empty[k].done + 1

LEMMA OperandChain ==
  ASSUME Shape, OperandInv, NEW k \in Slots
  PROVE  Chain(k)
<1>1. /\ tma \in Nat /\ mma \in Nat /\ retired \in Nat /\ retired <= mma
      /\ owed_empty[k] \in Nat /\ k \in 0 .. P - 1
      /\ operand_empty[k] \in BarrierType /\ operand_full[k] \in BarrierType
      /\ operand[k].landed \in BOOLEAN
  BY Sizes DEF OperandInv, OperandTypes
<1>2. /\ Issued(k) \in Nat /\ Fills(mma, k, P) \in Nat /\ Fills(retired, k, P) \in Nat
      /\ Fills(retired, k, P) <= Fills(mma, k, P)
  BY <1>1, Sizes, FillsNext, FillsGrow DEF Issued
<1>3. OperandRing(k)
  BY DEF OperandInv
<1>4. operand_empty[k].done = Fills(retired, k, P) - owed_empty[k]
  BY <1>3 DEF OperandRing, Barrier
<1>5. operand_full[k].done = IF operand[k].landed THEN Issued(k) ELSE Issued(k) - 1
  BY <1>1, <1>3 DEF OperandRing, Barrier
<1>6. operand_empty[k].done \in Nat /\ operand_full[k].done \in Nat
  BY <1>1 DEF BarrierType
<1> QED BY <1>1, <1>2, <1>3, <1>4, <1>5, <1>6 DEF OperandRing, Chain

\* The slot of an MMA in flight holds that MMA's data.
LEMMA OperandInFlight ==
  ASSUME Shape, OperandInv, phase = "rings", NEW g \in retired .. mma - 1
  PROVE  operand[g % P] = [group |-> g, landed |-> TRUE]
<1>1. g \in Nat /\ retired \in Nat /\ mma \in Nat /\ retired <= g /\ g + 1 <= mma
  BY Sizes DEF OperandInv, OperandTypes
<1>2. PICK k, q : At(g, P, k, q) /\ k = g % P /\ q = g \div P
  BY <1>1, AtGroup, Sizes
<1>3. k \in Slots /\ q \in Nat /\ g = q * P + k /\ Fills(g, k, P) = q /\ Fills(g + 1, k, P) = q + 1
  BY <1>2, Sizes DEF At
<1>4. Fills(retired, k, P) <= q /\ q + 1 <= Fills(mma, k, P)
  BY <1>1, <1>3, Sizes, FillsGrow
<1>5. Issued(k) = q + 1 /\ operand[k].landed = TRUE
  <2>1. Chain(k)
    BY <1>3, OperandChain
  <2> QED BY <2>1, <1>3, <1>4 DEF Chain
<1>6. operand[k].group = g
  <2>1. Issued(k) > 0 /\ Issued(k) - 1 = q
    BY <1>3, <1>5
  <2>2. operand[k].group = (Issued(k) - 1) * P + k
    BY <1>3, <2>1 DEF OperandInv, OperandRing
  <2> QED BY <2>1, <2>2, <1>3
<1>7. operand[k] \in [group : {Staged, Garbage} \cup 0 .. Groups, landed : BOOLEAN]
  BY <1>3 DEF OperandInv, OperandTypes
<1>8. operand[k] = [group |-> g, landed |-> TRUE]
  BY <1>5, <1>6, <1>7
<1> QED BY <1>2, <1>8

LEMMA TmaIssueOperand ==
  ASSUME Shape, OperandInv, TmaIssue
  PROVE  OperandInv'
<1>1. tma \in Nat /\ tma + 1 \in 0 .. Groups /\ mma \in 0 .. tma + 1
  BY Sizes DEF OperandInv, OperandTypes, TmaIssue
<1>2. PICK g, k, q : g = tma /\ At(g, P, k, q) /\ k = g % P /\ q = g \div P
  BY <1>1, AtGroup, Sizes
<1>3. /\ k \in Slots /\ q \in Nat /\ g = q * P + k /\ Issued(k) = q
      /\ \A m \in Slots : /\ Fills(g, m, P) \in Nat
                          /\ Fills(g + 1, m, P) = IF m = k THEN q + 1 ELSE Fills(g, m, P)
  BY <1>2, Sizes DEF At, Issued
<1>4. /\ operand_full' = [operand_full EXCEPT ![k] = ArriveExpectTx(@, 1)]
      /\ operand' = [operand EXCEPT ![k] = [group |-> g, landed |-> FALSE]]
      /\ tma' = g + 1 /\ UNCHANGED <<operand_empty, mma, retired, owed_empty, phase>>
      /\ g >= P => Passes(operand_empty[k], LastLap(g, P))
  BY <1>2 DEF TmaIssue, SlotFree, matrix, epilogue
<1>5. Chain(k)
  BY <1>3, OperandChain
<1>6. operand_empty[k].done = q
  <2>1. operand_empty[k].done \in Nat /\ q <= operand_empty[k].done + 1 /\ operand_empty[k].done <= q
    BY <1>3, <1>5 DEF Chain
  <2>2. g \in Nat /\ P \in Nat \ {0}
    BY <1>1, <1>2, Sizes
  <2> QED BY <1>2, <1>4, <2>1, <2>2, Awaits
<1>7. operand_full[k].done = q /\ operand[k].landed = TRUE
  BY <1>3, <1>5, <1>6 DEF Chain
<1>8. operand_full[k] = Barrier(1, 1, 0, q)
  BY <1>3, <1>7 DEF OperandInv, OperandRing
<1>9. ArriveExpectTx(operand_full[k], 1) = Barrier(1, 0, 1, q)
  BY <1>8 DEF ArriveExpectTx, Settle, Barrier
<1>10. OperandTypes'
  <2>1. Barrier(1, 0, 1, q) \in BarrierType
    BY <1>3 DEF Barrier, BarrierType
  <2>2. operand_full' \in [Slots -> BarrierType]
    BY <1>3, <1>4, <1>9, <2>1 DEF OperandInv, OperandTypes
  <2>3. g \in 0 .. Groups
    BY <1>1, <1>2, Sizes
  <2>4. operand' \in [Slots -> [group : {Staged, Garbage} \cup 0 .. Groups, landed : BOOLEAN]]
    BY <1>4, <2>3 DEF OperandInv, OperandTypes
  <2>5. tma' \in 0 .. Groups /\ mma' \in 0 .. tma' /\ retired' \in 0 .. mma'
    BY <1>1, <1>2, <1>4 DEF OperandInv, OperandTypes
  <2> QED BY <1>4, <2>2, <2>4, <2>5 DEF OperandInv, OperandTypes
<1>11. ASSUME NEW m \in Slots PROVE OperandRing(m)'
  <2>1. CASE m = k
    <3>1. operand'[k] = [group |-> g, landed |-> FALSE] /\ operand_full'[k] = Barrier(1, 0, 1, q)
      BY <1>3, <1>4, <1>9 DEF OperandInv, OperandTypes
    <3>2. Issued(k)' = q + 1
      BY <1>3, <1>4 DEF Issued
    <3>3. Fills(mma, k, P) <= q
      BY <1>5, <1>7 DEF Chain
    <3>4. operand_full'[k].done = q
      BY <3>1 DEF Barrier
    <3>5. operand_empty[k] = Barrier(1, 1, 0, Fills(retired, k, P) - owed_empty[k])
      BY <1>3 DEF OperandInv, OperandRing
    <3>6. (q + 1 - 1) * P + k = g /\ q + 1 - 1 = q
      BY <1>3
    <3> QED BY <2>1, <1>3, <1>4, <1>6, <3>1, <3>2, <3>3, <3>4, <3>5, <3>6 DEF OperandRing
  <2>2. CASE m # k
    <3>1. operand'[m] = operand[m] /\ operand_full'[m] = operand_full[m]
      BY <1>4, <2>2 DEF OperandInv, OperandTypes
    <3>2. Issued(m)' = Issued(m)
      BY <1>2, <1>3, <1>4, <2>2 DEF Issued
    <3> QED BY <1>4, <3>1, <3>2 DEF OperandInv, OperandRing
  <2> QED BY <2>1, <2>2
<1> QED BY <1>10, <1>11 DEF OperandInv, Slots

LEMMA TmaLandOperand ==
  ASSUME Shape, OperandInv, NEW k \in Slots, TmaLand(k)
  PROVE  OperandInv'
<1>1. /\ operand[k].landed = FALSE
      /\ operand' = [operand EXCEPT ![k].landed = TRUE]
      /\ operand_full' = [operand_full EXCEPT ![k] = CompleteTx(@, 1)]
      /\ UNCHANGED <<operand_empty, tma, mma, retired, owed_empty, phase>>
  BY DEF TmaLand, matrix, epilogue, OperandInv, OperandTypes
<1>2. Chain(k)
  BY OperandChain
<1>3. operand_full[k] = Barrier(1, 0, 1, Issued(k) - 1)
  BY <1>1 DEF OperandInv, OperandRing
<1>4. Issued(k) \in Nat /\ operand_full[k].done = Issued(k) - 1
  BY <1>1, <1>2 DEF Chain
<1>5. CompleteTx(operand_full[k], 1) = Barrier(1, 1, 0, Issued(k))
  BY <1>3, <1>4 DEF CompleteTx, Settle, Barrier
<1>6. OperandTypes'
  <2>1. Barrier(1, 1, 0, Issued(k)) \in BarrierType
    BY <1>4 DEF Barrier, BarrierType
  <2>2. operand_full' \in [Slots -> BarrierType]
    BY <1>1, <1>5, <2>1 DEF OperandInv, OperandTypes
  <2>3. operand' \in [Slots -> [group : {Staged, Garbage} \cup 0 .. Groups, landed : BOOLEAN]]
    BY <1>1 DEF OperandInv, OperandTypes
  <2> QED BY <1>1, <2>2, <2>3 DEF OperandInv, OperandTypes
<1>7. ASSUME NEW m \in Slots PROVE OperandRing(m)'
  <2>1. OperandRing(m) /\ Issued(m)' = Issued(m)
    BY <1>1 DEF OperandInv, Issued
  <2>2. CASE m = k
    <3>1. operand'[k].landed = TRUE /\ operand'[k].group = operand[k].group
          /\ operand_full'[k] = Barrier(1, 1, 0, Issued(k))
      BY <1>1, <1>5 DEF OperandInv, OperandTypes
    <3>2. operand_full'[k].done = Issued(k) /\ Fills(mma, k, P) <= Issued(k)
      BY <1>2, <1>4, <3>1 DEF Chain, Barrier
    <3> QED BY <1>1, <2>1, <2>2, <3>1, <3>2 DEF OperandRing
  <2>3. CASE m # k
    <3>1. operand'[m] = operand[m] /\ operand_full'[m] = operand_full[m]
      BY <1>1, <2>3 DEF OperandInv, OperandTypes
    <3> QED BY <1>1, <2>1, <3>1 DEF OperandRing
  <2> QED BY <2>2, <2>3
<1> QED BY <1>6, <1>7 DEF OperandInv, Slots

LEMMA MmaIssueOperand ==
  ASSUME Shape, OperandInv, MmaIssue
  PROVE  OperandInv'
<1>1. /\ mma \in Nat /\ tma \in Nat /\ mma <= tma /\ retired \in 0 .. mma
      /\ mma' = mma + 1 /\ UNCHANGED <<operand_full, operand_empty, operand, tma, retired,
                                       owed_empty, phase>>
  BY Sizes DEF OperandInv, OperandTypes, MmaIssue, full_empty, epilogue
<1>2. PICK g, k, q : g = mma /\ At(g, P, k, q) /\ k = g % P /\ q = g \div P
  BY <1>1, AtGroup, Sizes
<1>3. /\ k \in Slots /\ q \in Nat /\ Fills(g, k, P) = q
      /\ \A m \in Slots : /\ Fills(g, m, P) \in Nat
                          /\ Fills(g + 1, m, P) = IF m = k THEN q + 1 ELSE Fills(g, m, P)
  BY <1>2, Sizes DEF At
<1>4. Chain(k)
  BY <1>3, OperandChain
<1>5. operand_full[k].done = q + 1
  <2>1. Passes(operand_full[k], q % 2)
    BY <1>2 DEF MmaIssue, ThisLap
  <2>2. operand_full[k].done \in {q, q + 1}
    BY <1>2, <1>3, <1>4 DEF Chain
  <2> QED BY <1>3, <2>1, <2>2, ParityWait
<1>6. mma + 1 <= tma
  <2>1. Fills(mma, k, P) < Fills(tma, k, P)
    BY <1>2, <1>3, <1>4, <1>5 DEF Chain, Issued
  <2>2. mma < tma
    BY <1>1, <1>3, <2>1, Sizes, FillsLess
  <2> QED BY <1>1, <2>2
<1>7. OperandTypes'
  BY <1>1, <1>6 DEF OperandInv, OperandTypes
<1>8. ASSUME NEW m \in Slots PROVE OperandRing(m)'
  <2>1. OperandRing(m) /\ Issued(m)' = Issued(m)
    BY <1>1 DEF OperandInv, Issued
  <2>2. Fills(mma + 1, m, P) <= operand_full[m].done
    BY <1>2, <1>3, <1>5, <2>1 DEF OperandRing
  <2> QED BY <1>1, <2>1, <2>2 DEF OperandRing
<1> QED BY <1>7, <1>8 DEF OperandInv, Slots

LEMMA MmaRetireOperand ==
  ASSUME Shape, OperandInv, MmaRetire
  PROVE  OperandInv'
<1>1. /\ retired \in Nat /\ mma \in Nat /\ retired + 1 <= mma /\ retired' = retired + 1
      /\ owed_empty' = [owed_empty EXCEPT ![retired % P] = @ + 1]
      /\ UNCHANGED <<operand_full, operand_empty, operand, tma, mma, phase>>
  BY Sizes DEF OperandInv, OperandTypes, MmaRetire, full_empty, epilogue
<1>2. PICK g, k, q : g = retired /\ At(g, P, k, q) /\ k = g % P /\ q = g \div P
  BY <1>1, AtGroup, Sizes
<1>3. /\ k \in Slots /\ q \in Nat /\ Fills(g, k, P) = q
      /\ \A m \in Slots : /\ Fills(g, m, P) \in Nat
                          /\ Fills(g + 1, m, P) = IF m = k THEN q + 1 ELSE Fills(g, m, P)
  BY <1>2, Sizes DEF At
<1>4. owed_empty' = [owed_empty EXCEPT ![k] = @ + 1]
  BY <1>1, <1>2
<1>5. OperandTypes'
  BY <1>1, <1>3, <1>4 DEF OperandInv, OperandTypes
<1>6. ASSUME NEW m \in Slots PROVE OperandRing(m)'
  <2>1. OperandRing(m) /\ Issued(m)' = Issued(m) /\ owed_empty[m] \in Nat
    BY <1>1 DEF OperandInv, OperandTypes, Issued
  <2>2. owed_empty'[m] = IF m = k THEN owed_empty[m] + 1 ELSE owed_empty[m]
    BY <1>4 DEF OperandInv, OperandTypes
  <2>3. Fills(g + 1, m, P) - owed_empty'[m] = Fills(g, m, P) - owed_empty[m]
    BY <1>3, <2>1, <2>2
  <2> QED BY <1>1, <1>2, <2>1, <2>3 DEF OperandRing
<1> QED BY <1>5, <1>6 DEF OperandInv, Slots

LEMMA CommitEmptyOperand ==
  ASSUME Shape, OperandInv, NEW k \in Slots, CommitEmpty(k)
  PROVE  OperandInv'
<1>1. /\ owed_empty[k] \in Nat /\ owed_empty[k] > 0
      /\ owed_empty' = [owed_empty EXCEPT ![k] = @ - 1]
      /\ operand_empty' = [operand_empty EXCEPT ![k] = Arrive(@)]
      /\ UNCHANGED <<operand_full, operand, tma, mma, retired, phase>>
  BY DEF OperandInv, OperandTypes, CommitEmpty, buffers, epilogue
<1>2. Chain(k) /\ OperandRing(k)
  BY OperandChain DEF OperandInv
<1>3. PICK n : n = Fills(retired, k, P) - owed_empty[k]
  OBVIOUS
<1>4. operand_empty[k] = Barrier(1, 1, 0, n) /\ n = operand_empty[k].done /\ n \in Nat
      /\ Fills(retired, k, P) \in Nat
  BY <1>2, <1>3 DEF OperandRing, Chain, Barrier
<1>5. Arrive(operand_empty[k]) = Barrier(1, 1, 0, n + 1)
  BY <1>4, SingleArrive
<1>6. OperandTypes'
  <2>1. Barrier(1, 1, 0, n + 1) \in BarrierType
    BY <1>4 DEF Barrier, BarrierType
  <2> QED BY <1>1, <1>5, <2>1 DEF OperandInv, OperandTypes
<1>7. ASSUME NEW m \in Slots PROVE OperandRing(m)'
  <2>1. OperandRing(m) /\ Issued(m)' = Issued(m)
    BY <1>1 DEF OperandInv, Issued
  <2>2. CASE m = k
    <3>1. operand_empty'[k] = Barrier(1, 1, 0, n + 1) /\ owed_empty'[k] = owed_empty[k] - 1
      BY <1>1, <1>5 DEF OperandInv, OperandTypes
    <3>2. n + 1 = Fills(retired, k, P) - owed_empty'[k]
      BY <1>1, <1>3, <1>4, <3>1
    <3>3. operand_empty'[k].done = n + 1 /\ Issued(k) <= n + 1 + 1
      BY <1>2, <1>4, <3>1 DEF Chain, Barrier
    <3> QED BY <1>1, <2>1, <2>2, <3>1, <3>2, <3>3 DEF OperandRing
  <2>3. CASE m # k
    <3>1. operand_empty'[m] = operand_empty[m] /\ owed_empty'[m] = owed_empty[m]
      BY <1>1, <2>3 DEF OperandInv, OperandTypes
    <3> QED BY <1>1, <2>1, <3>1 DEF OperandRing
  <2> QED BY <2>2, <2>3
<1> QED BY <1>6, <1>7 DEF OperandInv, Slots

OperandVars == <<operand_full, operand_empty, operand, tma, mma, retired, owed_empty>>

\* A new phase of the block, at most.
LEMMA OperandUnchanged ==
  ASSUME OperandInv, UNCHANGED OperandVars, phase' = "rings" => phase = "rings"
  PROVE  OperandInv'
<1>1. OperandTypes'
  BY DEF OperandInv, OperandTypes, OperandVars
<1>2. \A m \in Slots : OperandRing(m)'
  BY DEF OperandInv, OperandVars, OperandRing, Issued
<1> QED BY <1>1, <1>2 DEF OperandInv, Slots

LEMMA WriteExchangeOperand ==
  ASSUME OperandInv, NEW w \in Warps, WriteExchange(w)
  PROVE  OperandInv'
<1>1. /\ operand' = [k \in Slots |-> [group |-> Staged, landed |-> operand[k].landed]]
      /\ UNCHANGED <<operand_full, operand_empty, tma, mma, retired, owed_empty>>
      /\ phase' = "write"
  BY DEF WriteExchange, full_empty, matrix
<1>2. \A k \in Slots : operand'[k].landed = operand[k].landed /\ operand[k].landed \in BOOLEAN
  BY <1>1 DEF OperandInv, OperandTypes
<1>3. OperandTypes'
  BY <1>1, <1>2 DEF OperandInv, OperandTypes
<1>4. \A m \in Slots : OperandRing(m)'
  BY <1>1, <1>2 DEF OperandInv, OperandRing, Issued
<1> QED BY <1>3, <1>4 DEF OperandInv, Slots

LEMMA OperandInit ==
  ASSUME Shape, Init
  PROVE  OperandInv
<1>1. /\ operand_full = [k \in Slots |-> Barrier(1, 1, 0, 0)]
      /\ operand_empty = [k \in Slots |-> Barrier(1, 1, 0, 0)]
      /\ operand = [k \in Slots |-> [group |-> Garbage, landed |-> TRUE]]
      /\ owed_empty = [k \in Slots |-> 0] /\ tma = 0 /\ mma = 0 /\ retired = 0
  BY DEF Init, NewBarrier
<1>2. OperandTypes
  BY <1>1, Sizes DEF OperandTypes, Barrier, BarrierType
<1>3. \A k \in Slots : Fills(0, k, P) = 0
  BY Sizes, FillsZero
<1>4. \A k \in Slots : OperandRing(k)
  BY <1>1, <1>3 DEF OperandRing, Issued, Barrier
<1> QED BY <1>2, <1>4 DEF OperandInv

LEMMA OperandNext ==
  ASSUME Shape, OperandInv, [Next]_vars
  PROVE  OperandInv'
<1>1. CASE TmaIssue
  BY <1>1, TmaIssueOperand
<1>2. CASE MmaIssue
  BY <1>2, MmaIssueOperand
<1>3. CASE MmaRetire
  BY <1>3, MmaRetireOperand
<1>4. CASE \E k \in Slots : TmaLand(k) \/ CommitEmpty(k)
  BY <1>4, TmaLandOperand, CommitEmptyOperand
<1>5. CASE \E j \in Stages : CommitFull(j)
  BY <1>5, OperandUnchanged DEF CommitFull, OperandVars, buffers, epilogue
<1>6. CASE \E l \in ScaleLanes : ScaleStore(l)
  BY <1>6, OperandUnchanged DEF ScaleStore, OperandVars, matrix, epilogue
<1>7. CASE \E w \in Warps : ConsumerRead(w)
  BY <1>7, OperandUnchanged DEF ConsumerRead, OperandVars, full_empty, buffers, matrix, epilogue
<1>8. CASE \E w \in Warps, l \in Lanes : ConsumerRelease(w, l)
  BY <1>8, OperandUnchanged DEF ConsumerRelease, OperandVars, buffers, matrix, epilogue
<1>9. CASE \E w \in Warps : WriteExchange(w)
  BY <1>9, WriteExchangeOperand
<1>10. CASE \E w \in Warps : StoreRows(w)
  BY <1>10, OperandUnchanged DEF StoreRows, OperandVars, full_empty, buffers, matrix
<1>11. CASE Joined \/ Sync
  BY <1>11, OperandUnchanged DEF Joined, Sync, OperandVars, full_empty, buffers, matrix
<1>12. CASE UNCHANGED vars
  BY <1>12, OperandUnchanged DEF vars, OperandVars, full_empty, buffers, matrix, epilogue
<1> QED BY <1>1, <1>2, <1>3, <1>4, <1>5, <1>6, <1>7, <1>8, <1>9, <1>10, <1>11, <1>12
        DEF Next, Terminated

-----------------------------------------------------------------------------
(* The consumers' cursors.                                                 *)

Cursors(w) ==
  /\ group[w] \in Nat /\ Begun(w) \in Nat
  /\ Begun(w) = IF held[w] = {} THEN group[w] ELSE group[w] + 1
  /\ \A l \in Lanes :
       /\ <<w, l>> \in Threads
       /\ Reached[<<w, l>>] = IF held[w] = {} \/ l \in held[w] THEN group[w] ELSE group[w] + 1
       /\ Reached[<<w, l>>] <= Begun(w)

LEMMA CursorTypes ==
  ASSUME Shape, ConsumerTypes
  PROVE  Reached \in [Threads -> Nat] /\ \A w \in Warps : Cursors(w)
<1>1. \A w \in Warps : group[w] \in Nat /\ group[w] <= Groups
  BY Sizes DEF ConsumerTypes
<1>2. \A t \in Threads : t[1] \in Warps /\ t[2] \in Lanes
  BY DEF Threads
<1>3. \A w \in Warps, l \in Lanes : <<w, l>> \in Threads
  BY DEF Threads
<1>4. \A w \in Warps : Begun(w) = IF held[w] = {} THEN group[w] ELSE group[w] + 1
  BY <1>1 DEF Begun, Bit
<1>5. \A w \in Warps, l \in Lanes :
        Reached[<<w, l>>] = IF held[w] = {} \/ l \in held[w] THEN group[w] ELSE group[w] + 1
  <2> SUFFICES ASSUME NEW w \in Warps, NEW l \in Lanes
               PROVE  Reached[<<w, l>>] = IF held[w] = {} \/ l \in held[w] THEN group[w]
                                                                       ELSE group[w] + 1
    OBVIOUS
  <2>1. Reached[<<w, l>>] = group[w] + Bit(held[w] # {} /\ l \notin held[w])
    BY <1>3 DEF Reached
  <2> QED BY <1>1, <2>1 DEF Bit
<1>6. Reached \in [Threads -> Nat]
  BY <1>1, <1>2 DEF Reached, Bit
<1> QED BY <1>1, <1>3, <1>4, <1>5, <1>6 DEF Cursors

LEMMA CursorTypesNext == (Shape /\ ConsumerTypes => /\ Reached \in [Threads -> Nat]
                                                   /\ \A w \in Warps : Cursors(w))'
<1>1. Shape /\ ConsumerTypes => Reached \in [Threads -> Nat] /\ \A w \in Warps : Cursors(w)
  BY CursorTypes
<1> QED BY <1>1, PTL

KeepsCursors == Reached' = Reached /\ group' = group /\ \A w \in Warps : Begun(w)' = Begun(w)

LEMMA CursorsUnchanged ==
  ASSUME ConsumerTypes, UNCHANGED <<group, held>>
  PROVE  ConsumerTypes' /\ KeepsCursors
BY DEF ConsumerTypes, KeepsCursors, Reached, Begun

\* All lanes of a warp begin to read a group.
LEMMA ReadCursors ==
  ASSUME Shape, ConsumerTypes, NEW w \in Warps, ConsumerRead(w)
  PROVE  /\ ConsumerTypes' /\ Reached' = Reached /\ group' = group
         /\ group[w] \in Nat /\ Begun(w) = group[w] /\ Begun(w)' = group[w] + 1
         /\ \A v \in Warps \ {w} : Begun(v)' = Begun(v)
         /\ \A l \in Lanes : Reached[<<w, l>>] = group[w]
<1>1. /\ held[w] = {} /\ held' = [held EXCEPT ![w] = Lanes] /\ group' = group
      /\ group[w] < Groups
  BY DEF ConsumerRead
<1>2. ConsumerTypes'
  BY <1>1 DEF ConsumerTypes
<1>3. \A v \in Warps : held'[v] = IF v = w THEN Lanes ELSE held[v]
  BY <1>1 DEF ConsumerTypes
<1>4. Reached' = Reached
  <2>1. \A t \in Threads : t[1] \in Warps /\ t[2] \in Lanes
    BY DEF Threads
  <2>2. \A t \in Threads : (held'[t[1]] # {} /\ t[2] \notin held'[t[1]])
                           <=> (held[t[1]] # {} /\ t[2] \notin held[t[1]])
    BY <1>1, <1>3, <2>1
  <2> QED BY <1>1, <2>2 DEF Reached, Bit
<1>5. Begun(w)' = group[w] + 1 /\ \A v \in Warps \ {w} : Begun(v)' = Begun(v)
  BY <1>1, <1>3, Sizes DEF Begun, Bit
<1>6. Cursors(w)
  BY CursorTypes
<1> QED BY <1>1, <1>2, <1>4, <1>5, <1>6 DEF Cursors

\* One lane of a warp releases it.
LEMMA ReleaseCursors ==
  ASSUME Shape, ConsumerTypes, NEW w \in Warps, NEW l \in Lanes, ConsumerRelease(w, l)
  PROVE  /\ ConsumerTypes' /\ <<w, l>> \in Threads
         /\ group[w] \in Nat /\ Begun(w) = group[w] + 1 /\ \A v \in Warps : Begun(v)' = Begun(v)
         /\ Reached[<<w, l>>] = group[w]
         /\ Reached' = [Reached EXCEPT ![<<w, l>>] = @ + 1]
<1>1. /\ l \in held[w] /\ held' = [held EXCEPT ![w] = @ \ {l}]
      /\ group' = IF held[w] = {l} THEN [group EXCEPT ![w] = group[w] + 1] ELSE group
  BY DEF ConsumerRelease
<1>2. group[w] \in Nat /\ group[w] + 1 \in 0 .. Groups
  BY <1>1, Sizes DEF ConsumerTypes
<1>3. \A v \in Warps : /\ held'[v] = IF v = w THEN held[w] \ {l} ELSE held[v]
                       /\ group'[v] = IF v = w /\ held[w] = {l} THEN group[w] + 1 ELSE group[v]
  BY <1>1 DEF ConsumerTypes
<1>4. ConsumerTypes'
  <2>1. group' \in [Warps -> 0 .. Groups] /\ held' \in [Warps -> SUBSET Lanes]
    BY <1>1, <1>2 DEF ConsumerTypes
  <2>2. ASSUME NEW v \in Warps, held'[v] # {} PROVE group'[v] < Groups
    <3>1. v = w => held[w] # {l}
      BY <1>1, <1>3, <2>2
    <3> QED BY <1>1, <1>3, <2>2, <3>1 DEF ConsumerTypes
  <2> QED BY <2>1, <2>2 DEF ConsumerTypes
<1>5. \A v \in Warps : Cursors(v) /\ Cursors(v)'
  <2>1. \A v \in Warps : Cursors(v)
    BY CursorTypes
  <2>2. \A v \in Warps : Cursors(v)'
    BY <1>4, CursorTypesNext
  <2> QED BY <2>1, <2>2
<1>6. Begun(w) = group[w] + 1 /\ Reached[<<w, l>>] = group[w] /\ <<w, l>> \in Threads
  BY <1>1, <1>5 DEF Cursors
<1>7. \A v \in Warps : Begun(v)' = Begun(v)
  <2> SUFFICES ASSUME NEW v \in Warps PROVE Begun(v)' = Begun(v)
    OBVIOUS
  <2>1. Begun(v) = (IF held[v] = {} THEN group[v] ELSE group[v] + 1)
        /\ Begun(v)' = IF held'[v] = {} THEN group'[v] ELSE group'[v] + 1
    BY <1>5 DEF Cursors
  <2>2. v = w => (held'[v] = {} <=> held[w] = {l})
    BY <1>1, <1>3
  <2> QED BY <1>1, <1>3, <2>1, <2>2
<1>8. ASSUME NEW v \in Warps, NEW m \in Lanes
      PROVE  Reached'[<<v, m>>] = IF v = w /\ m = l THEN Reached[<<v, m>>] + 1 ELSE Reached[<<v, m>>]
  <2>1. /\ Reached[<<v, m>>] = (IF held[v] = {} \/ m \in held[v] THEN group[v] ELSE group[v] + 1)
        /\ Reached'[<<v, m>>] = IF held'[v] = {} \/ m \in held'[v] THEN group'[v] ELSE group'[v] + 1
    BY <1>5 DEF Cursors
  <2>2. CASE v # w
    BY <1>3, <2>1, <2>2
  <2>3. CASE v = w /\ held[w] = {l}
    BY <1>3, <2>1, <2>3
  <2>4. CASE v = w /\ held[w] # {l}
    <3>1. held'[w] # {} /\ group'[w] = group[w]
      BY <1>1, <1>3, <2>4
    <3> QED BY <1>1, <1>3, <2>1, <2>4, <3>1
  <2> QED BY <2>2, <2>3, <2>4
<1>9. Reached' = [Reached EXCEPT ![<<w, l>>] = @ + 1]
  <2>1. Reached \in [Threads -> Nat] /\ Reached' \in [Threads -> Nat]
    BY <1>4, CursorTypes, CursorTypesNext
  <2>2. \A t \in Threads : \E v \in Warps, m \in Lanes : t = <<v, m>>
    BY DEF Threads
  <2>3. \A t \in Threads : Reached'[t] = IF t = <<w, l>> THEN Reached[t] + 1 ELSE Reached[t]
    BY <1>8, <2>2
  <2>4. PICK R, Q : R = Reached /\ Q = Reached'
    OBVIOUS
  <2>5. Q = [R EXCEPT ![<<w, l>>] = @ + 1]
    BY ONLY <1>6, <2>1, <2>3, <2>4
  <2> QED BY <2>4, <2>5
<1> QED BY <1>2, <1>4, <1>6, <1>7, <1>9

-----------------------------------------------------------------------------
(* The scale ring.                                                         *)

\* A slot is read after every scale lane wrote it, and written again after
\* every thread released it.
ScaleChain(k, w, l, m) ==
  /\ scale_full[k].done \in Nat /\ scale_empty[k].done \in Nat
  /\ Fills(Reached[<<w, l>>], k, P) \in {scale_empty[k].done, scale_empty[k].done + 1}
  /\ Fills(Reached[<<w, l>>], k, P) <= Fills(Begun(w), k, P)
  /\ Fills(Begun(w), k, P) \in Nat /\ Fills(sf[m], k, P) \in Nat
  /\ Fills(Begun(w), k, P) <= scale_full[k].done
  /\ Fills(sf[m], k, P) \in {scale_full[k].done, scale_full[k].done + 1}
  /\ Fills(sf[m], k, P) <= scale_empty[k].done + 1

LEMMA ScaleChains ==
  ASSUME Shape, ConsumerTypes, ScaleInv, NEW k \in Slots, NEW w \in Warps, NEW l \in Lanes,
         NEW m \in ScaleLanes
  PROVE  ScaleChain(k, w, l, m)
<1>1. ScaleRing(k) /\ sf[m] \in Nat /\ k \in 0 .. P - 1
  BY Sizes DEF ScaleInv, ScaleTypes
<1>2. /\ scale_full[k].done \in Nat /\ scale_empty[k].done \in Nat
      /\ Laps(ScaleLanes, sf, k, P)[m] \in {scale_full[k].done, scale_full[k].done + 1}
      /\ \A t \in Threads :
           Laps(Threads, Reached, k, P)[t] \in {scale_empty[k].done, scale_empty[k].done + 1}
  BY <1>1, CountedDone DEF ScaleRing
<1>3. Cursors(w) /\ Reached \in [Threads -> Nat]
  BY CursorTypes
<1>4. /\ Reached[<<w, l>>] \in Nat /\ Begun(w) \in Nat /\ Reached[<<w, l>>] <= Begun(w)
      /\ <<w, l>> \in Threads
  BY <1>3 DEF Cursors
<1>5. /\ Fills(Reached[<<w, l>>], k, P) <= Fills(Begun(w), k, P)
      /\ Fills(Begun(w), k, P) \in Nat /\ Fills(sf[m], k, P) \in Nat
  BY <1>1, <1>4, Sizes, FillsGrow, FillsNext
<1>6. /\ Fills(Reached[<<w, l>>], k, P) \in {scale_empty[k].done, scale_empty[k].done + 1}
      /\ Fills(sf[m], k, P) \in {scale_full[k].done, scale_full[k].done + 1}
  BY <1>2, <1>4 DEF Laps
<1> QED BY <1>1, <1>2, <1>5, <1>6 DEF ScaleRing, ScaleChain

\* What a warp reads, and what it waits for before.
LEMMA ScaleHeld ==
  ASSUME Shape, ConsumerTypes, ScaleInv, NEW w \in Warps, held[w] # {}, NEW m \in ScaleLanes
  PROVE  scale[group[w] % P][m] = group[w]
<1>1. PICK l \in Lanes : l \in held[w]
  BY DEF ConsumerTypes
<1>2. Cursors(w)
  BY CursorTypes
<1>3. group[w] \in Nat /\ Reached[<<w, l>>] = group[w] /\ Begun(w) = group[w] + 1
  BY <1>1, <1>2 DEF Cursors
<1>4. PICK g, k, q : g = group[w] /\ At(g, P, k, q) /\ k = g % P /\ q = g \div P
  BY <1>3, AtGroup, Sizes
<1>5. k \in Slots /\ q \in Nat /\ g = q * P + k /\ Fills(g, k, P) = q /\ Fills(g + 1, k, P) = q + 1
  BY <1>4, Sizes DEF At
<1>6. ScaleChain(k, w, l, m)
  BY <1>5, ScaleChains
<1>7. Fills(sf[m], k, P) = q + 1
  <2>1. PICK y, f, e : /\ y = Fills(sf[m], k, P)
                       /\ f = scale_full[k].done /\ e = scale_empty[k].done
    OBVIOUS
  <2>2. Fills(Reached[<<w, l>>], k, P) = q /\ Fills(Begun(w), k, P) = q + 1
    BY <1>3, <1>4, <1>5
  <2>3. /\ y \in Nat /\ f \in Nat /\ e \in Nat /\ q \in {e, e + 1}
        /\ q + 1 <= f /\ y \in {f, f + 1} /\ y <= e + 1
    BY <1>6, <2>1, <2>2 DEF ScaleChain
  <2>4. y = q + 1
    BY ONLY <1>5, <2>3
  <2> QED BY <2>1, <2>4
<1>8. scale[k][m] = (q + 1 - 1) * P + k
  BY <1>5, <1>7 DEF ScaleInv, ScaleRing
<1>9. (q + 1 - 1) * P + k = g
  BY <1>5
<1> QED BY <1>4, <1>8, <1>9

LEMMA ScaleStoreScale ==
  ASSUME Shape, ConsumerTypes, ScaleInv, NEW l \in ScaleLanes, ScaleStore(l)
  PROVE  ScaleInv'
<1>1. sf[l] \in Nat /\ sf[l] + 1 \in 0 .. Groups
  BY Sizes DEF ScaleStore, ScaleInv, ScaleTypes
<1>2. PICK g, k, q : g = sf[l] /\ At(g, P, k, q) /\ k = g % P /\ q = g \div P
  BY <1>1, AtGroup, Sizes
<1>3. /\ k \in Slots /\ q \in Nat /\ g = q * P + k /\ Fills(g, k, P) = q
      /\ \A m \in Slots : /\ Fills(g, m, P) \in Nat
                          /\ Fills(g + 1, m, P) = IF m = k THEN q + 1 ELSE Fills(g, m, P)
  BY <1>2, Sizes DEF At
<1>4. /\ scale' = [scale EXCEPT ![k][l] = g]
      /\ scale_full' = [scale_full EXCEPT ![k] = Arrive(@)]
      /\ sf' = [sf EXCEPT ![l] = g + 1]
      /\ g >= P => Passes(scale_empty[k], LastLap(g, P))
      /\ UNCHANGED <<scale_empty, group, held>>
  BY <1>2 DEF ScaleStore, ScaleSlotFree, consumers
<1>5. scale_empty[k].done = q /\ scale_full[k].done = q
  <2>1. PICK w \in Warps, i \in Lanes : TRUE
    BY Sizes
  <2>2. ScaleChain(k, w, i, l)
    BY <1>3, ScaleChains
  <2>3. /\ scale_empty[k].done \in Nat /\ q <= scale_empty[k].done + 1
        /\ scale_empty[k].done <= scale_full[k].done /\ scale_full[k].done <= q
        /\ scale_full[k].done \in Nat
    <3>1. PICK r, b, f, e : /\ r = Fills(Reached[<<w, i>>], k, P) /\ b = Fills(Begun(w), k, P)
                            /\ f = scale_full[k].done /\ e = scale_empty[k].done
      OBVIOUS
    <3>2. Fills(sf[l], k, P) = q
      BY <1>2, <1>3
    <3>3. /\ f \in Nat /\ e \in Nat /\ b \in Nat /\ r \in {e, e + 1} /\ r <= b /\ b <= f
          /\ q \in {f, f + 1} /\ q <= e + 1
      BY <2>2, <3>1, <3>2 DEF ScaleChain
    <3>4. e <= f /\ f <= q
      BY ONLY <3>3
    <3> QED BY <3>1, <3>3, <3>4
  <2>4. scale_empty[k].done <= q
    BY <1>3, <2>3
  <2>5. scale_empty[k].done = q
    BY <1>1, <1>2, <1>4, <2>3, <2>4, Sizes, Awaits
  <2> QED BY <1>3, <2>3, <2>5
<1>6. KeepsCursors
  BY <1>4, CursorsUnchanged
<1>7. \A m \in Slots : /\ Counted(scale_full'[m], ScaleLanes, Laps(ScaleLanes, sf', m, P))
                       /\ scale_full'[m].done >= scale_full[m].done /\ scale_full[m].done \in Nat
                       /\ scale_full'[m] \in BarrierType
  <2> SUFFICES ASSUME NEW m \in Slots
               PROVE  /\ Counted(scale_full'[m], ScaleLanes, Laps(ScaleLanes, sf', m, P))
                      /\ scale_full'[m].done >= scale_full[m].done /\ scale_full[m].done \in Nat
                      /\ scale_full'[m] \in BarrierType
    OBVIOUS
  <2>1. Arrival(ScaleLanes, P, sf, sf', l)
    BY <1>1, <1>2, <1>4, Sizes DEF Arrival, ScaleInv, ScaleTypes
  <2>2. Counted(scale_full[m], ScaleLanes, Laps(ScaleLanes, sf, m, P)) /\ m \in 0 .. P - 1
    BY Sizes DEF ScaleInv, ScaleRing
  <2>3. scale_full'[m] = IF m = sf[l] % P THEN Arrive(scale_full[m]) ELSE scale_full[m]
    BY <1>2, <1>4 DEF ScaleInv, ScaleTypes
  <2>4. m = sf[l] % P => scale_full[m].done = sf[l] \div P
    BY <1>2, <1>5
  <2>5. /\ Counted(scale_full'[m], ScaleLanes, Laps(ScaleLanes, sf', m, P))
        /\ scale_full'[m].done >= scale_full[m].done /\ scale_full[m].done \in Nat
    BY <2>1, <2>2, <2>3, <2>4, Sizes, CountedNext
  <2> QED BY <2>5, CountedDone
<1>8. ScaleTypes'
  <2>1. scale_full' \in [Slots -> BarrierType]
    BY <1>4, <1>7 DEF ScaleInv, ScaleTypes
  <2>2. sf' \in [ScaleLanes -> 0 .. Groups]
    BY <1>1, <1>2, <1>4 DEF ScaleInv, ScaleTypes
  <2>3. scale' \in [Slots -> [ScaleLanes -> Int]]
    <3>1. scale \in [Slots -> [ScaleLanes -> Int]] /\ g \in Int
      BY <1>1, <1>2 DEF ScaleInv, ScaleTypes
    <3>2. scale' = [scale EXCEPT ![k] = [@ EXCEPT ![l] = g]]
      BY <1>4
    <3> QED BY ONLY <3>1, <3>2, <1>3, l \in ScaleLanes
  <2> QED BY <1>4, <2>1, <2>2, <2>3 DEF ScaleInv, ScaleTypes
<1>9. ASSUME NEW m \in Slots PROVE ScaleRing(m)'
  <2>1. ScaleRing(m)
    BY DEF ScaleInv
  <2>2. Counted(scale_empty'[m], Threads, Laps(Threads, Reached', m, P))
    BY <1>4, <1>6, <2>1 DEF ScaleRing, KeepsCursors
  <2>3. ASSUME NEW i \in ScaleLanes
        PROVE  /\ Fills(sf'[i], m, P) <= scale_empty'[m].done + 1
               /\ Fills(sf'[i], m, P) > 0 => scale'[m][i] = (Fills(sf'[i], m, P) - 1) * P + m
    <3>1. /\ sf'[i] = IF i = l THEN g + 1 ELSE sf[i]
          /\ scale'[m][i] = IF m = k /\ i = l THEN g ELSE scale[m][i]
      BY <1>4 DEF ScaleInv, ScaleTypes
    <3>2. CASE m = k /\ i = l
      <4>1. Fills(sf'[i], m, P) = q + 1 /\ scale'[m][i] = g
        BY <1>3, <3>1, <3>2
      <4>2. (q + 1 - 1) * P + k = g
        BY <1>3
      <4>3. scale_empty'[m].done = q
        BY <1>4, <1>5, <3>2
      <4>4. q + 1 <= q + 1 /\ q \in Nat
        BY <1>3
      <4> QED BY <3>2, <4>1, <4>2, <4>3, <4>4
    <3>3. CASE ~(m = k /\ i = l)
      <4>1. Fills(sf'[i], m, P) = Fills(sf[i], m, P)
        BY <1>2, <1>3, <3>1, <3>3
      <4> QED BY <1>4, <2>1, <3>1, <3>3, <4>1 DEF ScaleRing
    <3> QED BY <3>2, <3>3
  <2>4. ASSUME NEW w \in Warps PROVE Fills(Begun(w)', m, P) <= scale_full'[m].done
    <3>1. Fills(Begun(w), m, P) <= scale_full[m].done /\ Begun(w)' = Begun(w)
      BY <1>6, <2>1 DEF ScaleRing, KeepsCursors
    <3>2. Cursors(w)
      BY CursorTypes
    <3>3. Fills(Begun(w), m, P) \in Nat
      BY <3>2, Sizes, FillsNext DEF Cursors
    <3>4. scale_full'[m].done \in Nat
      BY <1>7, CountedDone
    <3> QED BY <1>7, <3>1, <3>3, <3>4
  <2> QED BY <1>7, <2>2, <2>3, <2>4 DEF ScaleRing
<1> QED BY <1>8, <1>9 DEF ScaleInv, Slots

LEMMA ConsumerReadScale ==
  ASSUME Shape, ConsumerTypes, ScaleInv, NEW w \in Warps, ConsumerRead(w)
  PROVE  ScaleInv'
<1>1. /\ UNCHANGED <<scale_full, scale_empty, scale, sf>>
      /\ Passes(scale_full[group[w] % P], ThisLap(group[w], P))
  BY DEF ConsumerRead, full_empty, buffers
<1>2. /\ Reached' = Reached /\ group[w] \in Nat /\ Begun(w) = group[w]
      /\ Begun(w)' = group[w] + 1 /\ \A v \in Warps \ {w} : Begun(v)' = Begun(v)
      /\ \A l \in Lanes : Reached[<<w, l>>] = group[w]
  BY ReadCursors
<1>3. PICK g, k, q : g = group[w] /\ At(g, P, k, q) /\ k = g % P /\ q = g \div P
  BY <1>2, AtGroup, Sizes
<1>4. /\ k \in Slots /\ q \in Nat /\ Fills(g, k, P) = q
      /\ \A m \in Slots : Fills(g + 1, m, P) = IF m = k THEN q + 1 ELSE Fills(g, m, P)
  BY <1>3, Sizes DEF At
<1>5. scale_full[k].done = q + 1
  <2>1. PICK l \in Lanes, m \in ScaleLanes : TRUE
    BY Sizes
  <2>2. ScaleChain(k, w, l, m)
    BY <1>4, ScaleChains
  <2>3. scale_full[k].done \in {q, q + 1}
    BY <1>2, <1>3, <1>4, <2>2 DEF ScaleChain
  <2>4. Passes(scale_full[k], q % 2)
    BY <1>1, <1>3 DEF ThisLap
  <2>5. q \in Int
    BY <1>4
  <2> QED BY <2>3, <2>4, <2>5, ParityWait
<1>6. ScaleTypes'
  BY <1>1 DEF ScaleInv, ScaleTypes
<1>7. ASSUME NEW m \in Slots PROVE ScaleRing(m)'
  <2>1. ScaleRing(m)
    BY DEF ScaleInv
  <2>2. \A v \in Warps : Fills(Begun(v)', m, P) <= scale_full[m].done
    <3>1. \A v \in Warps \ {w} : Fills(Begun(v)', m, P) <= scale_full[m].done
      BY <1>2, <2>1 DEF ScaleRing
    <3>2. Fills(g, m, P) <= scale_full[m].done
      BY <1>2, <1>3, <2>1 DEF ScaleRing
    <3>3. Fills(g + 1, m, P) <= scale_full[m].done
      BY <1>4, <1>5, <3>2
    <3> QED BY <1>2, <1>3, <3>1, <3>3
  <2> QED BY <1>1, <1>2, <2>1, <2>2 DEF ScaleRing
<1> QED BY <1>6, <1>7 DEF ScaleInv, Slots

LEMMA ConsumerReleaseScale ==
  ASSUME Shape, ConsumerTypes, ScaleInv, NEW w \in Warps, NEW l \in Lanes, ConsumerRelease(w, l)
  PROVE  ScaleInv'
<1>1. /\ UNCHANGED <<scale_full, scale, sf>>
      /\ scale_empty' = [scale_empty EXCEPT ![group[w] % P] = Arrive(@)]
  BY DEF ConsumerRelease, buffers
<1>2. /\ <<w, l>> \in Threads /\ group[w] \in Nat /\ Begun(w) = group[w] + 1
      /\ \A v \in Warps : Begun(v)' = Begun(v)
      /\ Reached[<<w, l>>] = group[w] /\ Reached' = [Reached EXCEPT ![<<w, l>>] = @ + 1]
  BY ReleaseCursors
<1>3. PICK g, k, q : g = group[w] /\ At(g, P, k, q) /\ k = g % P /\ q = g \div P
  BY <1>2, AtGroup, Sizes
<1>4. /\ k \in Slots /\ q \in Nat /\ Fills(g, k, P) = q /\ Fills(g + 1, k, P) = q + 1
  BY <1>3, Sizes DEF At
<1>5. scale_empty[k].done = q
  <2>1. PICK m \in ScaleLanes : TRUE
    BY Sizes
  <2>2. ScaleChain(k, w, l, m)
    BY <1>4, ScaleChains
  <2> QED BY <1>2, <1>3, <1>4, <2>2 DEF ScaleChain
<1>6. \A m \in Slots : /\ Counted(scale_empty'[m], Threads, Laps(Threads, Reached', m, P))
                       /\ scale_empty'[m].done >= scale_empty[m].done /\ scale_empty[m].done \in Nat
                       /\ scale_empty'[m] \in BarrierType
  <2> SUFFICES ASSUME NEW m \in Slots
               PROVE  /\ Counted(scale_empty'[m], Threads, Laps(Threads, Reached', m, P))
                      /\ scale_empty'[m].done >= scale_empty[m].done /\ scale_empty[m].done \in Nat
                      /\ scale_empty'[m] \in BarrierType
    OBVIOUS
  <2>0. PICK t : t = <<w, l>>
    OBVIOUS
  <2>1. Arrival(Threads, P, Reached, Reached', t)
    BY <1>2, <2>0, CursorTypes DEF Arrival
  <2>2. Counted(scale_empty[m], Threads, Laps(Threads, Reached, m, P)) /\ m \in 0 .. P - 1
    BY Sizes DEF ScaleInv, ScaleRing
  <2>3. scale_empty'[m] = IF m = Reached[t] % P THEN Arrive(scale_empty[m]) ELSE scale_empty[m]
    BY <1>1, <1>2, <2>0 DEF ScaleInv, ScaleTypes
  <2>4. m = Reached[t] % P => scale_empty[m].done = Reached[t] \div P
    BY <1>2, <1>3, <1>5, <2>0
  <2>5. /\ Counted(scale_empty'[m], Threads, Laps(Threads, Reached', m, P))
        /\ scale_empty'[m].done >= scale_empty[m].done /\ scale_empty[m].done \in Nat
    BY <2>1, <2>2, <2>3, <2>4, Sizes, CountedNext
  <2> QED BY <2>5, CountedDone
<1>7. ScaleTypes'
  BY <1>1, <1>6 DEF ScaleInv, ScaleTypes
<1>8. ASSUME NEW m \in Slots PROVE ScaleRing(m)'
  <2>1. ScaleRing(m) /\ m \in 0 .. P - 1
    BY Sizes DEF ScaleInv
  <2>2. \A i \in ScaleLanes : Fills(sf[i], m, P) <= scale_empty'[m].done + 1
    <3> SUFFICES ASSUME NEW i \in ScaleLanes PROVE Fills(sf[i], m, P) <= scale_empty'[m].done + 1
      OBVIOUS
    <3>1. sf[i] \in Nat
      BY Sizes DEF ScaleInv, ScaleTypes
    <3>2. Fills(sf[i], m, P) \in Nat /\ Fills(sf[i], m, P) <= scale_empty[m].done + 1
      BY <2>1, <3>1, Sizes, FillsNext DEF ScaleRing
    <3>3. scale_empty'[m].done \in Nat
      BY <1>6, CountedDone
    <3> QED BY <1>6, <3>2, <3>3
  <2> QED BY <1>1, <1>2, <1>6, <2>1, <2>2 DEF ScaleRing
<1> QED BY <1>7, <1>8 DEF ScaleInv, Slots

LEMMA ScaleUnchanged ==
  ASSUME ScaleInv, KeepsCursors, UNCHANGED <<scale_full, scale_empty, scale, sf>>
  PROVE  ScaleInv'
<1>1. ScaleTypes'
  BY DEF ScaleInv, ScaleTypes
<1>2. \A m \in Slots : ScaleRing(m)'
  BY DEF ScaleInv, ScaleRing, KeepsCursors
<1> QED BY <1>1, <1>2 DEF ScaleInv, Slots

-----------------------------------------------------------------------------
(* The accumulators.                                                       *)

\* An accumulator is read after its MMA retired, and given to another MMA
\* after every thread released it.
StageChain(j, w, l) ==
  /\ accumulator_full[j].done \in Nat /\ accumulator_empty[j].done \in Nat
  /\ Fills(Reached[<<w, l>>], j, 2) \in {accumulator_empty[j].done, accumulator_empty[j].done + 1}
  /\ Fills(Reached[<<w, l>>], j, 2) <= Fills(Begun(w), j, 2)
  /\ Fills(Begun(w), j, 2) \in Nat /\ Fills(mma, j, 2) \in Nat /\ Fills(retired, j, 2) \in Nat
  /\ Fills(Begun(w), j, 2) <= accumulator_full[j].done
  /\ accumulator_full[j].done <= Fills(retired, j, 2)
  /\ Fills(retired, j, 2) <= Fills(mma, j, 2)
  /\ Fills(mma, j, 2) <= accumulator_empty[j].done + 1

LEMMA StageChains ==
  ASSUME Shape, ConsumerTypes, OperandInv, StageInv, NEW j \in Stages, NEW w \in Warps,
         NEW l \in Lanes
  PROVE  StageChain(j, w, l)
<1>1. /\ StageRing(j) /\ mma \in Nat /\ retired \in Nat /\ retired <= mma /\ j \in 0 .. 2 - 1
      /\ owed_full[j] \in Nat /\ accumulator_full[j] \in BarrierType
  BY Sizes DEF StageInv, StageTypes, OperandInv, OperandTypes
<1>2. /\ accumulator_empty[j].done \in Nat
      /\ \A t \in Threads : Laps(Threads, Reached, j, 2)[t]
                              \in {accumulator_empty[j].done, accumulator_empty[j].done + 1}
  BY <1>1, CountedDone DEF StageRing
<1>3. Cursors(w) /\ Reached \in [Threads -> Nat]
  BY CursorTypes
<1>4. /\ Reached[<<w, l>>] \in Nat /\ Begun(w) \in Nat /\ Reached[<<w, l>>] <= Begun(w)
      /\ <<w, l>> \in Threads
  BY <1>3 DEF Cursors
<1>5. /\ Fills(Reached[<<w, l>>], j, 2) <= Fills(Begun(w), j, 2)
      /\ Fills(Begun(w), j, 2) \in Nat /\ Fills(mma, j, 2) \in Nat /\ Fills(retired, j, 2) \in Nat
      /\ Fills(retired, j, 2) <= Fills(mma, j, 2)
  BY <1>1, <1>4, Sizes, FillsGrow, FillsNext
<1>6. Fills(Reached[<<w, l>>], j, 2) \in {accumulator_empty[j].done, accumulator_empty[j].done + 1}
  BY <1>2, <1>4 DEF Laps
<1>7. accumulator_full[j].done = Fills(retired, j, 2) - owed_full[j]
  BY <1>1 DEF StageRing, Barrier
<1>8. accumulator_full[j].done \in Nat /\ accumulator_full[j].done <= Fills(retired, j, 2)
  BY <1>1, <1>5, <1>7 DEF BarrierType
<1> QED BY <1>1, <1>2, <1>5, <1>6, <1>8 DEF StageRing, StageChain

LEMMA StageHeld ==
  ASSUME Shape, ConsumerTypes, OperandInv, StageInv, NEW w \in Warps, held[w] # {}
  PROVE  tmem[group[w] % 2] = group[w]
<1>1. PICK l \in Lanes : l \in held[w]
  BY DEF ConsumerTypes
<1>2. Cursors(w)
  BY CursorTypes
<1>3. group[w] \in Nat /\ Reached[<<w, l>>] = group[w] /\ Begun(w) = group[w] + 1
  BY <1>1, <1>2 DEF Cursors
<1>4. PICK g, j, q : g = group[w] /\ At(g, 2, j, q) /\ j = g % 2 /\ q = g \div 2
  BY <1>3, AtGroup, Sizes
<1>5. j \in Stages /\ q \in Nat /\ g = q * 2 + j /\ Fills(g, j, 2) = q /\ Fills(g + 1, j, 2) = q + 1
  BY <1>4, Sizes DEF At
<1>6. StageChain(j, w, l)
  BY <1>5, StageChains
<1>7. Fills(mma, j, 2) = q + 1 /\ Fills(retired, j, 2) = q + 1
  <2>1. PICK x, y, f, e : /\ x = Fills(mma, j, 2) /\ y = Fills(retired, j, 2)
                          /\ f = accumulator_full[j].done /\ e = accumulator_empty[j].done
    OBVIOUS
  <2>2. Fills(Reached[<<w, l>>], j, 2) = q /\ Fills(Begun(w), j, 2) = q + 1
    BY <1>3, <1>4, <1>5
  <2>3. /\ x \in Nat /\ y \in Nat /\ f \in Nat /\ e \in Nat /\ q \in {e, e + 1}
        /\ q + 1 <= f /\ f <= y /\ y <= x /\ x <= e + 1
    BY <1>6, <2>1, <2>2 DEF StageChain
  <2>4. x = q + 1 /\ y = q + 1
    BY ONLY <1>5, <2>3
  <2> QED BY <2>1, <2>4
<1>8. tmem[j] = (q + 1 - 1) * 2 + j
  BY <1>5, <1>7 DEF StageInv, StageRing
<1> QED BY <1>4, <1>5, <1>8

LEMMA MmaIssueStage ==
  ASSUME Shape, ConsumerTypes, OperandInv, StageInv, MmaIssue
  PROVE  StageInv'
<1>1. /\ mma \in Nat /\ mma' = mma + 1 /\ tmem' = [tmem EXCEPT ![mma % 2] = Garbage]
      /\ mma >= 2 => Passes(accumulator_empty[mma % 2], LastLap(mma, 2))
      /\ UNCHANGED <<accumulator_full, accumulator_empty, retired, owed_full, group, held>>
  BY Sizes DEF OperandInv, OperandTypes, MmaIssue, BufferFree, full_empty, consumers
<1>2. PICK g, j, q : g = mma /\ At(g, 2, j, q) /\ j = g % 2 /\ q = g \div 2
  BY <1>1, AtGroup, Sizes
<1>3. /\ j \in Stages /\ q \in Nat /\ Fills(g, j, 2) = q
      /\ \A m \in Stages : /\ Fills(g, m, 2) \in Nat
                           /\ Fills(g + 1, m, 2) = IF m = j THEN q + 1 ELSE Fills(g, m, 2)
  BY <1>2, Sizes DEF At
<1>4. PICK w \in Warps, l \in Lanes : TRUE
  BY Sizes
<1>5. StageChain(j, w, l)
  BY <1>3, StageChains
<1>6. accumulator_empty[j].done = q /\ Fills(retired, j, 2) <= q
  <2>1. /\ accumulator_empty[j].done \in Nat /\ q <= accumulator_empty[j].done + 1
        /\ accumulator_empty[j].done <= q /\ Fills(retired, j, 2) <= q
    BY <1>2, <1>3, <1>5 DEF StageChain
  <2>2. g \in Nat /\ 2 \in Nat \ {0}
    BY <1>1, <1>2
  <2>3. g >= 2 => Passes(accumulator_empty[j], LastLap(g, 2))
    BY <1>1, <1>2
  <2>4. At(g, 2, j, q) /\ q = g \div 2
    BY <1>2
  <2>5. PICK b : b = accumulator_empty[j]
    OBVIOUS
  <2>6. /\ b.done \in Nat /\ q <= b.done + 1 /\ b.done <= q
        /\ g >= 2 => Passes(b, LastLap(g, 2))
    BY <2>1, <2>3, <2>5
  <2>7. b.done = q
    BY ONLY <2>2, <2>4, <2>6, Awaits
  <2> QED BY <2>1, <2>5, <2>7
<1>7. KeepsCursors
  BY <1>1, CursorsUnchanged
<1>8. StageTypes'
  <2>1. tmem' = [tmem EXCEPT ![j] = Garbage] /\ Garbage \in Int
    BY <1>1, <1>2 DEF Garbage
  <2> QED BY <1>1, <1>3, <2>1 DEF StageInv, StageTypes
<1>9. ASSUME NEW m \in Stages PROVE StageRing(m)'
  <2>1. StageRing(m)
    BY DEF StageInv
  <2>2. Fills(mma + 1, m, 2) <= accumulator_empty[m].done + 1
    BY <1>2, <1>3, <1>6, <2>1 DEF StageRing
  <2>3. Fills(retired, m, 2) = Fills(mma + 1, m, 2) /\ Fills(mma + 1, m, 2) > 0 =>
          tmem'[m] = (Fills(mma + 1, m, 2) - 1) * 2 + m
    <3>1. CASE m = j
      <4>1. Fills(mma + 1, m, 2) = q + 1 /\ ~(q + 1 <= q)
        BY <1>2, <1>3, <3>1
      <4> QED BY <1>6, <3>1, <4>1
    <3>2. CASE m # j
      <4>1. tmem'[m] = tmem[m] /\ Fills(mma + 1, m, 2) = Fills(mma, m, 2)
        BY <1>1, <1>2, <1>3, <3>2 DEF StageInv, StageTypes
      <4> QED BY <2>1, <4>1 DEF StageRing
    <3> QED BY <3>1, <3>2
  <2> QED BY <1>1, <1>7, <2>1, <2>2, <2>3 DEF StageRing, KeepsCursors
<1> QED BY <1>8, <1>9 DEF StageInv, Stages

LEMMA MmaRetireStage ==
  ASSUME Shape, ConsumerTypes, OperandInv, StageInv, phase = "rings", MmaRetire
  PROVE  StageInv'
<1>1. /\ retired \in Nat /\ retired \in retired .. mma - 1 /\ retired' = retired + 1
      /\ tmem' = [tmem EXCEPT ![retired % 2] = Product(retired % P)]
      /\ owed_full' = [owed_full EXCEPT ![retired % 2] = @ + 1]
      /\ UNCHANGED <<accumulator_full, accumulator_empty, mma, group, held>>
  BY Sizes DEF OperandInv, OperandTypes, MmaRetire, full_empty, consumers
<1>2. Product(retired % P) = retired
  <2>1. operand[retired % P] = [group |-> retired, landed |-> TRUE]
    BY <1>1, OperandInFlight
  <2> QED BY <2>1 DEF Product
<1>3. PICK g, j, q : g = retired /\ At(g, 2, j, q) /\ j = g % 2 /\ q = g \div 2
  BY <1>1, AtGroup, Sizes
<1>4. /\ j \in Stages /\ q \in Nat /\ g = q * 2 + j /\ Fills(g, j, 2) = q
      /\ \A m \in Stages : /\ Fills(g, m, 2) \in Nat
                           /\ Fills(g + 1, m, 2) = IF m = j THEN q + 1 ELSE Fills(g, m, 2)
  BY <1>3, Sizes DEF At
<1>5. tmem' = [tmem EXCEPT ![j] = g] /\ owed_full' = [owed_full EXCEPT ![j] = @ + 1]
  BY <1>1, <1>2, <1>3
<1>6. KeepsCursors
  BY <1>1, CursorsUnchanged
<1>7. StageTypes'
  BY <1>1, <1>3, <1>4, <1>5 DEF StageInv, StageTypes
<1>8. ASSUME NEW m \in Stages PROVE StageRing(m)'
  <2>1. StageRing(m) /\ owed_full[m] \in Nat
    BY DEF StageInv, StageTypes
  <2>2. owed_full'[m] = IF m = j THEN owed_full[m] + 1 ELSE owed_full[m]
    BY <1>5 DEF StageInv, StageTypes
  <2>3. Fills(g + 1, m, 2) - owed_full'[m] = Fills(g, m, 2) - owed_full[m]
    BY <1>4, <2>1, <2>2
  <2>4. Fills(g + 1, m, 2) = Fills(mma, m, 2) /\ Fills(mma, m, 2) > 0 =>
          tmem'[m] = (Fills(mma, m, 2) - 1) * 2 + m
    <3>1. CASE m = j
      <4>1. Fills(g + 1, m, 2) = q + 1
        BY <1>4, <3>1
      <4>2. tmem'[m] = g
        BY <1>4, <1>5, <3>1 DEF StageInv, StageTypes
      <4>3. g = (q + 1 - 1) * 2 + j
        BY <1>4
      <4>4. PICK y, z : y = Fills(mma, m, 2) /\ z = Fills(g + 1, m, 2)
        OBVIOUS
      <4>5. z = y => y = q + 1 /\ tmem'[m] = (y - 1) * 2 + m
        BY <1>4, <3>1, <4>1, <4>2, <4>3, <4>4
      <4> QED BY <4>4, <4>5
    <3>2. CASE m # j
      <4>1. tmem'[m] = tmem[m] /\ Fills(g + 1, m, 2) = Fills(g, m, 2)
        BY <1>4, <1>5, <3>2 DEF StageInv, StageTypes
      <4> QED BY <1>3, <2>1, <4>1 DEF StageRing
    <3> QED BY <3>1, <3>2
  <2> QED BY <1>1, <1>3, <1>6, <2>1, <2>3, <2>4 DEF StageRing, KeepsCursors
<1> QED BY <1>7, <1>8 DEF StageInv, Stages

LEMMA CommitFullStage ==
  ASSUME Shape, ConsumerTypes, OperandInv, StageInv, NEW j \in Stages, CommitFull(j)
  PROVE  StageInv'
<1>1. /\ owed_full[j] \in Nat /\ owed_full[j] > 0
      /\ owed_full' = [owed_full EXCEPT ![j] = @ - 1]
      /\ accumulator_full' = [accumulator_full EXCEPT ![j] = Arrive(@)]
      /\ UNCHANGED <<accumulator_empty, tmem, mma, retired, group, held>>
  BY DEF StageInv, StageTypes, CommitFull, buffers, consumers
<1>2. PICK w \in Warps, l \in Lanes : TRUE
  BY Sizes
<1>3. StageChain(j, w, l) /\ StageRing(j)
  BY StageChains DEF StageInv
<1>4. PICK n : n = Fills(retired, j, 2) - owed_full[j]
  OBVIOUS
<1>5. accumulator_full[j] = Barrier(1, 1, 0, n) /\ n = accumulator_full[j].done /\ n \in Nat
      /\ Fills(retired, j, 2) \in Nat
  BY <1>3, <1>4 DEF StageRing, StageChain, Barrier
<1>6. Arrive(accumulator_full[j]) = Barrier(1, 1, 0, n + 1)
  BY <1>5, SingleArrive
<1>7. KeepsCursors
  BY <1>1, CursorsUnchanged
<1>8. StageTypes'
  <2>1. Barrier(1, 1, 0, n + 1) \in BarrierType
    BY <1>5 DEF Barrier, BarrierType
  <2> QED BY <1>1, <1>6, <2>1 DEF StageInv, StageTypes
<1>9. ASSUME NEW m \in Stages PROVE StageRing(m)'
  <2>1. StageRing(m)
    BY DEF StageInv
  <2>2. CASE m = j
    <3>1. accumulator_full'[j] = Barrier(1, 1, 0, n + 1) /\ owed_full'[j] = owed_full[j] - 1
      BY <1>1, <1>6 DEF StageInv, StageTypes
    <3>2. n + 1 = Fills(retired, j, 2) - owed_full'[j]
      BY <1>1, <1>4, <1>5, <3>1
    <3>3. accumulator_full'[j].done = n + 1
      BY <3>1 DEF Barrier
    <3>4. \A v \in Warps : Fills(Begun(v), j, 2) <= n + 1
      <4> SUFFICES ASSUME NEW v \in Warps PROVE Fills(Begun(v), j, 2) <= n + 1
        OBVIOUS
      <4>1. StageChain(j, v, l)
        BY <1>2, StageChains
      <4> QED BY <1>5, <4>1 DEF StageChain
    <3> QED BY <1>1, <1>7, <2>1, <2>2, <3>1, <3>2, <3>3, <3>4 DEF StageRing, KeepsCursors
  <2>3. CASE m # j
    <3>1. accumulator_full'[m] = accumulator_full[m] /\ owed_full'[m] = owed_full[m]
      BY <1>1, <2>3 DEF StageInv, StageTypes
    <3> QED BY <1>1, <1>7, <2>1, <3>1 DEF StageRing, KeepsCursors
  <2> QED BY <2>2, <2>3
<1> QED BY <1>8, <1>9 DEF StageInv, Stages

LEMMA ConsumerReadStage ==
  ASSUME Shape, ConsumerTypes, OperandInv, StageInv, NEW w \in Warps, ConsumerRead(w)
  PROVE  StageInv' /\ partial' = [partial EXCEPT ![w] = group[w]]
<1>1. /\ UNCHANGED <<accumulator_full, accumulator_empty, tmem, mma, retired, owed_full>>
      /\ Passes(accumulator_full[group[w] % 2], ThisLap(group[w], 2))
      /\ partial' = [partial EXCEPT ![w] = tmem[group[w] % 2]]
  BY DEF ConsumerRead, full_empty, buffers, matrix
<1>2. /\ Reached' = Reached /\ group[w] \in Nat /\ Begun(w) = group[w]
      /\ Begun(w)' = group[w] + 1 /\ \A v \in Warps \ {w} : Begun(v)' = Begun(v)
      /\ \A l \in Lanes : Reached[<<w, l>>] = group[w]
  BY ReadCursors
<1>3. PICK g, j, q : g = group[w] /\ At(g, 2, j, q) /\ j = g % 2 /\ q = g \div 2
  BY <1>2, AtGroup, Sizes
<1>4. /\ j \in Stages /\ q \in Nat /\ g = q * 2 + j /\ Fills(g, j, 2) = q
      /\ \A m \in Stages : Fills(g + 1, m, 2) = IF m = j THEN q + 1 ELSE Fills(g, m, 2)
  BY <1>3, Sizes DEF At
<1>5. PICK l \in Lanes : TRUE
  BY Sizes
<1>6. StageChain(j, w, l)
  BY <1>4, StageChains
<1>7. accumulator_full[j].done = q + 1 /\ Fills(mma, j, 2) = q + 1 /\ Fills(retired, j, 2) = q + 1
  <2>1. PICK x, y, f, e : /\ x = Fills(mma, j, 2) /\ y = Fills(retired, j, 2)
                          /\ f = accumulator_full[j].done /\ e = accumulator_empty[j].done
    OBVIOUS
  <2>2. Fills(Reached[<<w, l>>], j, 2) = q /\ Fills(Begun(w), j, 2) = q
    BY <1>2, <1>3, <1>4
  <2>3. /\ x \in Nat /\ y \in Nat /\ f \in Nat /\ e \in Nat /\ q \in {e, e + 1}
        /\ q <= f /\ f <= y /\ y <= x /\ x <= e + 1
    BY <1>6, <2>1, <2>2 DEF StageChain
  <2>4. f \in {q, q + 1} /\ (f = q + 1 => x = q + 1 /\ y = q + 1)
    BY ONLY <1>4, <2>3
  <2>5. Passes(accumulator_full[j], q % 2)
    BY <1>1, <1>3 DEF ThisLap
  <2>6. q \in Int
    BY <1>4
  <2>7. accumulator_full[j].done = q + 1
    BY <2>1, <2>4, <2>5, <2>6, ParityWait
  <2> QED BY <2>1, <2>4, <2>7
<1>8. tmem[j] = g
  <2>1. tmem[j] = (q + 1 - 1) * 2 + j
    BY <1>4, <1>7 DEF StageInv, StageRing
  <2> QED BY <1>4, <2>1
<1>9. StageTypes'
  BY <1>1 DEF StageInv, StageTypes
<1>10. ASSUME NEW m \in Stages PROVE StageRing(m)'
  <2>1. StageRing(m)
    BY DEF StageInv
  <2>2. \A v \in Warps : Fills(Begun(v)', m, 2) <= accumulator_full[m].done
    <3>1. \A v \in Warps \ {w} : Fills(Begun(v)', m, 2) <= accumulator_full[m].done
      BY <1>2, <2>1 DEF StageRing
    <3>2. Fills(g, m, 2) <= accumulator_full[m].done
      BY <1>2, <1>3, <2>1 DEF StageRing
    <3>3. Fills(g + 1, m, 2) <= accumulator_full[m].done
      BY <1>4, <1>7, <3>2
    <3> QED BY <1>2, <1>3, <3>1, <3>3
  <2> QED BY <1>1, <1>2, <2>1, <2>2 DEF StageRing
<1> QED BY <1>1, <1>3, <1>8, <1>9, <1>10 DEF StageInv, Stages

LEMMA ConsumerReleaseStage ==
  ASSUME Shape, ConsumerTypes, OperandInv, StageInv, NEW w \in Warps, NEW l \in Lanes,
         ConsumerRelease(w, l)
  PROVE  StageInv'
<1>1. /\ UNCHANGED <<accumulator_full, tmem, mma, retired, owed_full>>
      /\ accumulator_empty' = [accumulator_empty EXCEPT ![group[w] % 2] = Arrive(@)]
  BY DEF ConsumerRelease, buffers, matrix
<1>2. /\ <<w, l>> \in Threads /\ group[w] \in Nat /\ Begun(w) = group[w] + 1
      /\ \A v \in Warps : Begun(v)' = Begun(v)
      /\ Reached[<<w, l>>] = group[w] /\ Reached' = [Reached EXCEPT ![<<w, l>>] = @ + 1]
  BY ReleaseCursors
<1>3. PICK g, j, q : g = group[w] /\ At(g, 2, j, q) /\ j = g % 2 /\ q = g \div 2
  BY <1>2, AtGroup, Sizes
<1>4. /\ j \in Stages /\ q \in Nat /\ Fills(g, j, 2) = q /\ Fills(g + 1, j, 2) = q + 1
  BY <1>3, Sizes DEF At
<1>5. accumulator_empty[j].done = q
  <2>1. StageChain(j, w, l)
    BY <1>4, StageChains
  <2> QED BY <1>2, <1>3, <1>4, <2>1 DEF StageChain
<1>6. \A m \in Stages :
        /\ Counted(accumulator_empty'[m], Threads, Laps(Threads, Reached', m, 2))
        /\ accumulator_empty'[m].done >= accumulator_empty[m].done
        /\ accumulator_empty[m].done \in Nat /\ accumulator_empty'[m] \in BarrierType
  <2> SUFFICES ASSUME NEW m \in Stages
               PROVE  /\ Counted(accumulator_empty'[m], Threads, Laps(Threads, Reached', m, 2))
                      /\ accumulator_empty'[m].done >= accumulator_empty[m].done
                      /\ accumulator_empty[m].done \in Nat /\ accumulator_empty'[m] \in BarrierType
    OBVIOUS
  <2>0. PICK t : t = <<w, l>>
    OBVIOUS
  <2>1. Arrival(Threads, 2, Reached, Reached', t)
    BY <1>2, <2>0, CursorTypes DEF Arrival
  <2>2. Counted(accumulator_empty[m], Threads, Laps(Threads, Reached, m, 2)) /\ m \in 0 .. 2 - 1
    BY Sizes DEF StageInv, StageRing
  <2>3. accumulator_empty'[m] =
          IF m = Reached[t] % 2 THEN Arrive(accumulator_empty[m]) ELSE accumulator_empty[m]
    BY <1>1, <1>2, <2>0 DEF StageInv, StageTypes
  <2>4. m = Reached[t] % 2 => accumulator_empty[m].done = Reached[t] \div 2
    BY <1>2, <1>3, <1>5, <2>0
  <2>5. /\ Counted(accumulator_empty'[m], Threads, Laps(Threads, Reached', m, 2))
        /\ accumulator_empty'[m].done >= accumulator_empty[m].done
        /\ accumulator_empty[m].done \in Nat
    BY <2>1, <2>2, <2>3, <2>4, Sizes, CountedNext
  <2> QED BY <2>5, CountedDone
<1>7. StageTypes'
  BY <1>1, <1>6 DEF StageInv, StageTypes
<1>8. ASSUME NEW m \in Stages PROVE StageRing(m)'
  <2>1. StageRing(m) /\ m \in 0 .. 2 - 1 /\ mma \in Nat
    BY Sizes DEF StageInv, OperandInv, OperandTypes
  <2>2. Fills(mma, m, 2) <= accumulator_empty'[m].done + 1
    <3>1. Fills(mma, m, 2) \in Nat /\ Fills(mma, m, 2) <= accumulator_empty[m].done + 1
      BY <2>1, Sizes, FillsNext DEF StageRing
    <3>2. accumulator_empty'[m].done \in Nat
      BY <1>6, CountedDone
    <3> QED BY <1>6, <3>1, <3>2
  <2> QED BY <1>1, <1>2, <1>6, <2>1, <2>2 DEF StageRing
<1> QED BY <1>7, <1>8 DEF StageInv, Stages

LEMMA StageUnchanged ==
  ASSUME StageInv, KeepsCursors,
         UNCHANGED <<accumulator_full, accumulator_empty, tmem, mma, retired, owed_full>>
  PROVE  StageInv'
<1>1. StageTypes'
  BY DEF StageInv, StageTypes
<1>2. \A m \in Stages : StageRing(m)'
  BY DEF StageInv, StageRing, KeepsCursors
<1> QED BY <1>1, <1>2 DEF StageInv, Stages

-----------------------------------------------------------------------------
(* The sums.                                                               *)

LEMMA NextGroup ==
  ASSUME NEW n \in Nat
  PROVE  Append(FirstGroups(n), n) = FirstGroups(n + 1)
<1>1. FirstGroups(n) \in Seq(Nat) /\ Len(FirstGroups(n)) = n
  BY DEF FirstGroups
<1> QED BY <1>1 DEF FirstGroups

LEMMA ReadSum ==
  ASSUME Shape, ConsumerTypes, OperandInv, StageInv, SumInv, NEW w \in Warps, ConsumerRead(w)
  PROVE  SumInv'
<1>1. partial' = [partial EXCEPT ![w] = group[w]]
  BY ConsumerReadStage
<1>2. Reached' = Reached /\ group' = group
  BY ReadCursors
<1>3. held' = [held EXCEPT ![w] = Lanes] /\ total' = total
  BY DEF ConsumerRead
<1>4. \A v \in Warps : held'[v] # {} => partial'[v] = group'[v]
  BY <1>1, <1>2, <1>3 DEF SumInv, ConsumerTypes
<1> QED BY <1>1, <1>2, <1>3, <1>4 DEF SumInv

LEMMA ReleaseSum ==
  ASSUME Shape, ConsumerTypes, ScaleInv, SumInv, NEW w \in Warps, NEW l \in Lanes,
         ConsumerRelease(w, l)
  PROVE  SumInv'
<1>1. /\ l \in held[w] /\ held' = [held EXCEPT ![w] = @ \ {l}] /\ partial' = partial
      /\ total' = [total EXCEPT ![<<w, l>>] = Append(@, Promoted(w, group[w] % P))]
      /\ group' = IF held[w] = {l} THEN [group EXCEPT ![w] = group[w] + 1] ELSE group
  BY DEF ConsumerRelease
<1>2. partial[w] = group[w]
  BY <1>1 DEF SumInv
<1>3. Promoted(w, group[w] % P) = group[w]
  <2>1. \A m \in ScaleLanes : scale[group[w] % P][m] = group[w]
    BY <1>1, ScaleHeld
  <2> QED BY <1>2, <2>1 DEF Promoted
<1>4. /\ <<w, l>> \in Threads /\ group[w] \in Nat /\ Reached[<<w, l>>] = group[w]
      /\ Reached' = [Reached EXCEPT ![<<w, l>>] = @ + 1]
  BY ReleaseCursors
<1>5. Reached \in [Threads -> Nat]
  BY CursorTypes
<1>6. PICK t, n : t = <<w, l>> /\ n = group[w]
  OBVIOUS
<1>7. total' = [u \in Threads |-> FirstGroups(Reached'[u])]
  <2>1. /\ t \in Threads /\ n \in Nat /\ Reached[t] = n
        /\ Reached' = [Reached EXCEPT ![t] = @ + 1] /\ total' = [total EXCEPT ![t] = Append(@, n)]
    BY <1>1, <1>3, <1>4, <1>6
  <2>2. total = [u \in Threads |-> FirstGroups(Reached[u])]
    BY DEF SumInv
  <2>3. DOMAIN total' = Threads
    BY <2>1, <2>2
  <2>4. ASSUME NEW u \in Threads PROVE total'[u] = FirstGroups(Reached'[u])
    <3>1. CASE u = t
      <4>1. total'[t] = Append(FirstGroups(n), n) /\ Reached'[t] = n + 1
        BY <1>5, <2>1, <2>2
      <4> QED BY <2>1, <3>1, <4>1, NextGroup
    <3>2. CASE u # t
      BY <1>5, <2>1, <2>2, <3>2
    <3> QED BY <3>1, <3>2
  <2>5. total' = [u \in Threads |-> total'[u]]
    BY <2>1, <2>2
  <2> QED BY <2>4, <2>5
<1>8. ASSUME NEW v \in Warps, held'[v] # {} PROVE partial'[v] = group'[v]
  <2>1. CASE v = w
    <3>1. held[w] # {l}
      BY <1>1, <2>1, <1>8 DEF ConsumerTypes
    <3> QED BY <1>1, <1>2, <2>1, <3>1
  <2>2. CASE v # w
    <3>1. held[v] # {} /\ group'[v] = group[v]
      BY <1>1, <2>2, <1>8 DEF ConsumerTypes
    <3> QED BY <1>1, <3>1 DEF SumInv
  <2> QED BY <2>1, <2>2
<1> QED BY <1>1, <1>7, <1>8 DEF SumInv

LEMMA SumUnchanged ==
  ASSUME SumInv, UNCHANGED consumers
  PROVE  SumInv'
BY DEF SumInv, Reached, consumers

-----------------------------------------------------------------------------
(* The end of the rings.                                                   *)

\* Once the roles have joined, no copy, MMA or promotion is still to come.
Quiet ==
  /\ tma = Groups /\ mma = Groups /\ retired = Groups
  /\ \A l \in ScaleLanes : sf[l] = Groups
  /\ \A w \in Warps : group[w] = Groups /\ held[w] = {}
  /\ \A k \in Slots : operand[k].landed
  /\ \A t \in Threads : total[t] = InOrder

LEMMA JoinedQuiet ==
  ASSUME Shape, BlockInv, phase # "rings"
  PROVE  Quiet
<1>1. /\ tma = Groups /\ mma = Groups /\ \A l \in ScaleLanes : sf[l] = Groups
      /\ \A w \in Warps : group[w] = Groups
  BY DEF BlockInv, EpilogueInv, AllRolesDone, ProducersDone
<1>2. Groups \in Nat \ {0}
  BY Sizes
<1>3. \A w \in Warps : held[w] = {}
  BY <1>1, <1>2 DEF BlockInv, ConsumerTypes
<1>4. \A w \in Warps : Begun(w) = Groups
  BY <1>1, <1>2, <1>3 DEF Begun, Bit
<1>5. retired = Groups
  <2>1. retired \in Nat /\ retired <= Groups
    BY <1>1, <1>2 DEF BlockInv, OperandInv, OperandTypes
  <2>2. ASSUME retired < Groups PROVE FALSE
    <3>1. PICK g \in Nat : g + 1 = Groups
      <4>1. Groups - 1 \in Nat /\ Groups - 1 + 1 = Groups
        BY <1>2
      <4> QED BY <4>1
    <3>2. PICK j, q : At(g, 2, j, q)
      BY AtGroup, Sizes
    <3>3. j \in Stages /\ q \in Nat /\ Fills(g, j, 2) = q /\ Fills(Groups, j, 2) = q + 1
      BY <3>1, <3>2, Sizes DEF At
    <3>4. PICK w \in Warps, l \in Lanes : TRUE
      BY Sizes
    <3>5. StageChain(j, w, l)
      BY <3>3, StageChains DEF BlockInv
    <3>6. Fills(retired, j, 2) >= q + 1
      BY <1>4, <3>3, <3>5 DEF StageChain
    <3>7. Fills(retired, j, 2) <= q
      BY <2>1, <2>2, <3>1, <3>3, Sizes, FillsGrow
    <3>8. Fills(retired, j, 2) \in Nat
      BY <3>5 DEF StageChain
    <3> QED BY <3>3, <3>6, <3>7, <3>8
  <2> QED BY <1>2, <2>1, <2>2
<1>6. \A k \in Slots : operand[k].landed
  <2> SUFFICES ASSUME NEW k \in Slots PROVE operand[k].landed
    OBVIOUS
  <2>1. Chain(k)
    BY OperandChain DEF BlockInv
  <2>2. Issued(k) = Fills(mma, k, P)
    BY <1>1 DEF Issued
  <2> QED BY <2>1, <2>2 DEF Chain
<1>7. \A t \in Threads : total[t] = InOrder
  <2> SUFFICES ASSUME NEW t \in Threads PROVE total[t] = InOrder
    OBVIOUS
  <2>1. t[1] \in Warps
    BY DEF Threads
  <2>2. Reached[t] = Groups
    BY <1>1, <1>2, <1>3, <2>1 DEF Reached, Bit
  <2>3. total[t] = FirstGroups(Groups)
    BY <2>2 DEF BlockInv, SumInv
  <2> QED BY <2>3 DEF FirstGroups, InOrder
<1> QED BY <1>1, <1>3, <1>5, <1>6, <1>7 DEF Quiet

LEMMA EpilogueUnchanged ==
  ASSUME EpilogueInv, UNCHANGED epilogue, phase = "rings" \/ AllRolesDone'
  PROVE  EpilogueInv'
BY DEF EpilogueInv, EpilogueTypes, epilogue

LEMMA RolesKept ==
  ASSUME UNCHANGED <<tma, mma, sf, group>>
  PROVE  AllRolesDone' = AllRolesDone
BY DEF AllRolesDone, ProducersDone

LEMMA WriteEpilogue ==
  ASSUME Shape, BlockInv, NEW w \in Warps, WriteExchange(w)
  PROVE  EpilogueInv'
<1>1. /\ phase = "write" /\ phase' = phase /\ output' = output
      /\ exchange' = [exchange EXCEPT ![w] = {total[<<w, l>>] : l \in Lanes}]
      /\ at_barrier' = at_barrier \cup {w} /\ UNCHANGED <<tma, mma, sf, group>>
  BY DEF WriteExchange, matrix, consumers
<1>2. {total[<<w, l>>] : l \in Lanes} = {InOrder}
  <2>1. \A l \in Lanes : total[<<w, l>>] = InOrder
    BY <1>1, JoinedQuiet DEF Quiet, Threads
  <2> QED BY <2>1, Sizes
<1>3. AllRolesDone'
  BY <1>1, RolesKept DEF BlockInv, EpilogueInv
<1>4. exchange' = [exchange EXCEPT ![w] = {InOrder}]
  BY <1>1, <1>2
<1>5. \A v \in Warps : v \in at_barrier' => exchange'[v] = {InOrder}
  BY <1>1, <1>4 DEF BlockInv, EpilogueInv, EpilogueTypes
<1> QED BY <1>1, <1>3, <1>4, <1>5 DEF BlockInv, EpilogueInv, EpilogueTypes

LEMMA SyncEpilogue ==
  ASSUME EpilogueInv, Sync
  PROVE  EpilogueInv'
<1>1. /\ phase \in {"write", "store"} /\ at_barrier = Warps
      /\ phase' = (IF phase = "write" THEN "store" ELSE "freed") /\ at_barrier' = {}
      /\ UNCHANGED <<exchange, output, tma, mma, sf, group>>
  BY DEF Sync, Everyone, matrix, consumers
<1>2. AllRolesDone'
  BY <1>1, RolesKept DEF EpilogueInv
<1>3. \A v \in Warps : exchange[v] = {InOrder}
  BY <1>1 DEF EpilogueInv
<1> QED BY <1>1, <1>2, <1>3 DEF EpilogueInv, EpilogueTypes

LEMMA StoreEpilogue ==
  ASSUME Shape, EpilogueInv, NEW w \in Warps, StoreRows(w)
  PROVE  EpilogueInv'
<1>1. /\ phase = "store" /\ at_barrier' = at_barrier \cup {w}
      /\ output' = [output EXCEPT ![w] = {exchange[v] : v \in Warps}]
      /\ UNCHANGED <<phase, exchange, tma, mma, sf, group>>
  BY DEF StoreRows, matrix, consumers
<1>2. AllRolesDone'
  BY <1>1, RolesKept DEF EpilogueInv
<1>3. {exchange[v] : v \in Warps} = {{InOrder}}
  BY <1>1, Sizes DEF EpilogueInv
<1>4. output' = [output EXCEPT ![w] = {{InOrder}}]
  BY <1>1, <1>3
<1> QED BY <1>1, <1>2, <1>4 DEF EpilogueInv, EpilogueTypes

-----------------------------------------------------------------------------
(* The invariant is inductive.                                             *)

LEMMA ConsumerInit ==
  ASSUME Shape, Init
  PROVE  /\ ConsumerTypes /\ SumInv /\ EpilogueInv /\ Reached = [t \in Threads |-> 0]
         /\ \A w \in Warps : Begun(w) = 0
<1>1. /\ group = [w \in Warps |-> 0] /\ held = [w \in Warps |-> {}]
      /\ partial = [w \in Warps |-> Garbage] /\ total = [t \in Threads |-> <<>>]
      /\ phase = "rings" /\ at_barrier = {} /\ exchange = [w \in Warps |-> {}]
      /\ output = [w \in Warps |-> {}]
  BY DEF Init
<1>2. \A w \in Warps : Begun(w) = 0
  BY <1>1 DEF Begun, Bit
<1>3. Reached = [t \in Threads |-> 0]
  BY <1>1 DEF Reached, Threads, Bit
<1>4. FirstGroups(0) = <<>>
  BY DEF FirstGroups
<1> QED BY <1>1, <1>2, <1>3, <1>4, Sizes
        DEF ConsumerTypes, SumInv, EpilogueInv, EpilogueTypes

LEMMA ScaleInit ==
  ASSUME Shape, Init
  PROVE  ScaleInv
<1>1. /\ scale_full = [k \in Slots |-> NewBarrier(Cardinality(ScaleLanes))]
      /\ scale_empty = [k \in Slots |-> NewBarrier(Cardinality(Threads))]
      /\ scale = [k \in Slots |-> [l \in ScaleLanes |-> Garbage]]
      /\ sf = [l \in ScaleLanes |-> 0]
  BY DEF Init, ScaleWriters, PerThread
<1>2. Reached = [t \in Threads |-> 0] /\ \A w \in Warps : Begun(w) = 0
  BY ConsumerInit
<1>3. \A k \in Slots : Fills(0, k, P) = 0
  BY Sizes, FillsZero
<1>4. ASSUME NEW k \in Slots
      PROVE  /\ Counted(scale_full[k], ScaleLanes, Laps(ScaleLanes, sf, k, P))
             /\ Counted(scale_empty[k], Threads, Laps(Threads, Reached, k, P))
             /\ scale_full[k].done = 0 /\ scale_empty[k].done = 0
  <2>1. k \in 0 .. P - 1
    BY Sizes
  <2>2. Counted(NewBarrier(Cardinality(ScaleLanes)), ScaleLanes, Laps(ScaleLanes, sf, k, P))
    BY <1>1, <2>1, Sizes, CountedNew
  <2>3. Counted(NewBarrier(Cardinality(Threads)), Threads, Laps(Threads, Reached, k, P))
    BY <1>2, <2>1, Sizes, CountedNew
  <2> QED BY <1>1, <2>2, <2>3 DEF NewBarrier, Barrier
<1>5. ScaleTypes
  <2>1. \A k \in Slots : scale_full[k] \in BarrierType /\ scale_empty[k] \in BarrierType
    BY <1>4, CountedDone
  <2>2. scale_full \in [Slots -> BarrierType] /\ scale_empty \in [Slots -> BarrierType]
    BY <1>1, <2>1
  <2> QED BY <1>1, <2>2, Sizes DEF ScaleTypes, Garbage
<1>6. \A k \in Slots : ScaleRing(k)
  BY <1>1, <1>2, <1>3, <1>4 DEF ScaleRing
<1> QED BY <1>5, <1>6 DEF ScaleInv

LEMMA StageInit ==
  ASSUME Shape, Init
  PROVE  StageInv
<1>1. /\ accumulator_full = [j \in Stages |-> Barrier(1, 1, 0, 0)]
      /\ accumulator_empty = [j \in Stages |-> NewBarrier(Cardinality(Threads))]
      /\ tmem = [j \in Stages |-> Garbage] /\ owed_full = [j \in Stages |-> 0]
      /\ mma = 0 /\ retired = 0
  BY DEF Init, NewBarrier, PerThread
<1>2. Reached = [t \in Threads |-> 0] /\ \A w \in Warps : Begun(w) = 0
  BY ConsumerInit
<1>3. \A j \in Stages : Fills(0, j, 2) = 0
  BY Sizes, FillsZero
<1>4. ASSUME NEW j \in Stages
      PROVE  /\ Counted(accumulator_empty[j], Threads, Laps(Threads, Reached, j, 2))
             /\ accumulator_empty[j].done = 0
  <2>1. j \in 0 .. 2 - 1
    BY Sizes
  <2>2. Counted(NewBarrier(Cardinality(Threads)), Threads, Laps(Threads, Reached, j, 2))
    BY <1>2, <2>1, Sizes, CountedNew
  <2> QED BY <1>1, <2>2 DEF NewBarrier, Barrier
<1>5. StageTypes
  <2>1. \A j \in Stages : accumulator_empty[j] \in BarrierType
    BY <1>4, CountedDone
  <2>2. accumulator_empty \in [Stages -> BarrierType]
    BY <1>1, <2>1
  <2> QED BY <1>1, <2>2 DEF StageTypes, Garbage, Barrier, BarrierType
<1>6. \A j \in Stages : StageRing(j)
  BY <1>1, <1>2, <1>3, <1>4 DEF StageRing, Barrier
<1> QED BY <1>5, <1>6 DEF StageInv

LEMMA BlockInit ==
  ASSUME Shape, Init
  PROVE  BlockInv
BY OperandInit, ConsumerInit, ScaleInit, StageInit DEF BlockInv

\* A step of the MMA pipeline or of an engine, which no warp sees at once.
LEMMA ProducerNext ==
  ASSUME Shape, BlockInv,
         \/ TmaIssue \/ MmaIssue \/ MmaRetire
         \/ \E k \in Slots : TmaLand(k) \/ CommitEmpty(k)
         \/ \E j \in Stages : CommitFull(j)
  PROVE  BlockInv'
<1>1. /\ OperandInv /\ ConsumerTypes /\ ScaleInv /\ StageInv /\ SumInv /\ EpilogueInv
      /\ tma \in 0 .. Groups /\ mma \in 0 .. tma /\ retired \in 0 .. mma /\ Groups \in Nat
  BY Sizes DEF BlockInv, OperandInv, OperandTypes
<1>2. UNCHANGED <<scale_full, scale_empty, scale, sf, consumers, epilogue>>
  BY DEF TmaIssue, MmaIssue, MmaRetire, TmaLand, CommitEmpty, CommitFull, full_empty, buffers
<1>3. ConsumerTypes' /\ KeepsCursors
  BY <1>1, <1>2, CursorsUnchanged DEF consumers
<1>4. OperandInv'
  BY <1>1, OperandNext DEF Next
<1>5. ScaleInv' /\ SumInv'
  BY <1>1, <1>2, <1>3, ScaleUnchanged, SumUnchanged
<1>6. phase # "rings" => tma = Groups /\ mma = Groups /\ retired = Groups
  BY JoinedQuiet DEF Quiet
<1>7. StageInv'
  <2>1. CASE MmaIssue
    BY <1>1, <2>1, MmaIssueStage
  <2>2. CASE MmaRetire
    <3>1. retired < mma
      BY <2>2 DEF MmaRetire
    <3>2. phase = "rings"
      BY <1>1, <1>6, <3>1
    <3> QED BY <1>1, <2>2, <3>2, MmaRetireStage
  <2>3. CASE \E j \in Stages : CommitFull(j)
    BY <1>1, <2>3, CommitFullStage
  <2>4. CASE TmaIssue \/ \E k \in Slots : TmaLand(k) \/ CommitEmpty(k)
    <3>1. UNCHANGED <<accumulator_full, accumulator_empty, tmem, mma, retired, owed_full>>
      BY <2>4 DEF TmaIssue, TmaLand, CommitEmpty, matrix, buffers
    <3> QED BY <1>1, <1>3, <3>1, StageUnchanged
  <2> QED BY <2>1, <2>2, <2>3, <2>4
<1>8. EpilogueInv'
  <2>1. phase # "rings" => UNCHANGED <<tma, mma, sf, group>>
    <3>1. ~(tma < Groups) /\ ~(mma < Groups) => UNCHANGED <<tma, mma, sf, group>>
      BY DEF TmaIssue, MmaIssue, MmaRetire, TmaLand, CommitEmpty, CommitFull, matrix, consumers
    <3> QED BY <1>1, <1>6, <3>1
  <2>2. phase # "rings" => AllRolesDone'
    BY <1>1, <2>1, RolesKept DEF EpilogueInv
  <2> QED BY <1>1, <1>2, <2>2, EpilogueUnchanged
<1> QED BY <1>3, <1>4, <1>5, <1>7, <1>8 DEF BlockInv

\* A step of a scale lane or of a lane that promotes.
LEMMA PromotionNext ==
  ASSUME Shape, BlockInv,
         \/ \E l \in ScaleLanes : ScaleStore(l)
         \/ \E w \in Warps : ConsumerRead(w)
         \/ \E w \in Warps, l \in Lanes : ConsumerRelease(w, l)
  PROVE  BlockInv'
<1>1. /\ OperandInv /\ ConsumerTypes /\ ScaleInv /\ StageInv /\ SumInv /\ EpilogueInv
      /\ Groups \in Nat
  BY Sizes DEF BlockInv
<1>2. OperandInv'
  BY <1>1, OperandNext DEF Next
<1>3. phase = "rings"
  <2>1. ASSUME phase # "rings" PROVE FALSE
    <3>1. /\ \A l \in ScaleLanes : sf[l] = Groups
          /\ \A w \in Warps : group[w] = Groups /\ held[w] = {}
      BY <2>1, JoinedQuiet DEF Quiet
    <3>2. ~(Groups < Groups)
      BY <1>1
    <3>3. /\ \A l \in ScaleLanes : ~(sf[l] < Groups)
          /\ \A w \in Warps : ~(group[w] < Groups) /\ \A l \in Lanes : l \notin held[w]
      BY <3>1, <3>2
    <3>4. \A l \in ScaleLanes : ~ScaleStore(l)
      BY <3>3 DEF ScaleStore
    <3>5. \A w \in Warps : ~ConsumerRead(w)
      BY <3>3 DEF ConsumerRead
    <3>6. \A w \in Warps, l \in Lanes : ~ConsumerRelease(w, l)
      BY <3>3 DEF ConsumerRelease
    <3> QED BY <3>4, <3>5, <3>6
  <2> QED BY <2>1
<1>4. UNCHANGED epilogue
  BY DEF ScaleStore, ConsumerRead, ConsumerRelease
<1>5. EpilogueInv'
  BY <1>1, <1>3, <1>4, EpilogueUnchanged
<1>6. CASE \E l \in ScaleLanes : ScaleStore(l)
  <2>1. PICK l \in ScaleLanes : ScaleStore(l)
    BY <1>6
  <2>2. UNCHANGED <<accumulator_full, accumulator_empty, tmem, mma, retired, owed_full, consumers>>
    BY <2>1 DEF ScaleStore, matrix
  <2>3. ConsumerTypes' /\ KeepsCursors
    BY <1>1, <2>2, CursorsUnchanged DEF consumers
  <2>4. ScaleInv' /\ StageInv' /\ SumInv'
    BY <1>1, <2>1, <2>2, <2>3, ScaleStoreScale, StageUnchanged, SumUnchanged
  <2> QED BY <1>2, <1>5, <2>3, <2>4 DEF BlockInv
<1>7. CASE \E w \in Warps : ConsumerRead(w)
  <2>1. PICK w \in Warps : ConsumerRead(w)
    BY <1>7
  <2>2. ConsumerTypes' /\ ScaleInv' /\ StageInv' /\ SumInv'
    BY <1>1, <2>1, ReadCursors, ConsumerReadScale, ConsumerReadStage, ReadSum
  <2> QED BY <1>2, <1>5, <2>2 DEF BlockInv
<1>8. CASE \E w \in Warps, l \in Lanes : ConsumerRelease(w, l)
  <2>1. PICK w \in Warps, l \in Lanes : ConsumerRelease(w, l)
    BY <1>8
  <2>2. ConsumerTypes' /\ ScaleInv' /\ StageInv' /\ SumInv'
    BY <1>1, <2>1, ReleaseCursors, ConsumerReleaseScale, ConsumerReleaseStage, ReleaseSum
  <2> QED BY <1>2, <1>5, <2>2 DEF BlockInv
<1> QED BY <1>6, <1>7, <1>8

\* A step of the epilogue, or none.
LEMMA ExchangeNext ==
  ASSUME Shape, BlockInv,
         \/ Joined \/ Sync \/ UNCHANGED vars
         \/ \E w \in Warps : WriteExchange(w) \/ StoreRows(w)
  PROVE  BlockInv'
<1>1. OperandInv /\ ConsumerTypes /\ ScaleInv /\ StageInv /\ SumInv /\ EpilogueInv
  BY DEF BlockInv
<1>2. UNCHANGED <<full_empty, scale, tmem, tma, sf, matrix, consumers>>
  BY DEF Joined, Sync, WriteExchange, StoreRows, vars, buffers
<1>3. OperandInv'
  BY <1>1, OperandNext DEF Next
<1>4. ConsumerTypes' /\ KeepsCursors
  BY <1>1, <1>2, CursorsUnchanged DEF consumers
<1>5. ScaleInv' /\ StageInv' /\ SumInv'
  BY <1>1, <1>2, <1>4, ScaleUnchanged, StageUnchanged, SumUnchanged DEF full_empty, matrix
<1>6. EpilogueInv'
  <2>1. CASE Joined
    <3>1. /\ phase = "rings" /\ AllRolesDone /\ phase' = "write"
          /\ UNCHANGED <<tma, mma, sf, group, at_barrier, exchange, output>>
      BY <2>1 DEF Joined, matrix, consumers
    <3>2. AllRolesDone'
      BY <3>1, RolesKept
    <3> QED BY <1>1, <3>1, <3>2 DEF EpilogueInv, EpilogueTypes
  <2>2. CASE UNCHANGED vars
    <3>1. UNCHANGED epilogue /\ UNCHANGED <<tma, mma, sf, group>>
      BY <2>2 DEF vars, matrix, consumers
    <3>2. AllRolesDone' = AllRolesDone
      BY <3>1, RolesKept
    <3> QED BY <1>1, <3>1, <3>2, EpilogueUnchanged DEF EpilogueInv
  <2> QED BY <1>1, <2>1, <2>2, SyncEpilogue, WriteEpilogue, StoreEpilogue
<1> QED BY <1>3, <1>4, <1>5, <1>6 DEF BlockInv

LEMMA BlockNext ==
  ASSUME Shape, BlockInv, [Next]_vars
  PROVE  BlockInv'
BY ProducerNext, PromotionNext, ExchangeNext DEF Next, Terminated

-----------------------------------------------------------------------------
(* What the invariant gives.                                               *)

LEMMA CountedInRange ==
  ASSUME NEW S, IsFiniteSet(S), NEW b, NEW r, Counted(b, S, r)
  PROVE  InRange(b)
<1>1. /\ b \in BarrierType /\ b.count = Cardinality(S) /\ b.left >= 1
      /\ b.left = Cardinality({x \in S : r[x] = b.done})
  BY DEF Counted
<1>2. Cardinality({x \in S : r[x] = b.done}) <= Cardinality(S)
  BY FS_Subset
<1> QED BY <1>1, <1>2 DEF InRange, BarrierType

LEMMA BlockTypes ==
  ASSUME Shape, BlockInv
  PROVE  TypeOK
<1>1. ASSUME NEW k \in Slots
      PROVE  /\ InRange(operand_full[k]) /\ InRange(operand_empty[k])
             /\ InRange(scale_full[k]) /\ InRange(scale_empty[k])
  <2>1. operand_full[k] \in BarrierType /\ operand_empty[k] \in BarrierType
    BY DEF BlockInv, OperandInv, OperandTypes
  <2>2. OperandRing(k) /\ ScaleRing(k)
    BY DEF BlockInv, OperandInv, ScaleInv
  <2>3. InRange(operand_full[k]) /\ InRange(operand_empty[k])
    BY <2>1, <2>2 DEF OperandRing, InRange, Barrier
  <2>4. InRange(scale_full[k]) /\ InRange(scale_empty[k])
    BY <2>2, Sizes, CountedInRange DEF ScaleRing
  <2> QED BY <2>3, <2>4
<1>2. ASSUME NEW j \in Stages
      PROVE  InRange(accumulator_full[j]) /\ InRange(accumulator_empty[j])
  <2>1. accumulator_full[j] \in BarrierType /\ StageRing(j)
    BY DEF BlockInv, StageInv, StageTypes
  <2>2. InRange(accumulator_full[j])
    BY <2>1 DEF StageRing, InRange, Barrier
  <2>3. InRange(accumulator_empty[j])
    BY <2>1, Sizes, CountedInRange DEF StageRing
  <2> QED BY <2>2, <2>3
<1> QED BY <1>1, <1>2
        DEF TypeOK, BlockInv, OperandInv, OperandTypes, ConsumerTypes, EpilogueInv, EpilogueTypes

\* What the block promises of every state it can be in.
BlockSafe == TypeOK /\ OperandStable /\ FragmentStable /\ ExchangeSound

LEMMA BlockPromises ==
  ASSUME Shape, BlockInv
  PROVE  BlockSafe
<1>1. OperandStable
  <2>1. CASE phase = "rings"
    BY <2>1, OperandInFlight DEF OperandStable, BlockInv
  <2>2. CASE phase # "rings"
    <3>1. retired = Groups /\ mma = Groups /\ Groups \in Nat
      BY <2>2, JoinedQuiet, Sizes DEF Quiet
    <3> QED BY <3>1 DEF OperandStable
  <2> QED BY <2>1, <2>2
<1>2. FragmentStable
  BY ScaleHeld, StageHeld DEF FragmentStable, BlockInv
<1>3. ExchangeSound
  <2>1. ExchangeAlone
    BY JoinedQuiet DEF ExchangeAlone, Quiet
  <2>2. StoresComplete
    BY DEF StoresComplete, BlockInv, EpilogueInv
  <2> QED BY <2>1, <2>2 DEF ExchangeSound
<1> QED BY <1>1, <1>2, <1>3, BlockTypes DEF BlockSafe

\* For any number of slots, groups, warps and lanes: an MMA in flight keeps its
\* operands, every lane that still reads a group finds its product and its
\* scales although each lane and each scale lane runs ahead on its own, and
\* the exchange takes over storage that nothing uses any more.
THEOREM OneSmSafe == Shape => (Spec => []BlockSafe)
<1> SUFFICES ASSUME Shape PROVE Spec => []BlockSafe
  OBVIOUS
<1>1. Init => BlockInv
  BY BlockInit
<1>2. BlockInv /\ [Next]_vars => BlockInv'
  BY BlockNext
<1>3. BlockInv => BlockSafe
  BY BlockPromises
<1> QED BY <1>1, <1>2, <1>3, PTL DEF Spec

-----------------------------------------------------------------------------
(***************************************************************************)
(* Ping-pong, for any number of stages, groups and warps.  The warps of a  *)
(* block share one round: between two block barriers a warp may be a few   *)
(* steps ahead, never a round.  The three rings (operands, tensor memory,  *)
(* scales) and the sums are each described by windows behind that round.   *)
(***************************************************************************)

CONSTANT Leader

VARIABLES barrier, owed, pc, iteration

Pong == INSTANCE PingPong

-----------------------------------------------------------------------------
(* The invariant.                                                          *)

\* The round a warp is in: it is in round 0 until it leaves the prologue.
Round(w) == IF pc[w] = "prologue" THEN 0 ELSE iteration[w]
Upto(x) == IF x < Groups THEN x ELSE Groups
LateSteps == {"write", "written", "stored", "done"}
Late(w) == pc[w] \in LateSteps
Steps == {"prologue", "multiply", "prefetch", "promote", "reading", "complete", "sync"} \cup LateSteps

\* The groups a warp has loaded, and those it has summed up.
Loaded(w) ==
  IF pc[w] = "prologue" THEN iteration[w]
  ELSE IF pc[w] \in {"multiply", "prefetch"} THEN Upto(iteration[w] + P - 1)
  ELSE Upto(iteration[w] + P)
Summed(w) ==
  IF pc[w] \in {"complete", "sync"} THEN Round(w)
  ELSE IF Round(w) = 0 THEN 0 ELSE Round(w) - 1
PongIssued(w) == IF pc[w] \in {"prologue", "multiply"} THEN Round(w) ELSE Upto(Round(w) + 1)

WarpInv(w) ==
  /\ pc[w] = "prologue" => iteration[w] <= Upto(P - 1)
  /\ Round(w) <= Groups + 1 /\ (Late(w) <=> Round(w) = Groups + 1)
  /\ pc[w] = "prefetch" => Round(w) < Groups
  /\ pc[w] = "reading" => Round(w) > 0
ControlInv ==
  /\ pc \in [Warps -> Steps] /\ iteration \in [Warps -> Nat]
  /\ \A w \in Warps : WarpInv(w) /\ Round(w) = Round(Leader)
  /\ mma = PongIssued(Leader)

\* The MMAs whose commits have arrived: all but the last one, at most.
Committed == retired - owed[0] - owed[1]
MatrixRing ==
  /\ retired \in Nat /\ owed \in [Pong!Halves -> {0, 1}] /\ retired <= mma /\ mma <= Committed + 1
  /\ \A h \in Pong!Halves : owed[h] = 1 => retired >= 1 /\ h = (retired - 1) % 2
  /\ barrier = [h \in Pong!Halves |-> Pong!Barrier(1, 1, 0, (Committed + 1 - h) \div 2)]
Awaited(w) ==
  /\ Committed >= Upto(Round(w))
  /\ pc[w] = "sync" => Committed >= Upto(Round(w) + 1)
MatrixInv == MatrixRing /\ \A w \in Warps : Awaited(w)
TmemInv ==
  /\ tmem \in [Pong!Halves -> Int]
  /\ \A g \in Nat : g < retired /\ g + 2 >= mma => tmem[g % 2] = g

NoneLate == \A w \in Warps : ~Late(w)
\* The stage of one of the last P groups loaded, and a stage not filled yet.
StageOf(g) ==
  /\ tma[g % P] = IF operand[g % P].landed THEN Pong!Barrier(1, 1, 0, (g \div P) + 1)
                                           ELSE Pong!Barrier(1, 0, 1, g \div P)
  /\ g < mma => operand[g % P].landed
  /\ NoneLate => operand[g % P].group = g
Fresh(k) == operand[k].landed /\ tma[k] = Pong!NewBarrier(1)
Window(top) ==
  /\ \A k \in Pong!Stages : k >= top => Fresh(k)
  /\ \A g \in Nat : g < top /\ g + P >= top => StageOf(g)
PongOperandTypes ==
  /\ operand \in [Pong!Stages -> [group : {Pong!Staged, Pong!Garbage} \cup 0 .. Groups - 1, landed : BOOLEAN]]
  /\ DOMAIN tma = Pong!Stages
PongOperandInv == PongOperandTypes /\ Window(Loaded(Leader))

\* A warp's share of the last P + 1 groups whose scales it loaded.
Share(w, top) ==
  \A g \in Nat : g < top /\ g + Pong!ScaleRing >= top => scale[g % Pong!ScaleRing][w] = g
PongScaleInv ==
  /\ scale \in [Pong!ScaleSlots -> [Warps -> Int]]
  /\ \A w \in Warps : Share(w, Loaded(w))

PongFirstGroups(n) == [g \in 1 .. n |-> g - 1]
SumOf(w) ==
  /\ total[w] = PongFirstGroups(Summed(w))
  /\ pc[w] \in {"written", "stored", "done"} => exchange[w] = Pong!InOrder
  /\ output[w] \in {{}, {Pong!InOrder}}
PongSumInv ==
  /\ DOMAIN total = Warps /\ DOMAIN exchange = Warps /\ DOMAIN output = Warps
  /\ \A w \in Warps : SumOf(w)

PongBlockInv == ControlInv /\ MatrixInv /\ TmemInv /\ PongOperandInv /\ PongScaleInv /\ PongSumInv
-----------------------------------------------------------------------------
(* Places in a ring.                                                       *)

LEMMA PongModulo ==
  ASSUME NEW s \in Nat, NEW d \in Nat \ {0}
  PROVE  s \div d \in Nat /\ s % d \in 0 .. d - 1 /\ s = (s \div d) * d + (s % d)
<1>1. s \div d \in Int /\ s % d \in 0 .. d - 1
  OBVIOUS
<1>2. s = d * (s \div d) + (s % d)
  OBVIOUS
<1>3. \A q \in Int, r \in 0 .. d - 1 : s = d * q + r => q >= 0 /\ d * q = q * d
  OBVIOUS
<1> QED BY <1>1, <1>2, <1>3

\* Quotient and remainder are unique.
LEMMA Unique ==
  ASSUME NEW d \in Nat \ {0}, NEW q \in Int, NEW r \in 0 .. d - 1,
         NEW p \in Int, NEW x \in 0 .. d - 1, q * d + r = p * d + x
  PROVE  q = p /\ r = x
<1>1. q = p
  OBVIOUS
<1> QED BY <1>1

LEMMA PongDivision ==
  ASSUME NEW d \in Nat \ {0}, NEW s \in Nat, NEW q \in Int, NEW r \in 0 .. d - 1,
         s = q * d + r
  PROVE  s \div d = q /\ s % d = r
<1>1. PICK p, x : p = s \div d /\ x = s % d
  OBVIOUS
<1>2. p \in Int /\ x \in 0 .. d - 1 /\ q * d + r = p * d + x
  BY <1>1, PongModulo
<1>3. q = p /\ r = x
  BY <1>2, Unique
<1> QED BY <1>1, <1>3

\* Two of n consecutive groups never share a place of a ring of n.
LEMMA Apart ==
  ASSUME NEW n \in Nat \ {0}, NEW g \in Nat, NEW h \in Nat,
         g < h + n, h < g + n, g % n = h % n
  PROVE  g = h
<1>1. PICK p, r : p = g \div n /\ r = g % n
  OBVIOUS
<1>2. p \in Nat /\ r \in 0 .. n - 1 /\ g = p * n + r
  BY <1>1, PongModulo
<1>3. PICK q, y : q = h \div n /\ y = h % n
  OBVIOUS
<1>4. q \in Nat /\ h = q * n + y
  BY <1>3, PongModulo
<1>5. y = r
  BY <1>1, <1>3
<1>6. p = q
  <2>1. \A a \in Nat, b \in Nat : a * n + r < b * n + r + n => a <= b
    <3> SUFFICES ASSUME NEW a \in Nat, NEW b \in Nat, a * n + r < b * n + r + n, a >= b + 1
                 PROVE  FALSE
      OBVIOUS
    <3>1. PICK c : c = a - b - 1
      OBVIOUS
    <3>2. c \in Nat /\ a = b + 1 + c
      BY <3>1
    <3>3. c * n \in Nat /\ a * n = b * n + n + c * n
      BY <3>2
    <3> QED BY <3>3, <1>2
  <2> QED BY <2>1, <1>2, <1>4, <1>5
<1> QED BY <1>2, <1>4, <1>5, <1>6

\* The first n groups, and the group a full round of the ring earlier.
LEMMA Places ==
  ASSUME NEW n \in Nat \ {0}, NEW g \in Nat
  PROVE  /\ g % n \in 0 .. n - 1 /\ g \div n \in Nat
         /\ g < n => g % n = g /\ g \div n = 0
         /\ g >= n => g - n \in Nat /\ (g - n) % n = g % n /\ ((g - n) \div n) + 1 = g \div n
<1>1. PICK q, r : q = g \div n /\ r = g % n
  OBVIOUS
<1>2. q \in Nat /\ r \in 0 .. n - 1 /\ g = q * n + r
  BY <1>1, PongModulo
<1>3. ASSUME g < n PROVE g % n = g /\ g \div n = 0
  BY <1>3, PongDivision, g = 0 * n + g
<1>4. ASSUME g >= n PROVE g - n \in Nat /\ (g - n) % n = r /\ ((g - n) \div n) + 1 = q
  <2>1. PICK p : p = q - 1
    OBVIOUS
  <2>2. p \in Int /\ q = p + 1 /\ g - n \in Nat
    BY <2>1, <1>2, <1>4
  <2>3. q * n = p * n + n
    BY <2>2
  <2>4. g - n = p * n + r
    BY <2>2, <2>3, <1>2
  <2>5. (g - n) \div n = p /\ (g - n) % n = r
    BY <2>2, <2>4, <1>2, PongDivision
  <2> QED BY <2>2, <2>5
<1> QED BY <1>1, <1>2, <1>3, <1>4

\* A place of the ring that has been used holds one of the last n groups.
LEMMA Latest ==
  ASSUME NEW n \in Nat \ {0}, NEW top \in Nat, NEW k \in 0 .. n - 1, k < top
  PROVE  \E g \in Nat : g < top /\ g + n >= top /\ g % n = k
<1>1. PICK x : x = top - 1 - k
  OBVIOUS
<1>8. x \in Nat
  BY <1>1
<1>10. PICK q, r : q = x \div n /\ r = x % n
  OBVIOUS
<1>2. x \in Nat /\ q \in Nat /\ r \in 0 .. n - 1 /\ x = q * n + r
  BY <1>8, <1>10, PongModulo
<1>3. PICK g : g = top - 1 - r
  OBVIOUS
<1>4. g = q * n + k /\ q * n \in Nat
  BY <1>1, <1>2, <1>3
<1>9. g \in Nat
  BY <1>2, <1>4
<1>5. g % n = k
  BY <1>2, <1>4, <1>9, PongDivision
<1>6. r \in 0 .. n - 1
  BY <1>2
<1>7. g < top /\ g + n >= top
  BY <1>3, <1>6
<1> QED BY <1>5, <1>7, <1>9

\* A parity wait lets a warp pass only after the phase it means.
LEMMA PongParityWait ==
  ASSUME NEW b, NEW x \in Int, b.done \in {x, x + 1}, Pong!Passes(b, x % 2)
  PROVE  b.done = x + 1
BY DEF Pong!Passes

LEMMA PongSizes ==
  ASSUME Pong!ShapeAssumption
  PROVE  /\ P \in Nat \ {0} /\ P >= 2 /\ Groups \in Nat /\ Groups >= 1
         /\ P + 1 \in Nat \ {0} /\ Pong!ScaleRing = P + 1
         /\ Leader \in Warps
         /\ \A x \in Int : Upto(x) <= Groups /\ Upto(x) <= x /\ Upto(x) \in {x, Groups}
BY DEF Pong!ShapeAssumption, Pong!ScaleRing, Upto

-----------------------------------------------------------------------------
(* The round the warps share.                                              *)

\* No step but the block's barrier changes a round, and no warp is in a late
\* step before that barrier puts every warp there.
KeepsRounds ==
  \A v \in Warps : /\ Round(v)' = Round(v) /\ Loaded(v)' = Loaded(v)
                   /\ Late(v)' <=> Late(v)

LEMMA ControlInit ==
  ASSUME Pong!ShapeAssumption, Pong!Init
  PROVE  ControlInv
BY PongSizes DEF Pong!Init, ControlInv, WarpInv, Round, Upto, Late, LateSteps, Steps, PongIssued

\* A step of one warp that leaves its round and its iteration alone.
LEMMA WarpStep ==
  ASSUME Pong!ShapeAssumption, ControlInv, NEW w \in Warps, NEW s \in Steps,
         pc' = [pc EXCEPT ![w] = s], UNCHANGED iteration,
         pc[w] # "prologue", s # "prologue", Late(w) <=> s \in LateSteps,
         s = "prefetch" => Round(w) < Groups, s = "reading" => Round(w) > 0,
         mma' = PongIssued(Leader)'
  PROVE  ControlInv'
<1>1. \A v \in Warps : Round(v)' = Round(v) /\ pc'[v] = IF v = w THEN s ELSE pc[v]
  BY DEF ControlInv, Round
<1>2. \A v \in Warps : WarpInv(v)'
  BY <1>1 DEF ControlInv, WarpInv, Round, Late
<1>3. pc' \in [Warps -> Steps] /\ iteration' \in [Warps -> Nat]
  BY DEF ControlInv
<1>4. Leader \in Warps
  BY PongSizes
<1> QED BY <1>1, <1>2, <1>3, <1>4 DEF ControlInv

LEMMA ControlUnchanged ==
  ASSUME ControlInv, UNCHANGED <<pc, iteration, mma>>
  PROVE  ControlInv' /\ KeepsRounds
BY DEF ControlInv, WarpInv, Round, Late, PongIssued, KeepsRounds, Loaded

LEMMA PrologueControl ==
  ASSUME Pong!ShapeAssumption, ControlInv, NEW w \in Warps, Pong!Prologue(w)
  PROVE  /\ ControlInv'
         /\ \A v \in Warps : Round(v)' = Round(v) /\ Summed(v)' = Summed(v)
         /\ \A v \in Warps : pc'[v] = pc[v] \/ pc'[v] \in {"multiply", "promote"}
         /\ IF iteration[w] < P - 1 /\ iteration[w] < Groups
              THEN /\ Loaded(w) = iteration[w]
                   /\ \A v \in Warps : Loaded(v)' = IF v = w THEN Loaded(w) + 1 ELSE Loaded(v)
              ELSE \A v \in Warps : Loaded(v)' = Loaded(v)
<1>1. Leader \in Warps /\ P \in Nat /\ Groups \in Nat /\ P >= 2 /\ Groups >= 1
  BY PongSizes
<1>2. mma' = mma /\ pc[w] = "prologue" /\ iteration[w] \in Nat /\ iteration[w] <= Upto(P - 1)
  BY DEF Pong!Prologue, Pong!matrix, ControlInv, WarpInv
<1>3. CASE iteration[w] < P - 1 /\ iteration[w] < Groups
  <2>1. pc' = pc /\ iteration' = [iteration EXCEPT ![w] = @ + 1]
    BY <1>3 DEF Pong!Prologue
  <2>2. \A v \in Warps : Round(v)' = Round(v)
    BY <2>1, <1>2 DEF ControlInv, Round
  <2>3. \A v \in Warps : WarpInv(v)'
    BY <2>1, <2>2, <1>1, <1>2, <1>3 DEF ControlInv, WarpInv, Late, Upto
  <2>4. \A v \in Warps : Loaded(v)' = IF v = w THEN Loaded(w) + 1 ELSE Loaded(v)
    BY <2>1, <1>2 DEF ControlInv, Loaded
  <2> QED BY <2>1, <2>2, <2>3, <2>4, <1>1, <1>2, <1>3 DEF ControlInv, PongIssued, Loaded, Summed
<1>4. CASE ~(iteration[w] < P - 1 /\ iteration[w] < Groups)
  <2>1. pc' = [pc EXCEPT ![w] = "multiply"] /\ iteration' = [iteration EXCEPT ![w] = 0]
    BY <1>4 DEF Pong!Prologue, Pong!Goes
  <2>2. \A v \in Warps : Round(v)' = Round(v)
    BY <2>1, <1>2 DEF ControlInv, Round
  <2>3. \A v \in Warps : WarpInv(v)'
    BY <2>1, <2>2, <1>1, <1>2 DEF ControlInv, WarpInv, Late, LateSteps, Round
  <2>4. iteration[w] = Upto(P - 1)
    BY <1>1, <1>2, <1>4 DEF Upto
  <2>5. \A v \in Warps : Loaded(v)' = Loaded(v)
    <3>1. Upto(0 + P - 1) = Upto(P - 1)
      BY <1>1
    <3> QED BY <2>1, <2>4, <3>1, <1>2 DEF ControlInv, Loaded
  <2>6. pc' \in [Warps -> Steps] /\ iteration' \in [Warps -> Nat]
    BY <2>1 DEF ControlInv, Steps
  <2>7. mma' = PongIssued(Leader)'
    BY <2>1, <2>2, <1>1, <1>2 DEF ControlInv, PongIssued
  <2>8. ControlInv'
    BY <2>2, <2>3, <2>6, <2>7, <1>1 DEF ControlInv
  <2> QED BY <2>1, <2>2, <2>5, <2>8, <1>2, <1>4 DEF ControlInv, Summed
<1> QED BY <1>3, <1>4

LEMMA MultiplyControl ==
  ASSUME Pong!ShapeAssumption, ControlInv, NEW w \in Warps, Pong!Multiply(w)
  PROVE  /\ ControlInv' /\ KeepsRounds
         /\ \A v \in Warps : Summed(v)' = Summed(v)
         /\ Round(w) = iteration[w] /\ iteration[w] \in Nat /\ iteration[w] < Groups
         /\ Loaded(w) = Upto(iteration[w] + P - 1)
         /\ w = Leader => mma = iteration[w]
<1>1. Leader \in Warps /\ P \in Nat /\ Groups \in Nat /\ P >= 2 /\ Groups >= 1
  BY PongSizes
<1>2. /\ pc[w] = "multiply" /\ iteration[w] < Groups /\ iteration[w] \in Nat
      /\ pc' = [pc EXCEPT ![w] = "prefetch"] /\ UNCHANGED iteration
      /\ mma' = IF w = Leader THEN mma + 1 ELSE mma
  BY DEF Pong!Multiply, Pong!Goes, ControlInv
<1>3. Round(w) = iteration[w] /\ ~Late(w)
  BY <1>2 DEF Round, Late, LateSteps
<1>4. KeepsRounds /\ \A v \in Warps : Summed(v)' = Summed(v)
  BY <1>2 DEF ControlInv, KeepsRounds, Round, Loaded, Late, LateSteps, Summed
<1>5. mma' = PongIssued(Leader)' /\ (w = Leader => mma = iteration[w])
  BY <1>1, <1>2, <1>3, <1>4 DEF ControlInv, PongIssued, Upto, KeepsRounds
<1>6. ControlInv'
  BY <1>2, <1>3, <1>5, WarpStep DEF Steps, LateSteps
<1> QED BY <1>2, <1>3, <1>4, <1>5, <1>6 DEF Loaded

LEMMA PrefetchControl ==
  ASSUME Pong!ShapeAssumption, ControlInv, NEW w \in Warps, Pong!Prefetch(w)
  PROVE  /\ ControlInv'
         /\ \A v \in Warps : Round(v)' = Round(v) /\ Summed(v)' = Summed(v)
         /\ \A v \in Warps : pc'[v] = pc[v] \/ pc'[v] \in {"multiply", "promote"}
         /\ iteration[w] \in Nat /\ ~Late(w)
         /\ IF iteration[w] + P - 1 < Groups
              THEN /\ Loaded(w) = iteration[w] + P - 1
                   /\ \A v \in Warps : Loaded(v)' = IF v = w THEN Loaded(w) + 1 ELSE Loaded(v)
              ELSE \A v \in Warps : Loaded(v)' = Loaded(v)
         /\ w = Leader => mma = iteration[w] + 1
<1>1. Leader \in Warps /\ P \in Nat /\ Groups \in Nat /\ P >= 2 /\ Groups >= 1
  BY PongSizes
<1>2. /\ pc[w] = "prefetch" /\ iteration[w] \in Nat /\ UNCHANGED <<iteration, mma>>
      /\ pc' = [pc EXCEPT ![w] = "promote"]
  BY DEF Pong!Prefetch, Pong!Goes, ControlInv, Pong!matrix
<1>3. Round(w) = iteration[w] /\ ~Late(w) /\ Round(w) < Groups
  BY <1>2 DEF ControlInv, WarpInv, Round, Late, LateSteps
<1>4. /\ \A v \in Warps : Round(v)' = Round(v) /\ Summed(v)' = Summed(v)
      /\ \A v \in Warps : pc'[v] = pc[v] \/ pc'[v] \in {"multiply", "promote"}
  BY <1>2 DEF ControlInv, Round, Summed
<1>5. mma' = PongIssued(Leader)' /\ (w = Leader => mma = iteration[w] + 1)
  <2>0. Round(Leader)' = Round(Leader)
    BY <1>1, <1>2 DEF ControlInv, Round
  <2>4. mma = PongIssued(Leader)
    BY DEF ControlInv
  <2>1. pc'[Leader] = IF w = Leader THEN "promote" ELSE pc[Leader]
    BY <1>1, <1>2 DEF ControlInv
  <2>2. mma = PongIssued(Leader)' /\ (w = Leader => mma = Upto(Round(w) + 1))
    BY <2>0, <2>1, <2>4, <1>2 DEF PongIssued
  <2> QED BY <2>2, <1>1, <1>2, <1>3 DEF Upto
<1>6. ControlInv'
  BY <1>2, <1>3, <1>5, WarpStep DEF Steps, LateSteps
<1>7. \A v \in Warps : v # w => Loaded(v)' = Loaded(v)
  BY <1>2 DEF ControlInv, Loaded
<1>8. Loaded(w) = Upto(iteration[w] + P - 1) /\ Loaded(w)' = Upto(iteration[w] + P)
  BY <1>2 DEF ControlInv, Loaded
<1>9. IF iteration[w] + P - 1 < Groups
        THEN Loaded(w) = iteration[w] + P - 1 /\ Loaded(w)' = Loaded(w) + 1
        ELSE Loaded(w)' = Loaded(w)
  BY <1>8, <1>1, <1>2 DEF Upto
<1> QED BY <1>2, <1>3, <1>4, <1>5, <1>6, <1>7, <1>9

LEMMA StartPromotionControl ==
  ASSUME Pong!ShapeAssumption, ControlInv, NEW w \in Warps, Pong!StartPromotion(w)
  PROVE  ControlInv' /\ KeepsRounds /\ \A v \in Warps : Summed(v)' = Summed(v)
<1>1. Leader \in Warps /\ P \in Nat /\ Groups \in Nat /\ P >= 2 /\ Groups >= 1
  BY PongSizes
<1>2. /\ pc[w] = "promote" \/ (pc[w] = "multiply" /\ iteration[w] = Groups)
      /\ iteration[w] \in Nat /\ UNCHANGED <<iteration, mma>>
      /\ pc' = [pc EXCEPT ![w] = IF iteration[w] > 0 THEN "reading" ELSE "complete"]
  BY DEF Pong!StartPromotion, Pong!Goes, ControlInv, Pong!matrix
<1>3. Round(w) = iteration[w] /\ ~Late(w)
  BY <1>2 DEF Round, Late, LateSteps
<1>4. \A v \in Warps : Loaded(v)' = Loaded(v)
  <2>1. pc[w] = "multiply" => Upto(iteration[w] + P - 1) = Upto(iteration[w] + P)
    BY <1>1, <1>2 DEF Upto
  <2> QED BY <2>1, <1>2 DEF ControlInv, Loaded
<1>5. KeepsRounds /\ \A v \in Warps : Summed(v)' = Summed(v)
  BY <1>2, <1>3, <1>4 DEF ControlInv, KeepsRounds, Round, Late, LateSteps, Summed
<1>6. mma' = PongIssued(Leader)'
  BY <1>1, <1>2, <1>3, <1>5 DEF ControlInv, PongIssued, Upto, KeepsRounds
<1>7. ControlInv'
  BY <1>2, <1>3, <1>6, WarpStep DEF Steps, LateSteps
<1> QED BY <1>5, <1>7

LEMMA PromoteControl ==
  ASSUME Pong!ShapeAssumption, ControlInv, NEW w \in Warps, Pong!Promote(w)
  PROVE  /\ ControlInv' /\ KeepsRounds
         /\ Round(w) = iteration[w] /\ iteration[w] \in Nat /\ Round(w) > 0
         /\ Round(w) <= Groups
         /\ Summed(w) = Round(w) - 1 /\ Summed(w)' = Round(w)
         /\ \A v \in Warps \ {w} : Summed(v)' = Summed(v)
<1>1. Leader \in Warps /\ P \in Nat /\ Groups \in Nat /\ P >= 2 /\ Groups >= 1
  BY PongSizes
<1>2. /\ pc[w] = "reading" /\ iteration[w] \in Nat /\ UNCHANGED <<iteration, mma>>
      /\ pc' = [pc EXCEPT ![w] = "complete"]
  BY DEF Pong!Promote, Pong!Reads, Pong!Goes, ControlInv, Pong!matrix
<1>3. Round(w) = iteration[w] /\ ~Late(w) /\ Round(w) > 0 /\ Round(w) <= Groups
  BY <1>1, <1>2 DEF ControlInv, WarpInv, Round, Late, LateSteps
<1>4. KeepsRounds /\ \A v \in Warps \ {w} : Summed(v)' = Summed(v)
  BY <1>2 DEF ControlInv, KeepsRounds, Loaded, Round, Late, LateSteps, Summed
<1>5. mma' = PongIssued(Leader)'
  BY <1>1, <1>2, <1>4 DEF ControlInv, PongIssued, KeepsRounds
<1>6. ControlInv'
  BY <1>2, <1>3, <1>5, WarpStep DEF Steps, LateSteps
<1>7. Summed(w) = Round(w) - 1 /\ Summed(w)' = Round(w)
  BY <1>2, <1>3 DEF ControlInv, Summed, Round
<1> QED BY <1>2, <1>3, <1>4, <1>6, <1>7

LEMMA CompleteControl ==
  ASSUME Pong!ShapeAssumption, ControlInv, NEW w \in Warps, Pong!Complete(w)
  PROVE  /\ ControlInv' /\ KeepsRounds /\ \A v \in Warps : Summed(v)' = Summed(v)
         /\ Round(w) = iteration[w] /\ iteration[w] \in Nat /\ Round(w) <= Groups
<1>1. Leader \in Warps /\ P \in Nat /\ Groups \in Nat /\ P >= 2 /\ Groups >= 1
  BY PongSizes
<1>2. /\ pc[w] = "complete" /\ iteration[w] \in Nat /\ UNCHANGED <<iteration, mma>>
      /\ pc' = [pc EXCEPT ![w] = "sync"]
  BY DEF Pong!Complete, Pong!Goes, ControlInv, Pong!matrix
<1>3. Round(w) = iteration[w] /\ ~Late(w) /\ Round(w) <= Groups
  BY <1>1, <1>2 DEF ControlInv, WarpInv, Round, Late, LateSteps
<1>4. KeepsRounds /\ \A v \in Warps : Summed(v)' = Summed(v)
  BY <1>2 DEF ControlInv, KeepsRounds, Loaded, Round, Late, LateSteps, Summed
<1>5. mma' = PongIssued(Leader)'
  BY <1>1, <1>2, <1>4 DEF ControlInv, PongIssued, KeepsRounds
<1>6. ControlInv'
  BY <1>2, <1>3, <1>5, WarpStep DEF Steps, LateSteps
<1> QED BY <1>2, <1>3, <1>4, <1>6

\* The steps of the epilogue.
LEMMA LateControl ==
  ASSUME Pong!ShapeAssumption, ControlInv, NEW w \in Warps, Pong!WriteExchange(w) \/ Pong!StoreRows(w)
  PROVE  ControlInv' /\ KeepsRounds /\ Late(w) /\ \A v \in Warps : Summed(v)' = Summed(v)
<1> DEFINE s == IF pc[w] = "write" THEN "written" ELSE "stored"
<1>1. Leader \in Warps
  BY PongSizes
<1>2. /\ pc[w] \in {"write", "written"} /\ UNCHANGED <<iteration, mma>>
      /\ pc' = [pc EXCEPT ![w] = s]
  BY DEF Pong!WriteExchange, Pong!StoreRows, Pong!Goes, ControlInv, Pong!matrix
<1>3. Late(w) /\ s \in LateSteps /\ s \in {"written", "stored"}
  BY <1>2 DEF Late, LateSteps
<1>4. KeepsRounds /\ \A v \in Warps : Summed(v)' = Summed(v)
  BY <1>2, <1>3 DEF ControlInv, KeepsRounds, Loaded, Round, Late, LateSteps, Summed
<1>5. mma' = PongIssued(Leader)'
  BY <1>1, <1>2, <1>3, <1>4 DEF ControlInv, PongIssued, KeepsRounds
<1> HIDE DEF s
<1>6. ControlInv'
  BY <1>2, <1>3, <1>5, WarpStep DEF Steps, LateSteps
<1> QED BY <1>3, <1>4, <1>6

LEMMA FreeControl ==
  ASSUME Pong!ShapeAssumption, ControlInv, Pong!FreeTmem
  PROVE  ControlInv' /\ KeepsRounds /\ \A v \in Warps : Summed(v)' = Summed(v)
<1>1. Leader \in Warps
  BY PongSizes
<1>2. /\ \A v \in Warps : pc[v] = "stored"
      /\ UNCHANGED <<iteration, mma>> /\ pc' = [v \in Warps |-> "done"]
  BY DEF Pong!FreeTmem, Pong!Everyone, ControlInv, Pong!matrix
<1>3. KeepsRounds /\ \A v \in Warps : Summed(v)' = Summed(v)
  BY <1>2 DEF ControlInv, KeepsRounds, Loaded, Round, Late, LateSteps, Summed
<1>4. \A v \in Warps : WarpInv(v)'
  BY <1>2, <1>3 DEF ControlInv, WarpInv, KeepsRounds, Round, Late, LateSteps
<1>5. mma' = PongIssued(Leader)'
  BY <1>1, <1>2, <1>3 DEF ControlInv, PongIssued, KeepsRounds
<1>6. pc' \in [Warps -> Steps] /\ iteration' \in [Warps -> Nat]
  BY <1>2 DEF ControlInv, Steps, LateSteps
<1> QED BY <1>1, <1>3, <1>4, <1>5, <1>6 DEF ControlInv, KeepsRounds

\* The block's barrier: every warp enters the next round, or the epilogue.
LEMMA SyncControl ==
  ASSUME Pong!ShapeAssumption, ControlInv, Pong!Syncthreads
  PROVE  /\ ControlInv'
         /\ \A v \in Warps : /\ pc[v] = "sync" /\ pc'[v] \in {"multiply", "write"}
                              /\ Round(v) \in Nat /\ Round(v) <= Groups
                              /\ Round(v)' = Round(v) + 1
                              /\ Loaded(v)' = Loaded(v) /\ Summed(v)' = Summed(v)
                              /\ ~Late(v)
<1> DEFINE i == iteration[Leader]
           s == IF i = Groups THEN "write" ELSE "multiply"
<1>1. Leader \in Warps /\ P \in Nat /\ Groups \in Nat /\ P >= 2 /\ Groups >= 1
  BY PongSizes
<1>2. /\ \A v \in Warps : pc[v] = "sync"
      /\ iteration' = [v \in Warps |-> iteration[v] + 1]
      /\ pc' = [v \in Warps |-> s] /\ UNCHANGED mma
  BY DEF Pong!Syncthreads, Pong!Everyone, Pong!LastIteration, Pong!matrix
<1>3. i \in Nat /\ i <= Groups /\ \A v \in Warps : Round(v) = i /\ iteration[v] = i /\ ~Late(v)
  BY <1>1, <1>2 DEF ControlInv, WarpInv, Round, Late, LateSteps
<1>4. \A v \in Warps : /\ Round(v)' = i + 1
                        /\ iteration'[v] = i + 1 /\ pc'[v] = s
  BY <1>2, <1>3 DEF Round
<1>5. \A v \in Warps : Loaded(v) = Upto(i + P)
  BY <1>2, <1>3 DEF Loaded
<1>6. \A v \in Warps : Loaded(v)' = Loaded(v)
  <2>1. CASE i = Groups
    <3>1. \A v \in Warps : Loaded(v)' = Upto(i + 1 + P)
      BY <1>4, <2>1 DEF Loaded
    <3> QED BY <3>1, <1>5, <1>1, <2>1 DEF Upto
  <2>2. CASE i # Groups
    <3>1. \A v \in Warps : Loaded(v)' = Upto(i + 1 + P - 1)
      BY <1>4, <2>2 DEF Loaded
    <3>2. i + 1 + P - 1 = i + P
      BY <1>1, <1>3
    <3> QED BY <3>1, <3>2, <1>5
  <2> QED BY <2>1, <2>2
<1>7. \A v \in Warps : Summed(v)' = Summed(v)
  BY <1>2, <1>3, <1>4 DEF Summed
<1>8. \A v \in Warps : WarpInv(v)'
  BY <1>3, <1>4, <1>1 DEF WarpInv, Late, LateSteps
<1>9. mma' = PongIssued(Leader)'
  <2>1. mma = Upto(i + 1)
    BY <1>1, <1>2, <1>3 DEF ControlInv, PongIssued
  <2>2. CASE i = Groups
    BY <2>1, <2>2, <1>1, <1>2, <1>4 DEF PongIssued, Upto
  <2>3. CASE i # Groups
    BY <2>1, <2>3, <1>1, <1>2, <1>3, <1>4 DEF PongIssued, Upto
  <2> QED BY <2>2, <2>3
<1>10. pc' \in [Warps -> Steps] /\ iteration' \in [Warps -> Nat]
  <2>1. s \in Steps
    BY DEF Steps, LateSteps
  <2>2. \A v \in Warps : iteration[v] + 1 \in Nat
    BY <1>3
  <2> QED BY <2>1, <2>2, <1>2
<1>11. ControlInv'
  BY <1>1, <1>4, <1>8, <1>9, <1>10 DEF ControlInv
<1> QED BY <1>2, <1>3, <1>4, <1>6, <1>7, <1>11

-----------------------------------------------------------------------------
(* The two halves of tensor memory.                                        *)

LEMMA MatrixInit ==
  ASSUME Pong!ShapeAssumption, Pong!Init
  PROVE  MatrixInv /\ TmemInv
<1>1. Committed = 0 /\ \A w \in Warps : Round(w) = 0
  BY DEF Pong!Init, Pong!Halves, Committed, Round
<1>2. Upto(0) = 0
  BY PongSizes DEF Upto
<1>3. barrier = [h \in Pong!Halves |-> Pong!Barrier(1, 1, 0, (0 + 1 - h) \div 2)]
  <2>1. \A h \in Pong!Halves : (0 + 1 - h) \div 2 = 0
    BY DEF Pong!Halves
  <2> QED BY <2>1 DEF Pong!Init, Pong!NewBarrier
<1> QED BY <1>1, <1>2, <1>3
       DEF Pong!Init, MatrixInv, MatrixRing, Awaited, TmemInv, Pong!Halves, Pong!Garbage

LEMMA MatrixKept ==
  ASSUME MatrixInv, UNCHANGED <<barrier, mma, retired, owed>>,
         \A v \in Warps : Round(v)' = Round(v) /\ (pc'[v] = "sync" => pc[v] = "sync")
  PROVE  MatrixInv'
<1>1. Committed' = Committed
  BY DEF Committed
<1>2. \A v \in Warps : Awaited(v)'
  BY <1>1 DEF MatrixInv, MatrixRing, Awaited
<1> QED BY <1>1, <1>2 DEF MatrixInv, MatrixRing, Awaited

LEMMA TmemKept ==
  ASSUME TmemInv, UNCHANGED <<tmem, mma, retired>>
  PROVE  TmemInv'
BY DEF TmemInv

\* How far commits and completions may lag behind the MMAs issued.
LEMMA InFlight ==
  ASSUME Pong!ShapeAssumption, ControlInv, MatrixInv
  PROVE  /\ mma \in Nat /\ retired \in Nat /\ Committed \in Nat
         /\ owed[0] \in {0, 1} /\ owed[1] \in {0, 1}
         /\ owed[0] = 0 \/ owed[1] = 0
         /\ Committed <= retired /\ retired <= mma /\ mma <= Committed + 1
         /\ mma <= Groups
<1>1. Leader \in Warps /\ P \in Nat /\ Groups \in Nat /\ P >= 2 /\ Groups >= 1
  BY PongSizes
<1>2. mma \in Nat /\ mma <= Groups
  <2>1. iteration[Leader] \in Nat /\ mma = PongIssued(Leader) /\ WarpInv(Leader)
    BY <1>1 DEF ControlInv
  <2> QED BY <1>1, <2>1 DEF WarpInv, PongIssued, Round, Upto, Late, LateSteps
<1>3. /\ retired \in Nat /\ owed[0] \in {0, 1} /\ owed[1] \in {0, 1} /\ retired <= mma
      /\ mma <= Committed + 1
      /\ owed[0] = 1 => retired >= 1 /\ 0 = (retired - 1) % 2
      /\ owed[1] = 1 => retired >= 1 /\ 1 = (retired - 1) % 2
  BY DEF MatrixInv, MatrixRing, Awaited, Pong!Halves
<1> QED BY <1>2, <1>3 DEF Committed

LEMMA MultiplyMatrix ==
  ASSUME Pong!ShapeAssumption, ControlInv, MatrixInv, TmemInv, NEW w \in Warps, Pong!Multiply(w)
  PROVE  MatrixInv' /\ TmemInv'
<1>1. /\ \A v \in Warps : Round(v)' = Round(v) /\ (pc'[v] = "sync" => pc[v] = "sync")
      /\ Round(w) = iteration[w] /\ iteration[w] \in Nat /\ iteration[w] < Groups
      /\ w = Leader => mma = iteration[w]
  <2>1. KeepsRounds /\ pc' = [pc EXCEPT ![w] = "prefetch"]
    BY MultiplyControl DEF Pong!Multiply, Pong!Goes
  <2> QED BY <2>1, MultiplyControl DEF KeepsRounds, ControlInv
<1>2. UNCHANGED <<barrier, retired, owed>>
  BY DEF Pong!Multiply
<1>3. CASE w # Leader
  <2>1. UNCHANGED <<tmem, mma>>
    BY <1>3 DEF Pong!Multiply
  <2> QED BY <2>1, <1>1, <1>2, MatrixKept, TmemKept
<1>4. CASE w = Leader
  <2>1. mma' = mma + 1 /\ tmem' = [tmem EXCEPT ![mma % 2] = Pong!Garbage]
    BY <1>1, <1>4 DEF Pong!Multiply
  <2>2. /\ mma \in Nat /\ retired \in Nat /\ Committed \in Nat
        /\ Committed <= retired /\ retired <= mma
    BY InFlight
  <2>3. Committed = mma /\ retired = mma
    <3>1. Committed >= Upto(Round(w)) /\ Upto(Round(w)) = mma
      BY <1>1, <1>4, PongSizes DEF MatrixInv, MatrixRing, Awaited, Upto
    <3> QED BY <3>1, <2>2
  <2>4. Committed' = Committed
    BY <1>2 DEF Committed
  <2>5. \A v \in Warps : Awaited(v)'
    BY <1>1, <2>4 DEF MatrixInv, MatrixRing, Awaited
  <2>6. MatrixInv'
    BY <1>2, <2>1, <2>2, <2>3, <2>4, <2>5 DEF MatrixInv, MatrixRing, Awaited
  <2>7. TmemInv'
    <3>0. tmem' \in [Pong!Halves -> Int]
      <4>1. PICK h : h = mma % 2
        OBVIOUS
      <4>2. tmem \in [Pong!Halves -> Int] /\ tmem' = [tmem EXCEPT ![h] = Pong!Garbage] /\ Pong!Garbage \in Int
        BY <4>1, <2>1 DEF TmemInv, Pong!Garbage
      <4> QED BY <4>2
    <3> SUFFICES ASSUME NEW g \in Nat, g < retired, g + 2 >= mma + 1
                 PROVE  tmem'[g % 2] = g
      BY <1>2, <2>1, <3>0 DEF TmemInv
    <3>1. g = mma - 1 /\ g % 2 # mma % 2 /\ g % 2 \in Pong!Halves
      BY <2>2, <2>3 DEF Pong!Halves
    <3>2. tmem[g % 2] = g
      BY <2>2 DEF TmemInv
    <3> QED BY <2>1, <3>1, <3>2 DEF TmemInv
  <2> QED BY <2>6, <2>7
<1> QED BY <1>3, <1>4

LEMMA RetireMatrix ==
  ASSUME Pong!ShapeAssumption, ControlInv, MatrixInv, TmemInv, Pong!OperandStable, Pong!MmaRetire
  PROVE  MatrixInv' /\ TmemInv'
<1>1. /\ retired < mma /\ retired' = retired + 1 /\ UNCHANGED <<barrier, mma, pc, iteration>>
      /\ tmem' = [tmem EXCEPT ![retired % 2] = Pong!Product(retired % P)]
      /\ owed' = [owed EXCEPT ![retired % 2] = @ + 1]
  BY DEF Pong!MmaRetire
<1>2. /\ mma \in Nat /\ retired \in Nat /\ Committed \in Nat
      /\ owed[0] \in {0, 1} /\ owed[1] \in {0, 1} /\ owed \in [Pong!Halves -> {0, 1}]
      /\ Committed <= retired /\ mma <= Committed + 1
  BY InFlight DEF MatrixInv, MatrixRing, Awaited
<1>3. retired = Committed /\ mma = retired + 1 /\ owed[0] = 0 /\ owed[1] = 0
  BY <1>1, <1>2 DEF Committed
<1>4. retired % 2 \in {0, 1} /\ Pong!Halves = {0, 1}
  BY <1>2 DEF Pong!Halves
<1>5. owed' = [h \in Pong!Halves |-> IF h = retired % 2 THEN 1 ELSE 0]
  <2>1. \A h \in Pong!Halves : owed[h] = 0
    BY <1>3, <1>4
  <2>2. PICK x : x = retired % 2
    OBVIOUS
  <2>3. x \in Pong!Halves /\ owed' = [owed EXCEPT ![x] = @ + 1]
    BY <2>2, <1>1, <1>4
  <2>4. owed' \in [Pong!Halves -> Int] /\ \A h \in Pong!Halves : owed'[h] = IF h = x THEN 1 ELSE 0
    BY <2>1, <2>3, <1>2
  <2> QED BY <2>2, <2>4
<1>6. Committed' = Committed
  BY <1>1, <1>2, <1>3, <1>4, <1>5 DEF Committed
<1>7. \A v \in Warps : Awaited(v)'
  BY <1>1, <1>6 DEF MatrixInv, MatrixRing, Awaited, Round
<1>8. MatrixInv'
  <2>1. owed' \in [Pong!Halves -> {0, 1}]
    BY <1>5
  <2>2. \A h \in Pong!Halves : owed'[h] = 1 => retired' >= 1 /\ h = (retired' - 1) % 2
    <3>1. retired' - 1 = retired /\ retired' >= 1
      BY <1>1, <1>2
    <3> QED BY <1>5, <3>1
  <2>3. /\ retired' \in Nat /\ retired' <= mma' /\ mma' <= Committed' + 1
    BY <1>1, <1>2, <1>3, <1>6
  <2>4. barrier' = [h \in Pong!Halves |-> Pong!Barrier(1, 1, 0, (Committed' + 1 - h) \div 2)]
    BY <1>1, <1>6 DEF MatrixInv, MatrixRing, Awaited
  <2> QED BY <2>1, <2>2, <2>3, <2>4, <1>7 DEF MatrixInv, MatrixRing, Awaited
<1>9. TmemInv'
  <2>1. Pong!Product(retired % P) = retired
    <3>1. retired \in retired .. mma - 1
      BY <1>1, <1>2
    <3>2. operand[retired % P] = [group |-> retired, landed |-> TRUE]
      BY <3>1 DEF Pong!OperandStable
    <3> QED BY <3>2 DEF Pong!Product
  <2>2. tmem' = [tmem EXCEPT ![retired % 2] = retired]
    BY <1>1, <2>1
  <2>0. tmem' \in [Pong!Halves -> Int]
    BY <2>2, <1>2, <1>4 DEF TmemInv
  <2> SUFFICES ASSUME NEW g \in Nat, g < retired + 1, g + 2 >= mma
               PROVE  tmem'[g % 2] = g
    BY <1>1, <2>0 DEF TmemInv
  <2>3. CASE g = retired
    BY <2>2, <2>3, <1>4 DEF TmemInv
  <2>4. CASE g # retired
    <3>1. g < retired /\ g = retired - 1 /\ g % 2 # retired % 2 /\ g % 2 \in Pong!Halves
      BY <2>4, <1>2, <1>3 DEF Pong!Halves
    <3>2. tmem[g % 2] = g
      BY <3>1 DEF TmemInv
    <3> QED BY <2>2, <3>1, <3>2 DEF TmemInv
  <2> QED BY <2>3, <2>4
<1> QED BY <1>8, <1>9

LEMMA CommitMatrix ==
  ASSUME Pong!ShapeAssumption, ControlInv, MatrixInv, TmemInv, NEW h \in Pong!Halves, Pong!Commit(h)
  PROVE  MatrixInv' /\ TmemInv'
<1>1. /\ owed[h] > 0 /\ UNCHANGED <<tmem, mma, retired, pc, iteration>>
      /\ owed' = [owed EXCEPT ![h] = @ - 1]
      /\ barrier' = [barrier EXCEPT ![h] = Pong!Arrive(@)]
  BY DEF Pong!Commit, Pong!buffers
<1>2. /\ mma \in Nat /\ retired \in Nat /\ Committed \in Nat
      /\ owed[0] \in {0, 1} /\ owed[1] \in {0, 1} /\ owed \in [Pong!Halves -> {0, 1}]
      /\ owed[0] = 0 \/ owed[1] = 0
      /\ Committed <= retired /\ retired <= mma /\ mma <= Committed + 1
  BY InFlight DEF MatrixInv, MatrixRing, Awaited
<1>3. h \in {0, 1} /\ Pong!Halves = {0, 1} /\ owed[h] = 1 /\ h = (retired - 1) % 2 /\ owed[1 - h] = 0
  BY <1>1, <1>2 DEF MatrixInv, MatrixRing, Awaited, Pong!Halves
<1>4. Committed = retired - 1
  BY <1>2, <1>3 DEF Committed
<1>5. owed' = [i \in Pong!Halves |-> 0]
  <2>1. \A i \in Pong!Halves : i # h => i = 1 - h
    BY <1>3
  <2>2. \A i \in Pong!Halves : owed'[i] = 0
    BY <2>1, <1>1, <1>2, <1>3
  <2>3. owed' \in [Pong!Halves -> Int]
    BY <1>1, <1>2
  <2> QED BY <2>2, <2>3
<1>6. Committed' = retired
  BY <1>1, <1>2, <1>3, <1>5 DEF Committed
<1>7. \A v \in Warps : Awaited(v)'
  <2> SUFFICES ASSUME NEW v \in Warps
               PROVE  Awaited(v)'
    OBVIOUS
  <2>1. /\ Committed >= Upto(Round(v)) /\ (pc[v] = "sync" => Committed >= Upto(Round(v) + 1))
        /\ Round(v) \in Nat /\ Round(v)' = Round(v) /\ pc'[v] = pc[v]
    BY <1>1 DEF MatrixInv, MatrixRing, Awaited, ControlInv, Round
  <2>2. Upto(Round(v)) \in Int /\ Upto(Round(v) + 1) \in Int
    BY <2>1, PongSizes DEF Upto
  <2>3. Committed' >= Committed /\ Committed' \in Nat /\ Committed \in Nat
    BY <1>2, <1>4, <1>6
  <2>4. Committed' >= Upto(Round(v)) /\ (pc[v] = "sync" => Committed' >= Upto(Round(v) + 1))
    BY <2>1, <2>2, <2>3
  <2> QED BY <2>4, <1>1 DEF Awaited, Round
<1>8. barrier' = [i \in Pong!Halves |-> Pong!Barrier(1, 1, 0, (Committed' + 1 - i) \div 2)]
  <2>1. \A i \in Pong!Halves : (retired + 1 - i) \div 2 =
          IF i = h THEN ((Committed + 1 - i) \div 2) + 1 ELSE (Committed + 1 - i) \div 2
    BY <1>2, <1>3, <1>4
  <2>2. \A n \in Nat : Pong!Arrive(Pong!Barrier(1, 1, 0, n)) = Pong!Barrier(1, 1, 0, n + 1)
    BY DEF Pong!Arrive, Pong!Barrier, Pong!Settle
  <2>3. barrier = [i \in Pong!Halves |-> Pong!Barrier(1, 1, 0, (Committed + 1 - i) \div 2)]
    BY DEF MatrixInv, MatrixRing, Awaited
  <2>4. \A i \in Pong!Halves : (Committed + 1 - i) \div 2 \in Nat
    BY <1>2, <1>3
  <2>5. barrier' = [i \in Pong!Halves |-> IF i = h THEN Pong!Arrive(barrier[i]) ELSE barrier[i]]
    BY <1>1, <2>3
  <2>6. \A i \in Pong!Halves : barrier[i] = Pong!Barrier(1, 1, 0, (Committed + 1 - i) \div 2)
    BY <2>3
  <2>7. \A i \in Pong!Halves : (IF i = h THEN Pong!Arrive(barrier[i]) ELSE barrier[i]) =
                           Pong!Barrier(1, 1, 0, (retired + 1 - i) \div 2)
    BY <2>1, <2>2, <2>4, <2>6
  <2> QED BY <2>5, <2>7, <1>6
<1>9. MatrixInv'
  <2>1. owed' \in [Pong!Halves -> {0, 1}] /\ \A i \in Pong!Halves : owed'[i] # 1
    BY <1>5
  <2> QED BY <2>1, <1>1, <1>2, <1>6, <1>7, <1>8 DEF MatrixInv, MatrixRing, Awaited
<1> QED BY <1>1, <1>9, TmemKept

LEMMA CompleteMatrix ==
  ASSUME Pong!ShapeAssumption, ControlInv, MatrixInv, TmemInv, NEW w \in Warps, Pong!Complete(w)
  PROVE  MatrixInv' /\ TmemInv'
<1>1. /\ UNCHANGED <<barrier, tmem, mma, retired, owed, iteration>> /\ pc[w] = "complete"
      /\ Pong!MmaComplete(iteration[w]) /\ pc' = [pc EXCEPT ![w] = "sync"]
  BY DEF Pong!Complete, Pong!buffers, Pong!matrix, Pong!Goes
<1>2. /\ KeepsRounds /\ Round(w) = iteration[w] /\ iteration[w] \in Nat /\ Round(w) <= Groups
  BY CompleteControl
<1>3. /\ mma \in Nat /\ retired \in Nat /\ Committed \in Nat
      /\ mma <= Committed + 1 /\ Committed <= mma
  BY InFlight
<1>4. Committed >= Upto(iteration[w]) /\ Leader \in Warps /\ Groups \in Nat
  BY <1>2, PongSizes DEF MatrixInv, MatrixRing, Awaited
<1>5. mma <= iteration[w] + 1
  <2>1. Round(Leader) = iteration[w] /\ mma = PongIssued(Leader)
    BY <1>2, <1>4 DEF ControlInv
  <2> QED BY <2>1, <1>2, <1>4 DEF PongIssued, Upto
<1>6. Committed >= Upto(iteration[w] + 1)
  <2>1. CASE iteration[w] < Groups
    <3> SUFFICES ASSUME NEW i, i = iteration[w], NEW h, h = i % 2
                 PROVE  Committed = i + 1
      BY <1>2, <1>4, <2>1 DEF Upto
    <3>1. Committed \in {i, i + 1} /\ i \in Nat /\ h \in Pong!Halves
      BY <1>2, <1>3, <1>4, <1>5, <2>1 DEF Upto, Pong!Halves
    <3>2. Pong!Passes(barrier[h], (i \div 2) % 2)
      BY <1>1, <2>1 DEF Pong!MmaComplete
    <3>3. barrier[h].done = (Committed + 1 - h) \div 2
      BY <3>1 DEF MatrixInv, MatrixRing, Awaited, Pong!Barrier
    <3>4. (i + 1 - h) \div 2 = i \div 2
      BY <3>1
    <3> QED BY <3>1, <3>2, <3>3, <3>4 DEF Pong!Passes
  <2>2. CASE ~(iteration[w] < Groups)
    BY <2>2, <1>2, <1>4 DEF Upto
  <2> QED BY <2>1, <2>2
<1>7. Committed' = Committed
  BY <1>1 DEF Committed
<1>8. \A v \in Warps : Awaited(v)'
  <2>1. \A v \in Warps : Round(v)' = Round(v) /\ pc'[v] = IF v = w THEN "sync" ELSE pc[v]
    BY <1>1, <1>2 DEF KeepsRounds, ControlInv
  <2> QED BY <2>1, <1>2, <1>6, <1>7 DEF MatrixInv, MatrixRing, Awaited
<1>9. MatrixInv'
  BY <1>1, <1>7, <1>8 DEF MatrixInv, MatrixRing, Awaited
<1> QED BY <1>1, <1>9, TmemKept

LEMMA SyncMatrix ==
  ASSUME Pong!ShapeAssumption, ControlInv, MatrixInv, TmemInv, Pong!Syncthreads
  PROVE  MatrixInv' /\ TmemInv'
<1>1. UNCHANGED <<barrier, tmem, mma, retired, owed>>
  BY DEF Pong!Syncthreads, Pong!buffers, Pong!matrix
<1>2. Committed' = Committed
  BY <1>1 DEF Committed
<1>3. \A v \in Warps : Awaited(v)'
  <2>1. \A v \in Warps : /\ pc[v] = "sync" /\ pc'[v] \in {"multiply", "write"}
                          /\ Round(v)' = Round(v) + 1
    BY SyncControl
  <2> QED BY <2>1, <1>2 DEF MatrixInv, MatrixRing, Awaited
<1>4. MatrixInv'
  BY <1>1, <1>2, <1>3 DEF MatrixInv, MatrixRing, Awaited
<1> QED BY <1>1, <1>4, TmemKept

-----------------------------------------------------------------------------
(* The operand stages.                                                     *)

LEMMA PongOperandInit ==
  ASSUME Pong!ShapeAssumption, Pong!Init
  PROVE  PongOperandInv
<1>1. Loaded(Leader) = 0
  BY PongSizes DEF Pong!Init, Loaded
<1>2. PongOperandTypes
  BY DEF Pong!Init, PongOperandTypes, Pong!Garbage
<1>3. Window(0)
  BY DEF Pong!Init, Window, Fresh
<1> QED BY <1>1, <1>2, <1>3 DEF PongOperandInv

\* Where the leader's loads and the MMAs are.
LEMMA LeaderAt ==
  ASSUME Pong!ShapeAssumption, ControlInv
  PROVE  /\ Loaded(Leader) \in Nat /\ mma \in Nat
         /\ mma <= Loaded(Leader) /\ Loaded(Leader) <= Groups
         /\ Loaded(Leader) <= mma + P
         /\ mma < Groups /\ pc[Leader] = "multiply" => mma < Loaded(Leader)
         /\ ~NoneLate => mma = Groups /\ Loaded(Leader) = Groups
<1>1. Leader \in Warps /\ P \in Nat /\ Groups \in Nat /\ P >= 2 /\ Groups >= 1
  BY PongSizes
<1>2. /\ iteration[Leader] \in Nat /\ mma = PongIssued(Leader) /\ WarpInv(Leader)
      /\ pc[Leader] \in Steps
  BY <1>1 DEF ControlInv
<1>3. /\ Loaded(Leader) \in Nat /\ mma \in Nat
      /\ mma <= Loaded(Leader) /\ Loaded(Leader) <= Groups
      /\ Loaded(Leader) <= mma + P
      /\ mma < Groups /\ pc[Leader] = "multiply" => mma < Loaded(Leader)
  BY <1>1, <1>2 DEF WarpInv, PongIssued, Loaded, Round, Upto, Late, LateSteps
<1>4. ASSUME ~NoneLate PROVE mma = Groups /\ Loaded(Leader) = Groups
  <2>1. PICK w \in Warps : Late(w)
    BY <1>4 DEF NoneLate
  <2>2. Round(w) = Groups + 1 /\ Round(w) = Round(Leader)
    BY <2>1 DEF ControlInv, WarpInv
  <2>3. Late(Leader)
    BY <2>2, <1>2 DEF WarpInv
  <2> QED BY <2>2, <2>3, <1>1, <1>2 DEF PongIssued, Loaded, Round, Upto, Late, LateSteps
<1> QED BY <1>3, <1>4

LEMMA OperandKept ==
  ASSUME PongOperandInv, UNCHANGED <<tma, operand, mma>>, Loaded(Leader)' = Loaded(Leader),
         NoneLate' => NoneLate
  PROVE  PongOperandInv'
<1>1. PongOperandTypes'
  BY DEF PongOperandInv, PongOperandTypes
<1>2. Window(Loaded(Leader))'
  BY DEF PongOperandInv, Window, Fresh, StageOf
<1> QED BY <1>1, <1>2 DEF PongOperandInv

LEMMA StagePlace ==
  ASSUME Pong!ShapeAssumption, NEW g \in Nat
  PROVE  /\ g % P \in Pong!Stages /\ g \div P \in Nat
         /\ g < P => g % P = g /\ g \div P = 0
         /\ g >= P => g - P \in Nat /\ (g - P) % P = g % P /\ ((g - P) \div P) + 1 = g \div P
         /\ \A h \in Nat : g < h + P /\ h < g + P /\ g % P = h % P => g = h
BY PongSizes, Places, Apart DEF Pong!Stages

\* The next group's operands are copied to the stage of the group P before,
\* whose MMA was issued, so that its own copy has landed.
LEMMA LoadOperand ==
  ASSUME Pong!ShapeAssumption, ControlInv, PongOperandInv, NEW top, top = Loaded(Leader), NEW k, k = top % P,
         top < Groups, top >= mma, top < mma + P,
         tma' = [tma EXCEPT ![k] = Pong!ArriveExpectTx(@, 1)],
         operand' = [operand EXCEPT ![k] = [group |-> top, landed |-> FALSE]],
         mma' = mma, NoneLate' => NoneLate, Loaded(Leader)' = top + 1
  PROVE  PongOperandInv'
<1>1. top \in Nat /\ mma \in Nat /\ P \in Nat /\ P >= 2 /\ Groups \in Nat
  BY LeaderAt, PongSizes
<1>2. k \in Pong!Stages /\ top \div P \in Nat
  BY <1>1, StagePlace
<1>3. tma[k] = Pong!Barrier(1, 1, 0, top \div P)
  <2>1. CASE top < P
    <3>1. k = top /\ top \div P = 0
      BY <2>1, <1>1, StagePlace
    <3>2. Fresh(k)
      BY <3>1, <1>1, <1>2 DEF PongOperandInv, Window
    <3> QED BY <3>1, <3>2 DEF Fresh, Pong!NewBarrier
  <2>2. CASE top >= P
    <3>1. PICK g : g = top - P
      OBVIOUS
    <3>2. g \in Nat /\ g % P = k /\ (g \div P) + 1 = top \div P
      BY <2>2, <3>1, <1>1, StagePlace
    <3>3. g < top /\ g + P >= top /\ g < mma
      BY <3>1, <1>1
    <3>4. StageOf(g)
      BY <3>2, <3>3 DEF PongOperandInv, Window
    <3> QED BY <3>2, <3>3, <3>4 DEF StageOf
  <2> QED BY <2>1, <2>2, <1>1
<1>4. tma' = [tma EXCEPT ![k] = Pong!Barrier(1, 0, 1, top \div P)]
  <2>1. Pong!ArriveExpectTx(tma[k], 1) = Pong!Barrier(1, 0, 1, top \div P)
    BY <1>2, <1>3 DEF Pong!ArriveExpectTx, Pong!Settle, Pong!Barrier
  <2> QED BY <2>1
<1>5. PongOperandTypes'
  BY <1>1, <1>2 DEF PongOperandInv, PongOperandTypes
<1>6. /\ DOMAIN tma = Pong!Stages /\ DOMAIN operand = Pong!Stages
      /\ tma'[k] = Pong!Barrier(1, 0, 1, top \div P)
      /\ operand'[k] = [group |-> top, landed |-> FALSE]
      /\ \A i \in Pong!Stages \ {k} : tma'[i] = tma[i] /\ operand'[i] = operand[i]
  BY <1>2, <1>4 DEF PongOperandInv, PongOperandTypes
<1>7. \A i \in Pong!Stages : i >= top + 1 => Fresh(i)'
  <2> SUFFICES ASSUME NEW i \in Pong!Stages, i >= top + 1 PROVE Fresh(i)'
    OBVIOUS
  <2>1. i # k
    BY <1>1, StagePlace DEF Pong!Stages
  <2>2. Fresh(i)
    BY <1>1 DEF PongOperandInv, Window, Pong!Stages
  <2> QED BY <2>1, <2>2, <1>6 DEF Fresh
<1>8. \A g \in Nat : g < top + 1 /\ g + P >= top + 1 => StageOf(g)'
  <2> SUFFICES ASSUME NEW g \in Nat, g < top + 1, g + P >= top + 1 PROVE StageOf(g)'
    OBVIOUS
  <2>1. CASE g = top
    BY <2>1, <1>1, <1>6 DEF StageOf
  <2>2. CASE g # top
    <3>1. g < top /\ g + P >= top /\ g < top + P /\ top < g + P
      BY <2>2, <1>1
    <3>2. g % P # k /\ g % P \in Pong!Stages
      BY <2>2, <3>1, <1>1, StagePlace
    <3>3. StageOf(g)
      BY <3>1 DEF PongOperandInv, Window
    <3> QED BY <3>2, <3>3, <1>6 DEF StageOf
  <2> QED BY <2>1, <2>2
<1>9. Window(top + 1)'
  BY <1>7, <1>8 DEF Window
<1>10. Window(Loaded(Leader))'
  BY <1>7, <1>8 DEF Window
<1> QED BY <1>5, <1>10 DEF PongOperandInv

LEMMA PrologueOperand ==
  ASSUME Pong!ShapeAssumption, ControlInv, PongOperandInv, NEW w \in Warps, Pong!Prologue(w)
  PROVE  PongOperandInv'
<1>1. mma' = mma /\ pc[w] = "prologue" /\ iteration[w] \in Nat /\ Leader \in Warps /\ P \in Nat
  BY PongSizes DEF Pong!Prologue, Pong!matrix, ControlInv
<1>2. NoneLate' => NoneLate
  BY <1>1 DEF Pong!Prologue, Pong!Goes, ControlInv, NoneLate, Late, LateSteps
<1>3. CASE w = Leader /\ iteration[w] < P - 1 /\ iteration[w] < Groups
  <2>1. /\ Loaded(Leader) = iteration[w] /\ Loaded(Leader)' = Loaded(Leader) + 1
    BY <1>1, <1>3, PrologueControl DEF Loaded
  <2>2. /\ tma' = [tma EXCEPT ![iteration[w] % P] = Pong!ArriveExpectTx(@, 1)]
        /\ operand' = [operand EXCEPT ![iteration[w] % P] = [group |-> iteration[w], landed |-> FALSE]]
    BY <1>3 DEF Pong!Prologue, Pong!Load
  <2>3. mma = 0
    BY <1>1, <1>3 DEF ControlInv, PongIssued, Round
  <2>4. Loaded(Leader) < Groups /\ Loaded(Leader) >= mma /\ Loaded(Leader) < mma + P
    BY <2>1, <2>3, <1>1, <1>3
  <2> QED BY <2>1, <2>2, <2>4, <1>1, <1>2, LoadOperand
<1>4. CASE ~(w = Leader /\ iteration[w] < P - 1 /\ iteration[w] < Groups)
  <2>1. UNCHANGED <<tma, operand>>
    BY <1>4 DEF Pong!Prologue, Pong!Load
  <2>2. Loaded(Leader)' = Loaded(Leader)
    BY <1>1, <1>4, PrologueControl DEF Loaded
  <2> QED BY <2>1, <2>2, <1>1, <1>2, OperandKept
<1> QED BY <1>3, <1>4

LEMMA PrefetchOperand ==
  ASSUME Pong!ShapeAssumption, ControlInv, PongOperandInv, NEW w \in Warps, Pong!Prefetch(w)
  PROVE  PongOperandInv'
<1>1. mma' = mma /\ iteration[w] \in Nat /\ Leader \in Warps /\ P \in Nat /\ P >= 2
  BY PongSizes DEF Pong!Prefetch, Pong!matrix, ControlInv
<1>2. NoneLate' => NoneLate
  <2>1. pc' = [pc EXCEPT ![w] = "promote"] /\ pc[w] = "prefetch"
    BY DEF Pong!Prefetch, Pong!Goes
  <2> QED BY <2>1 DEF ControlInv, NoneLate, Late, LateSteps
<1>3. CASE w = Leader /\ iteration[w] + P - 1 < Groups
  <2>1. /\ Loaded(Leader) = iteration[w] + P - 1 /\ Loaded(Leader)' = Loaded(Leader) + 1
        /\ mma = iteration[w] + 1
    BY <1>1, <1>3, PrefetchControl DEF Loaded
  <2>2. iteration[w] + Pong!Ahead = Loaded(Leader)
    BY <2>1, <1>1 DEF Pong!Ahead
  <2>3. Pong!Load(w, Loaded(Leader))
    BY <2>1, <2>2, <1>3 DEF Pong!Prefetch
  <2>4. Loaded(Leader) < Groups /\ Loaded(Leader) >= mma /\ Loaded(Leader) < mma + P
    BY <2>1, <1>1, <1>3
  <2> QED BY <2>1, <2>3, <2>4, <1>1, <1>2, <1>3, LoadOperand DEF Pong!Load
<1>4. CASE ~(w = Leader /\ iteration[w] + P - 1 < Groups)
  <2>1. UNCHANGED <<tma, operand>>
    BY <1>1, <1>4 DEF Pong!Prefetch, Pong!Load, Pong!Ahead
  <2>2. Loaded(Leader)' = Loaded(Leader)
    BY <1>1, <1>4, PrefetchControl DEF Loaded
  <2> QED BY <2>1, <2>2, <1>1, <1>2, OperandKept
<1> QED BY <1>3, <1>4

\* The leader issues an MMA once the copy of its operands has landed.
LEMMA MultiplyOperand ==
  ASSUME Pong!ShapeAssumption, ControlInv, PongOperandInv, NEW w \in Warps, Pong!Multiply(w)
  PROVE  PongOperandInv'
<1>1. /\ UNCHANGED <<tma, operand>> /\ Leader \in Warps /\ P \in Nat /\ P >= 2 /\ Groups \in Nat
  BY PongSizes DEF Pong!Multiply
<1>2. (NoneLate' => NoneLate) /\ Loaded(Leader)' = Loaded(Leader)
  BY <1>1, MultiplyControl DEF NoneLate, Late, KeepsRounds, Loaded
<1>3. CASE w # Leader
  BY <1>1, <1>2, <1>3, OperandKept DEF Pong!Multiply
<1>4. CASE w = Leader
  <2>1. /\ mma \in Nat /\ mma < Groups /\ mma' = mma + 1
        /\ Pong!Passes(tma[mma % P], (mma \div P) % 2) /\ pc[Leader] = "multiply"
    BY <1>4, MultiplyControl DEF Pong!Multiply, Pong!LandedParity
  <2>2. mma < Loaded(Leader) /\ mma + P >= Loaded(Leader) /\ Loaded(Leader) \in Nat
    BY <2>1, LeaderAt
  <2>3. StageOf(mma)
    BY <2>1, <2>2 DEF PongOperandInv, Window
  <2>4. operand[mma % P].landed
    <3>1. mma % P \in Pong!Stages /\ mma \div P \in Nat
      BY <2>1, StagePlace
    <3> SUFFICES ASSUME ~operand[mma % P].landed PROVE FALSE
      OBVIOUS
    <3>2. tma[mma % P].done = mma \div P
      BY <2>3 DEF StageOf, Pong!Barrier
    <3> QED BY <2>1, <3>1, <3>2 DEF Pong!Passes
  <2>5. PongOperandTypes'
    BY <1>1 DEF PongOperandInv, PongOperandTypes
  <2>6. \A k \in Pong!Stages : k >= Loaded(Leader) => Fresh(k)'
    BY <1>1 DEF PongOperandInv, Window, Fresh
  <2>7. \A g \in Nat : g < Loaded(Leader) /\ g + P >= Loaded(Leader) => StageOf(g)'
    <3> SUFFICES ASSUME NEW g \in Nat, g < Loaded(Leader), g + P >= Loaded(Leader)
                 PROVE  StageOf(g)'
      OBVIOUS
    <3>1. StageOf(g)
      BY DEF PongOperandInv, Window
    <3>2. g < mma + 1 => g < mma \/ g = mma
      BY <2>1
    <3> QED BY <3>1, <3>2, <2>1, <2>4, <1>1, <1>2 DEF StageOf
  <2>8. Window(Loaded(Leader))'
    BY <2>6, <2>7, <1>2 DEF Window
  <2> QED BY <2>5, <2>8 DEF PongOperandInv
<1> QED BY <1>3, <1>4

LEMMA LandOperand ==
  ASSUME Pong!ShapeAssumption, ControlInv, PongOperandInv, NEW k \in Pong!Stages, Pong!TmaLand(k)
  PROVE  PongOperandInv'
<1>1. /\ ~operand[k].landed /\ UNCHANGED <<pc, iteration, mma>>
      /\ operand' = [operand EXCEPT ![k].landed = TRUE]
      /\ tma' = [tma EXCEPT ![k] = Pong!CompleteTx(@, 1)]
  BY DEF Pong!TmaLand, Pong!matrix
<1>2. /\ PongOperandTypes' /\ DOMAIN tma = Pong!Stages
      /\ operand'[k].landed /\ operand'[k].group = operand[k].group
      /\ tma'[k] = Pong!CompleteTx(tma[k], 1)
      /\ \A i \in Pong!Stages \ {k} : tma'[i] = tma[i] /\ operand'[i] = operand[i]
  BY <1>1 DEF PongOperandInv, PongOperandTypes
<1>3. Loaded(Leader)' = Loaded(Leader) /\ (NoneLate' <=> NoneLate)
  BY <1>1 DEF Loaded, NoneLate, Late
<1>4. \A i \in Pong!Stages : i >= Loaded(Leader) => Fresh(i)'
  <2> SUFFICES ASSUME NEW i \in Pong!Stages, i >= Loaded(Leader) PROVE Fresh(i)'
    OBVIOUS
  <2>1. Fresh(i)
    BY DEF PongOperandInv, Window
  <2>2. i # k
    BY <2>1, <1>1 DEF Fresh
  <2> QED BY <2>1, <2>2, <1>2 DEF Fresh
<1>5. \A g \in Nat : g < Loaded(Leader) /\ g + P >= Loaded(Leader) => StageOf(g)'
  <2> SUFFICES ASSUME NEW g \in Nat, g < Loaded(Leader), g + P >= Loaded(Leader)
               PROVE  StageOf(g)'
    OBVIOUS
  <2>1. StageOf(g) /\ g % P \in Pong!Stages /\ g \div P \in Nat
    BY StagePlace DEF PongOperandInv, Window
  <2>2. CASE g % P # k
    BY <2>1, <2>2, <1>1, <1>2, <1>3 DEF StageOf
  <2>3. CASE g % P = k
    <3>1. tma[k] = Pong!Barrier(1, 0, 1, g \div P)
      BY <2>1, <2>3, <1>1 DEF StageOf
    <3>2. Pong!CompleteTx(tma[k], 1) = Pong!Barrier(1, 1, 0, (g \div P) + 1)
      BY <3>1, <2>1 DEF Pong!CompleteTx, Pong!Settle, Pong!Barrier
    <3> QED BY <2>1, <2>3, <3>2, <1>1, <1>2, <1>3 DEF StageOf
  <2> QED BY <2>2, <2>3
<1>6. Window(Loaded(Leader))'
  BY <1>3, <1>4, <1>5 DEF Window
<1> QED BY <1>2, <1>6 DEF PongOperandInv

\* The rows staged over the operands: nothing is left of them to protect.
LEMMA ExchangeOperand ==
  ASSUME Pong!ShapeAssumption, ControlInv, PongOperandInv, NEW w \in Warps, Pong!WriteExchange(w)
  PROVE  PongOperandInv'
<1>1. /\ UNCHANGED <<tma, mma, iteration>> /\ Leader \in Warps
      /\ operand' = [k \in Pong!Stages |-> [operand[k] EXCEPT !.group = Pong!Staged]]
  BY PongSizes DEF Pong!WriteExchange, Pong!matrix
<1>2. Loaded(Leader)' = Loaded(Leader) /\ ~NoneLate'
  BY <1>1, LateControl DEF KeepsRounds, Loaded, NoneLate, Late
<1>3. PongOperandTypes' /\ \A k \in Pong!Stages : operand'[k].landed = operand[k].landed
  BY <1>1 DEF PongOperandInv, PongOperandTypes
<1>4. \A i \in Pong!Stages : i >= Loaded(Leader) => Fresh(i)'
  BY <1>1, <1>3 DEF PongOperandInv, Window, Fresh
<1>5. \A g \in Nat : g < Loaded(Leader) /\ g + P >= Loaded(Leader) => StageOf(g)'
  <2> SUFFICES ASSUME NEW g \in Nat, g < Loaded(Leader), g + P >= Loaded(Leader)
               PROVE  StageOf(g)'
    OBVIOUS
  <2>1. StageOf(g) /\ g % P \in Pong!Stages
    BY StagePlace DEF PongOperandInv, Window
  <2> QED BY <2>1, <1>1, <1>2, <1>3 DEF StageOf
<1>6. Window(Loaded(Leader))'
  BY <1>2, <1>4, <1>5 DEF Window
<1> QED BY <1>3, <1>6 DEF PongOperandInv

LEMMA SyncOperand ==
  ASSUME Pong!ShapeAssumption, ControlInv, PongOperandInv, Pong!Syncthreads
  PROVE  PongOperandInv'
<1>1. UNCHANGED <<tma, operand, mma>> /\ Leader \in Warps
  BY PongSizes DEF Pong!Syncthreads, Pong!buffers, Pong!matrix
<1>2. Loaded(Leader)' = Loaded(Leader) /\ NoneLate
  BY <1>1, SyncControl DEF NoneLate, Loaded
<1> QED BY <1>1, <1>2, OperandKept

\* An MMA in flight has the operands of its group, landed.
LEMMA OperandHeld ==
  ASSUME Pong!ShapeAssumption, ControlInv, MatrixInv, PongOperandInv
  PROVE  Pong!OperandStable
<1> SUFFICES ASSUME NEW g \in retired .. mma - 1
             PROVE  operand[g % P] = [group |-> g, landed |-> TRUE]
  BY DEF Pong!OperandStable
<1>1. /\ mma \in Nat /\ retired \in Nat /\ Committed \in Nat /\ Committed <= retired
      /\ mma <= Committed + 1 /\ Leader \in Warps /\ Groups \in Nat /\ P \in Nat /\ P >= 2
  BY InFlight, PongSizes
<1>2. g \in Nat /\ g = mma - 1 /\ Committed < mma
  BY <1>1
<1>3. NoneLate
  <2> SUFFICES ASSUME ~NoneLate PROVE FALSE
    OBVIOUS
  <2>1. PICK w \in Warps : Late(w)
    BY DEF NoneLate
  <2>2. Round(w) = Groups + 1 /\ mma = Groups
    BY <2>1, LeaderAt DEF ControlInv, WarpInv
  <2>3. Upto(Round(w)) = Groups /\ Committed >= Upto(Round(w))
    BY <2>2, <1>1 DEF Upto, MatrixInv, Awaited
  <2> QED BY <2>2, <2>3, <1>1, <1>2
<1>4. g < Loaded(Leader) /\ g + P >= Loaded(Leader)
  <2>1. iteration[Leader] \in Nat /\ mma = PongIssued(Leader) /\ WarpInv(Leader) /\ Committed >= Upto(Round(Leader))
    BY <1>1 DEF ControlInv, MatrixInv, Awaited
  <2> QED BY <2>1, <1>1, <1>2 DEF WarpInv, PongIssued, Loaded, Round, Upto, Late, LateSteps
<1>5. StageOf(g)
  BY <1>2, <1>4 DEF PongOperandInv, Window
<1>6. operand[g % P].landed /\ operand[g % P].group = g
  BY <1>1, <1>2, <1>3, <1>5 DEF StageOf
<1>7. operand[g % P] \in [group : {Pong!Staged, Pong!Garbage} \cup 0 .. Groups - 1, landed : BOOLEAN]
  BY <1>2, StagePlace DEF PongOperandInv, PongOperandTypes
<1> QED BY <1>6, <1>7

-----------------------------------------------------------------------------
(* The scale ring.                                                         *)

LEMMA PongScaleInit ==
  ASSUME Pong!ShapeAssumption, Pong!Init
  PROVE  PongScaleInv
<1>1. \A w \in Warps : Loaded(w) = 0
  BY DEF Pong!Init, Loaded
<1>2. \A w \in Warps : Share(w, 0)
  BY PongSizes DEF Share
<1> QED BY <1>1, <1>2 DEF Pong!Init, PongScaleInv, Pong!Garbage

LEMMA ScaleKept ==
  ASSUME PongScaleInv, UNCHANGED scale, \A w \in Warps : Loaded(w)' = Loaded(w)
  PROVE  PongScaleInv'
<1> SUFFICES ASSUME NEW w \in Warps PROVE Share(w, Loaded(w))'
  BY DEF PongScaleInv
<1>1. PICK top : top = Loaded(w)
  OBVIOUS
<1>2. Loaded(w)' = top
  BY <1>1
<1>3. Share(w, top)
  BY <1>1 DEF PongScaleInv
<1> QED BY <1>2, <1>3 DEF Share

\* The scales of the next group go to a slot this warp has read for the last
\* time one round ago, together with every other warp.
LEMMA LoadScale ==
  ASSUME Pong!ShapeAssumption, ControlInv, PongScaleInv, NEW w \in Warps, NEW top \in Nat,
         top = Loaded(w), scale' = [scale EXCEPT ![top % Pong!ScaleRing][w] = top],
         \A v \in Warps : Loaded(v)' = IF v = w THEN Loaded(w) + 1 ELSE Loaded(v)
  PROVE  PongScaleInv'
<1>1. Pong!ScaleRing \in Nat \ {0} /\ Pong!ScaleSlots = 0 .. Pong!ScaleRing - 1
  BY PongSizes DEF Pong!ScaleSlots
<1>2. PICK k : k = top % Pong!ScaleRing
  OBVIOUS
<1>3. k \in Pong!ScaleSlots
  BY <1>1, <1>2, Places
<1>4. /\ scale' \in [Pong!ScaleSlots -> [Warps -> Int]]
      /\ scale'[k][w] = top
      /\ \A i \in Pong!ScaleSlots, v \in Warps : i # k \/ v # w => scale'[i][v] = scale[i][v]
  BY <1>2, <1>3 DEF PongScaleInv
<1>5. ASSUME NEW v \in Warps PROVE Share(v, Loaded(v))'
  <2>1. CASE v # w
    <3>1. PICK x : x = Loaded(v)
      OBVIOUS
    <3>2. Loaded(v)' = x /\ Share(v, x)
      BY <2>1, <3>1 DEF PongScaleInv
    <3>3. \A g \in Nat : scale'[g % Pong!ScaleRing][v] = scale[g % Pong!ScaleRing][v]
      BY <2>1, <1>1, <1>4, Places
    <3> QED BY <3>2, <3>3 DEF Share
  <2>2. CASE v = w
    <3>1. Loaded(v)' = top + 1 /\ Share(w, top)
      BY <2>2 DEF PongScaleInv
    <3>2. ASSUME NEW g \in Nat, g < top + 1, g + Pong!ScaleRing >= top + 1
          PROVE  scale'[g % Pong!ScaleRing][w] = g
      <4>1. CASE g = top
        BY <4>1, <1>2, <1>4
      <4>2. CASE g # top
        <5>1. g < top /\ g + Pong!ScaleRing >= top /\ g < top + Pong!ScaleRing /\ top < g + Pong!ScaleRing
          BY <3>2, <4>2, <1>1
        <5>2. g % Pong!ScaleRing # k /\ g % Pong!ScaleRing \in Pong!ScaleSlots
          BY <4>2, <5>1, <1>1, <1>2, Apart, Places
        <5>3. scale[g % Pong!ScaleRing][w] = g
          BY <5>1, <3>1 DEF Share
        <5> QED BY <5>2, <5>3, <1>4
      <4> QED BY <4>1, <4>2
    <3> QED BY <3>1, <3>2, <2>2 DEF Share
  <2> QED BY <2>1, <2>2
<1> QED BY <1>4, <1>5 DEF PongScaleInv

LEMMA PrologueScale ==
  ASSUME Pong!ShapeAssumption, ControlInv, PongScaleInv, NEW w \in Warps, Pong!Prologue(w)
  PROVE  PongScaleInv'
<1>1. pc[w] = "prologue" /\ iteration[w] \in Nat
  BY DEF Pong!Prologue, ControlInv
<1>2. CASE iteration[w] < P - 1 /\ iteration[w] < Groups
  <2>1. /\ Loaded(w) = iteration[w]
        /\ \A v \in Warps : Loaded(v)' = IF v = w THEN Loaded(w) + 1 ELSE Loaded(v)
    BY <1>2, PrologueControl
  <2>2. scale' = [scale EXCEPT ![iteration[w] % Pong!ScaleRing][w] = iteration[w]]
    BY <1>2 DEF Pong!Prologue, Pong!Load
  <2> QED BY <2>1, <2>2, <1>1, LoadScale
<1>3. CASE ~(iteration[w] < P - 1 /\ iteration[w] < Groups)
  <2>1. \A v \in Warps : Loaded(v)' = Loaded(v)
    BY <1>3, PrologueControl
  <2>2. UNCHANGED scale
    BY <1>3 DEF Pong!Prologue
  <2> QED BY <2>1, <2>2, ScaleKept
<1> QED BY <1>2, <1>3

LEMMA PrefetchScale ==
  ASSUME Pong!ShapeAssumption, ControlInv, PongScaleInv, NEW w \in Warps, Pong!Prefetch(w)
  PROVE  PongScaleInv'
<1>1. iteration[w] \in Nat /\ P \in Nat /\ P >= 2 /\ iteration[w] + Pong!Ahead = iteration[w] + P - 1
  BY PongSizes DEF ControlInv, Pong!Ahead
<1>2. CASE iteration[w] + P - 1 < Groups
  <2>1. /\ Loaded(w) = iteration[w] + P - 1
        /\ \A v \in Warps : Loaded(v)' = IF v = w THEN Loaded(w) + 1 ELSE Loaded(v)
    BY <1>2, PrefetchControl
  <2>2. Pong!Load(w, Loaded(w)) /\ Loaded(w) \in Nat
    BY <1>1, <1>2, <2>1 DEF Pong!Prefetch
  <2> QED BY <2>1, <2>2, LoadScale DEF Pong!Load
<1>3. CASE ~(iteration[w] + P - 1 < Groups)
  <2>1. \A v \in Warps : Loaded(v)' = Loaded(v)
    BY <1>3, PrefetchControl
  <2>2. UNCHANGED scale
    BY <1>1, <1>3 DEF Pong!Prefetch
  <2> QED BY <2>1, <2>2, ScaleKept
<1> QED BY <1>2, <1>3

\* While a warp promotes a group, the tensor core is at most one group on and
\* every warp's loads at most P.
LEMMA PromotionHeld ==
  ASSUME Pong!ShapeAssumption, ControlInv, MatrixInv, TmemInv, PongScaleInv
  PROVE  Pong!PromotionStable
<1> SUFFICES ASSUME NEW w \in Warps, Pong!Reads(w)
             PROVE  /\ tmem[Pong!Last(w) % 2] = Pong!Last(w)
                    /\ scale[Pong!Last(w) % Pong!ScaleRing] = [v \in Warps |-> Pong!Last(w)]
  BY DEF Pong!PromotionStable
<1>1. /\ Leader \in Warps /\ Groups \in Nat /\ P \in Nat /\ P >= 2
      /\ Pong!ScaleRing \in Nat \ {0} /\ Pong!ScaleRing = P + 1
  BY PongSizes
<1>2. PICK g : g = Pong!Last(w)
  OBVIOUS
<1>3. /\ iteration[w] \in Nat /\ iteration[w] > 0 /\ iteration[w] <= Groups /\ g = iteration[w] - 1
      /\ Round(w) = iteration[w] /\ g \in Nat
  BY <1>1, <1>2 DEF Pong!Reads, Pong!Last, ControlInv, WarpInv, Round, Late, LateSteps
<1>4. \A v \in Warps : /\ iteration[v] = g + 1 /\ pc[v] # "prologue" /\ ~Late(v)
                        /\ iteration[v] \in Nat /\ pc[v] \in Steps
  <2> SUFFICES ASSUME NEW v \in Warps
               PROVE  /\ iteration[v] = g + 1 /\ pc[v] # "prologue" /\ ~Late(v)
                      /\ iteration[v] \in Nat /\ pc[v] \in Steps
    OBVIOUS
  <2>1. Round(v) = Round(w)
    BY DEF ControlInv
  <2> QED BY <2>1, <1>1, <1>3 DEF ControlInv, WarpInv, Round
<1>5. tmem[g % 2] = g
  <2>1. g < retired /\ g + 2 >= mma
    <3>1. Committed >= g + 1
      BY <1>1, <1>3 DEF MatrixInv, Awaited, Upto
    <3>2. Committed <= retired /\ retired \in Nat /\ Committed \in Nat /\ mma \in Nat
      BY InFlight
    <3>3. mma <= g + 2
      BY <1>1, <1>3, <1>4 DEF ControlInv, PongIssued, Round, Upto
    <3> QED BY <3>1, <3>2, <3>3, <1>3
  <2> QED BY <2>1, <1>3 DEF TmemInv
<1>6. \A v \in Warps : scale[g % Pong!ScaleRing][v] = g
  <2> SUFFICES ASSUME NEW v \in Warps PROVE scale[g % Pong!ScaleRing][v] = g
    OBVIOUS
  <2>1. g < Loaded(v) /\ g + Pong!ScaleRing >= Loaded(v)
    BY <1>1, <1>3, <1>4 DEF Loaded, Upto
  <2> QED BY <2>1, <1>3 DEF PongScaleInv, Share
<1>7. g % Pong!ScaleRing \in Pong!ScaleSlots
  BY <1>1, <1>3, Places DEF Pong!ScaleSlots
<1>8. scale[g % Pong!ScaleRing] = [v \in Warps |-> g]
  <2>1. scale[g % Pong!ScaleRing] \in [Warps -> Int]
    BY <1>7 DEF PongScaleInv
  <2> QED BY <2>1, <1>6
<1> QED BY <1>2, <1>5, <1>8

-----------------------------------------------------------------------------
(* The sums and the epilogue.                                              *)

LEMMA SumInit ==
  ASSUME Pong!ShapeAssumption, Pong!Init
  PROVE  PongSumInv
<1>1. PongFirstGroups(0) = <<>>
  BY DEF PongFirstGroups
<1>2. \A w \in Warps : Summed(w) = 0
  BY DEF Pong!Init, Summed, Round
<1> QED BY <1>1, <1>2 DEF Pong!Init, PongSumInv, SumOf

LEMMA SumKept ==
  ASSUME PongSumInv, UNCHANGED <<total, exchange, output>>,
         \A w \in Warps : /\ Summed(w)' = Summed(w)
                          /\ pc'[w] \in {"written", "stored", "done"} =>
                               pc[w] \in {"written", "stored", "done"}
  PROVE  PongSumInv'
<1> SUFFICES ASSUME NEW w \in Warps PROVE SumOf(w)'
  BY DEF PongSumInv
<1>1. PICK n : n = Summed(w)
  OBVIOUS
<1>2. Summed(w)' = n /\ total[w] = PongFirstGroups(n)
  BY <1>1 DEF PongSumInv, SumOf
<1> QED BY <1>2 DEF PongSumInv, SumOf

LEMMA PongNextGroup ==
  ASSUME NEW n \in Nat
  PROVE  Append(PongFirstGroups(n), n) = PongFirstGroups(n + 1)
<1>1. PongFirstGroups(n) \in Seq(Nat) /\ Len(PongFirstGroups(n)) = n
  BY DEF PongFirstGroups
<1> QED BY <1>1 DEF PongFirstGroups

LEMMA PromoteSum ==
  ASSUME Pong!ShapeAssumption, ControlInv, MatrixInv, TmemInv, PongScaleInv, PongSumInv,
         NEW w \in Warps, Pong!Promote(w)
  PROVE  PongSumInv'
<1>1. /\ Round(w) = iteration[w] /\ iteration[w] \in Nat /\ Round(w) > 0
      /\ Summed(w) = Round(w) - 1 /\ Summed(w)' = Round(w)
      /\ \A v \in Warps \ {w} : Summed(v)' = Summed(v)
  BY PromoteControl
<1>2. PICK n : n = Pong!Last(w)
  OBVIOUS
<1>3. n \in Nat /\ Round(w) = n + 1 /\ Summed(w) = n /\ Summed(w)' = n + 1
  BY <1>1, <1>2 DEF Pong!Last
<1>4. Pong!Promoted(n) = n
  <2>1. tmem[n % 2] = n /\ scale[n % Pong!ScaleRing] = [v \in Warps |-> n]
    BY <1>2, PromotionHeld DEF Pong!PromotionStable, Pong!Promote
  <2> QED BY <2>1 DEF Pong!Promoted
<1>5. /\ total' = [total EXCEPT ![w] = Append(@, n)] /\ UNCHANGED <<exchange, output>>
      /\ pc' = [pc EXCEPT ![w] = "complete"]
  BY <1>2, <1>4 DEF Pong!Promote, Pong!Goes, Pong!epilogue
<1>6. total'[w] = PongFirstGroups(n + 1)
  BY <1>3, <1>5, PongNextGroup DEF PongSumInv, SumOf
<1>7. ASSUME NEW v \in Warps PROVE SumOf(v)'
  <2>1. pc'[v] = IF v = w THEN "complete" ELSE pc[v]
    BY <1>5 DEF ControlInv
  <2>2. CASE v = w
    BY <2>1, <2>2, <1>3, <1>5, <1>6 DEF PongSumInv, SumOf
  <2>3. CASE v # w
    <3>1. PICK x : x = Summed(v)
      OBVIOUS
    <3>2. Summed(v)' = x /\ total[v] = PongFirstGroups(x) /\ total'[v] = total[v]
      BY <3>1, <2>3, <1>1, <1>5 DEF PongSumInv, SumOf
    <3> QED BY <3>2, <2>1, <2>3, <1>5 DEF PongSumInv, SumOf
  <2> QED BY <2>2, <2>3
<1> QED BY <1>5, <1>7 DEF PongSumInv

\* In the epilogue every warp has summed every group.
LEMMA LateSum ==
  ASSUME Pong!ShapeAssumption, ControlInv, PongSumInv, NEW w \in Warps, Late(w)
  PROVE  \A v \in Warps : Late(v) /\ total[v] = Pong!InOrder
<1> SUFFICES ASSUME NEW v \in Warps PROVE Late(v) /\ total[v] = Pong!InOrder
  OBVIOUS
<1>1. Round(v) = Groups + 1 /\ Late(v) /\ Groups \in Nat
  BY PongSizes DEF ControlInv, WarpInv
<1>2. Summed(v) = Groups
  BY <1>1 DEF Summed, Late, LateSteps
<1> QED BY <1>1, <1>2 DEF PongSumInv, SumOf, PongFirstGroups, Pong!InOrder

LEMMA ExchangeSum ==
  ASSUME Pong!ShapeAssumption, ControlInv, PongSumInv, NEW w \in Warps, Pong!WriteExchange(w)
  PROVE  PongSumInv'
<1>1. /\ UNCHANGED <<total, output>> /\ exchange' = [exchange EXCEPT ![w] = total[w]]
      /\ pc' = [pc EXCEPT ![w] = "written"]
  BY DEF Pong!WriteExchange, Pong!Goes
<1>2. Late(w) /\ \A v \in Warps : Summed(v)' = Summed(v)
  BY LateControl
<1>3. total[w] = Pong!InOrder
  BY <1>2, LateSum
<1>4. ASSUME NEW v \in Warps PROVE SumOf(v)'
  <2>1. pc'[v] = IF v = w THEN "written" ELSE pc[v]
    BY <1>1 DEF ControlInv
  <2>2. exchange'[v] = IF v = w THEN Pong!InOrder ELSE exchange[v]
    BY <1>1, <1>3 DEF PongSumInv
  <2>3. PICK x : x = Summed(v)
    OBVIOUS
  <2>4. Summed(v)' = x /\ total[v] = PongFirstGroups(x)
    BY <2>3, <1>2 DEF PongSumInv, SumOf
  <2> QED BY <2>1, <2>2, <2>4, <1>1 DEF PongSumInv, SumOf
<1> QED BY <1>1, <1>4 DEF PongSumInv

\* A warp stores rows once every warp has staged its own.
LEMMA StoreSum ==
  ASSUME Pong!ShapeAssumption, ControlInv, PongSumInv, NEW w \in Warps, Pong!StoreRows(w)
  PROVE  PongSumInv'
<1>1. /\ pc[w] = "written" /\ Pong!EveryoneWritten /\ UNCHANGED <<total, exchange>>
      /\ output' = [output EXCEPT ![w] = {exchange[v] : v \in Warps}]
      /\ pc' = [pc EXCEPT ![w] = "stored"]
  BY DEF Pong!StoreRows, Pong!Goes
<1>2. Late(w) /\ \A v \in Warps : Summed(v)' = Summed(v)
  BY LateControl
<1>3. \A v \in Warps : exchange[v] = Pong!InOrder
  <2> SUFFICES ASSUME NEW v \in Warps PROVE exchange[v] = Pong!InOrder
    OBVIOUS
  <2>1. Late(v) /\ pc[v] # "write"
    BY <1>1, <1>2, LateSum DEF Pong!EveryoneWritten
  <2> QED BY <2>1 DEF Late, LateSteps, PongSumInv, SumOf
<1>4. {exchange[v] : v \in Warps} = {Pong!InOrder}
  BY <1>3
<1>5. ASSUME NEW v \in Warps PROVE SumOf(v)'
  <2>1. pc'[v] = IF v = w THEN "stored" ELSE pc[v]
    BY <1>1 DEF ControlInv
  <2>2. output'[v] = IF v = w THEN {Pong!InOrder} ELSE output[v]
    BY <1>1, <1>4 DEF PongSumInv
  <2>3. PICK x : x = Summed(v)
    OBVIOUS
  <2>4. Summed(v)' = x /\ total[v] = PongFirstGroups(x)
    BY <2>3, <1>2 DEF PongSumInv, SumOf
  <2> QED BY <2>1, <2>2, <2>4, <1>1 DEF PongSumInv, SumOf
<1> QED BY <1>1, <1>5 DEF PongSumInv

LEMMA ExchangeHeld ==
  ASSUME Pong!ShapeAssumption, PongBlockInv
  PROVE  Pong!ExchangeSound
<1> USE DEF PongBlockInv
<1>1. Pong!ExchangeAlone
  <2> SUFFICES ASSUME NEW w \in Warps, Late(w)
               PROVE  /\ retired = Groups /\ \A k \in Pong!Stages : operand[k].landed
                      /\ \A v \in Warps : total[v] = Pong!InOrder
    BY DEF Pong!ExchangeAlone, Late, LateSteps
  <2>1. ~NoneLate /\ mma = Groups /\ Loaded(Leader) = Groups /\ Groups \in Nat
    BY LeaderAt, PongSizes DEF NoneLate
  <2>2. retired = Groups
    <3>1. Round(w) = Groups + 1
      BY DEF ControlInv, WarpInv
    <3>2. Committed >= Groups
      BY <2>1, <3>1 DEF MatrixInv, Awaited, Upto
    <3> QED BY <2>1, <3>2, InFlight
  <2>3. ASSUME NEW k \in Pong!Stages PROVE operand[k].landed
    <3>1. CASE k >= Groups
      BY <2>1, <3>1 DEF PongOperandInv, Window, Fresh
    <3>2. CASE k < Groups
      <4>1. PICK g \in Nat : g < Groups /\ g + P >= Groups /\ g % P = k
        BY <2>1, <3>2, PongSizes, Latest DEF Pong!Stages
      <4>2. StageOf(g)
        BY <2>1, <4>1 DEF PongOperandInv, Window
      <4> QED BY <2>1, <4>1, <4>2 DEF StageOf
    <3> QED BY <2>1, <3>1, <3>2, PongSizes DEF Pong!Stages
  <2> QED BY <2>2, <2>3, LateSum
<1>2. Pong!StoresComplete
  BY DEF Pong!StoresComplete, PongSumInv, SumOf
<1> QED BY <1>1, <1>2 DEF Pong!ExchangeSound

-----------------------------------------------------------------------------
(* The block.                                                              *)

LEMMA PongBlockInit ==
  ASSUME Pong!ShapeAssumption, Pong!Init
  PROVE  PongBlockInv
BY ControlInit, MatrixInit, PongOperandInit, PongScaleInit, SumInit DEF PongBlockInv

\* A step that leaves the rings alone.
LEMMA RingsKept ==
  ASSUME Pong!ShapeAssumption, PongBlockInv, ControlInv', KeepsRounds, PongSumInv',
         UNCHANGED <<barrier, tmem, mma, retired, owed, tma, operand, scale>>,
         \A v \in Warps : pc'[v] = "sync" => pc[v] = "sync"
  PROVE  PongBlockInv'
<1> USE DEF PongBlockInv
<1>1. Leader \in Warps
  BY PongSizes
<1>2. MatrixInv' /\ TmemInv'
  BY MatrixKept, TmemKept DEF KeepsRounds
<1>3. (NoneLate' => NoneLate) /\ Loaded(Leader)' = Loaded(Leader)
  BY <1>1 DEF KeepsRounds, NoneLate, Late, Loaded
<1>4. PongOperandInv'
  BY <1>3, OperandKept
<1>5. PongScaleInv'
  BY ScaleKept DEF KeepsRounds
<1> QED BY <1>2, <1>4, <1>5

LEMMA WarpNext ==
  ASSUME Pong!ShapeAssumption, PongBlockInv, NEW w \in Warps,
         \/ Pong!Prologue(w) \/ Pong!Multiply(w) \/ Pong!Prefetch(w) \/ Pong!StartPromotion(w) \/ Pong!Promote(w)
         \/ Pong!Complete(w) \/ Pong!WriteExchange(w) \/ Pong!StoreRows(w)
  PROVE  PongBlockInv'
<1> USE DEF PongBlockInv
<1>1. CASE Pong!Prologue(w)
  <2>1. ControlInv' /\ PongOperandInv' /\ PongScaleInv'
    BY <1>1, PrologueControl, PrologueOperand, PrologueScale
  <2>2. UNCHANGED <<barrier, tmem, mma, retired, owed, total, exchange, output>>
    BY <1>1 DEF Pong!Prologue, Pong!matrix, Pong!epilogue
  <2>3. MatrixInv' /\ TmemInv'
    BY <2>2, <1>1, PrologueControl, MatrixKept, TmemKept
  <2>4. PongSumInv'
    BY <2>2, <1>1, PrologueControl, SumKept
  <2> QED BY <2>1, <2>3, <2>4
<1>2. CASE Pong!Multiply(w)
  <2>1. ControlInv' /\ MatrixInv' /\ TmemInv' /\ PongOperandInv'
    BY <1>2, MultiplyControl, MultiplyMatrix, MultiplyOperand
  <2>2. UNCHANGED <<scale, total, exchange, output>> /\ pc' = [pc EXCEPT ![w] = "prefetch"]
    BY <1>2 DEF Pong!Multiply, Pong!epilogue, Pong!Goes
  <2>3. PongScaleInv'
    BY <2>2, <1>2, MultiplyControl, ScaleKept DEF KeepsRounds
  <2>4. PongSumInv'
    <3>1. \A v \in Warps : pc'[v] \in {"written", "stored", "done"} =>
                            pc[v] \in {"written", "stored", "done"}
      BY <2>2 DEF ControlInv
    <3> QED BY <2>2, <3>1, <1>2, MultiplyControl, SumKept
  <2> QED BY <2>1, <2>3, <2>4
<1>3. CASE Pong!Prefetch(w)
  <2>1. ControlInv' /\ PongOperandInv' /\ PongScaleInv'
    BY <1>3, PrefetchControl, PrefetchOperand, PrefetchScale
  <2>2. UNCHANGED <<barrier, tmem, mma, retired, owed, total, exchange, output>>
    BY <1>3 DEF Pong!Prefetch, Pong!matrix, Pong!epilogue
  <2>3. MatrixInv' /\ TmemInv'
    BY <2>2, <1>3, PrefetchControl, MatrixKept, TmemKept
  <2>4. PongSumInv'
    BY <2>2, <1>3, PrefetchControl, SumKept
  <2> QED BY <2>1, <2>3, <2>4
<1>4. CASE Pong!StartPromotion(w)
  <2>1. ControlInv' /\ KeepsRounds /\ \A v \in Warps : Summed(v)' = Summed(v)
    BY <1>4, StartPromotionControl
  <2>2. /\ UNCHANGED <<barrier, tmem, mma, retired, owed, tma, operand, scale, total, exchange, output>>
        /\ \A v \in Warps : pc'[v] = pc[v] \/ pc'[v] \in {"reading", "complete"}
    BY <1>4 DEF Pong!StartPromotion, Pong!buffers, Pong!matrix, Pong!epilogue, Pong!Goes, ControlInv
  <2>3. PongSumInv'
    BY <2>1, <2>2, SumKept
  <2> QED BY <2>1, <2>2, <2>3, RingsKept
<1>5. CASE Pong!Promote(w)
  <2>1. ControlInv' /\ KeepsRounds /\ PongSumInv'
    BY <1>5, PromoteControl, PromoteSum
  <2>2. /\ UNCHANGED <<barrier, tmem, mma, retired, owed, tma, operand, scale>>
        /\ \A v \in Warps : pc'[v] = pc[v] \/ pc'[v] = "complete"
    BY <1>5 DEF Pong!Promote, Pong!buffers, Pong!matrix, Pong!Goes, ControlInv
  <2> QED BY <2>1, <2>2, RingsKept
<1>6. CASE Pong!Complete(w)
  <2>1. ControlInv' /\ KeepsRounds /\ MatrixInv' /\ TmemInv'
    BY <1>6, CompleteControl, CompleteMatrix
  <2>2. /\ UNCHANGED <<tma, operand, mma, scale, total, exchange, output>>
        /\ \A v \in Warps : pc'[v] = pc[v] \/ pc'[v] = "sync"
    BY <1>6 DEF Pong!Complete, Pong!buffers, Pong!matrix, Pong!epilogue, Pong!Goes, ControlInv
  <2>3. (NoneLate' => NoneLate) /\ Loaded(Leader)' = Loaded(Leader)
    BY <2>1, PongSizes DEF KeepsRounds, NoneLate, Late, Loaded
  <2>4. PongOperandInv' /\ PongScaleInv'
    BY <2>1, <2>2, <2>3, OperandKept, ScaleKept DEF KeepsRounds
  <2>5. PongSumInv'
    BY <2>2, <1>6, CompleteControl, SumKept
  <2> QED BY <2>1, <2>4, <2>5
<1>7. CASE Pong!WriteExchange(w)
  <2>1. ControlInv' /\ KeepsRounds /\ PongOperandInv' /\ PongSumInv'
    BY <1>7, LateControl, ExchangeOperand, ExchangeSum
  <2>2. /\ UNCHANGED <<barrier, tmem, mma, retired, owed, scale>>
        /\ \A v \in Warps : pc'[v] = pc[v] \/ pc'[v] = "written"
    BY <1>7 DEF Pong!WriteExchange, Pong!matrix, Pong!Goes, ControlInv
  <2>3. MatrixInv' /\ TmemInv' /\ PongScaleInv'
    BY <2>1, <2>2, MatrixKept, TmemKept, ScaleKept DEF KeepsRounds
  <2> QED BY <2>1, <2>3
<1>8. CASE Pong!StoreRows(w)
  <2>1. ControlInv' /\ KeepsRounds /\ PongSumInv'
    BY <1>8, LateControl, StoreSum
  <2>2. /\ UNCHANGED <<barrier, tmem, mma, retired, owed, tma, operand, scale>>
        /\ \A v \in Warps : pc'[v] = pc[v] \/ pc'[v] = "stored"
    BY <1>8 DEF Pong!StoreRows, Pong!buffers, Pong!matrix, Pong!Goes, ControlInv
  <2> QED BY <2>1, <2>2, RingsKept
<1> QED BY <1>1, <1>2, <1>3, <1>4, <1>5, <1>6, <1>7, <1>8

LEMMA EngineNext ==
  ASSUME Pong!ShapeAssumption, PongBlockInv,
         (\E k \in Pong!Stages : Pong!TmaLand(k)) \/ Pong!MmaRetire \/ (\E h \in Pong!Halves : Pong!Commit(h))
  PROVE  PongBlockInv'
<1> USE DEF PongBlockInv
<1>1. UNCHANGED <<pc, iteration, mma, scale, total, exchange, output>>
  BY DEF Pong!TmaLand, Pong!MmaRetire, Pong!Commit, Pong!buffers, Pong!matrix, Pong!epilogue
<1>2. ControlInv' /\ KeepsRounds
  BY <1>1, ControlUnchanged
<1>3. PongScaleInv'
  BY <1>1, <1>2, ScaleKept DEF KeepsRounds
<1>4. PongSumInv'
  BY <1>1, SumKept DEF Summed, Round
<1>5. CASE \E k \in Pong!Stages : Pong!TmaLand(k)
  <2>1. PongOperandInv'
    BY <1>5, LandOperand
  <2>2. UNCHANGED <<barrier, tmem, retired, owed>>
    BY <1>5 DEF Pong!TmaLand, Pong!matrix
  <2>3. MatrixInv' /\ TmemInv'
    BY <2>2, <1>1, <1>2, MatrixKept, TmemKept DEF KeepsRounds
  <2> QED BY <2>1, <2>3, <1>2, <1>3, <1>4
<1>6. CASE Pong!MmaRetire \/ \E h \in Pong!Halves : Pong!Commit(h)
  <2>1. MatrixInv' /\ TmemInv'
    BY <1>6, OperandHeld, RetireMatrix, CommitMatrix
  <2>2. UNCHANGED <<tma, operand>>
    BY <1>6 DEF Pong!MmaRetire, Pong!Commit, Pong!buffers
  <2>3. (NoneLate' => NoneLate) /\ Loaded(Leader)' = Loaded(Leader)
    BY <1>1 DEF NoneLate, Late, Loaded
  <2>4. PongOperandInv'
    BY <2>2, <2>3, <1>1, OperandKept
  <2> QED BY <2>1, <2>4, <1>2, <1>3, <1>4
<1> QED BY <1>5, <1>6

LEMMA BlockSteps ==
  ASSUME Pong!ShapeAssumption, PongBlockInv, Pong!Syncthreads \/ Pong!FreeTmem
  PROVE  PongBlockInv'
<1> USE DEF PongBlockInv
<1>1. CASE Pong!Syncthreads
  <2>1. ControlInv' /\ MatrixInv' /\ TmemInv' /\ PongOperandInv'
    BY <1>1, SyncControl, SyncMatrix, SyncOperand
  <2>2. UNCHANGED <<scale, total, exchange, output>>
    BY <1>1 DEF Pong!Syncthreads, Pong!buffers, Pong!epilogue
  <2>3. PongScaleInv'
    BY <2>2, <1>1, SyncControl, ScaleKept
  <2>4. \A v \in Warps : /\ Summed(v)' = Summed(v)
                          /\ pc'[v] \in {"multiply", "write"}
    BY <1>1, SyncControl
  <2>5. PongSumInv'
    BY <2>2, <2>4, SumKept
  <2> QED BY <2>1, <2>3, <2>5
<1>2. CASE Pong!FreeTmem
  <2>1. ControlInv' /\ KeepsRounds /\ \A v \in Warps : Summed(v)' = Summed(v)
    BY <1>2, FreeControl
  <2>2. /\ UNCHANGED <<barrier, tmem, mma, retired, owed, tma, operand, scale, total, exchange, output>>
        /\ \A v \in Warps : pc[v] = "stored" /\ pc'[v] = "done"
    BY <1>2 DEF Pong!FreeTmem, Pong!Everyone, Pong!buffers, Pong!matrix, Pong!epilogue
  <2>3. PongSumInv'
    BY <2>1, <2>2, SumKept
  <2> QED BY <2>1, <2>2, <2>3, RingsKept
<1> QED BY <1>1, <1>2

LEMMA BlockUnchanged ==
  ASSUME Pong!ShapeAssumption, PongBlockInv, UNCHANGED Pong!vars
  PROVE  PongBlockInv'
<1> USE DEF PongBlockInv
<1>1. UNCHANGED <<pc, iteration, barrier, tmem, mma, retired, owed, tma, operand, scale, total, exchange, output>>
  BY DEF Pong!vars, Pong!buffers, Pong!matrix, Pong!epilogue
<1>2. ControlInv' /\ KeepsRounds
  BY <1>1, ControlUnchanged
<1>3. PongSumInv'
  BY <1>1, SumKept DEF Summed, Round
<1> QED BY <1>1, <1>2, <1>3, RingsKept

LEMMA PongBlockNext ==
  ASSUME Pong!ShapeAssumption, PongBlockInv, [Pong!Next]_(Pong!vars)
  PROVE  PongBlockInv'
BY WarpNext, EngineNext, BlockSteps, BlockUnchanged DEF Pong!Next, Pong!Terminated

\* Barriers keep their counts and no cursor leaves its range.
LEMMA PongBlockTypes ==
  ASSUME Pong!ShapeAssumption, PongBlockInv
  PROVE  Pong!TypeOK
<1> USE DEF PongBlockInv
<1>1. Leader \in Warps /\ P \in Nat \ {0} /\ P >= 2 /\ Groups \in Nat /\ Groups >= 1
  BY PongSizes
<1>2. ASSUME NEW k \in Pong!Stages PROVE Pong!InRange(tma[k])
  <2>1. CASE k >= Loaded(Leader)
    BY <2>1
       DEF PongOperandInv, Window, Fresh, Pong!NewBarrier, Pong!InRange, Pong!Barrier,
           Pong!BarrierType
  <2>2. CASE k < Loaded(Leader)
    <3>1. Loaded(Leader) \in Nat
      BY LeaderAt
    <3>2. PICK g \in Nat : g < Loaded(Leader) /\ g + P >= Loaded(Leader) /\ g % P = k
      BY <2>2, <3>1, <1>1, Latest DEF Pong!Stages
    <3>3. StageOf(g) /\ g \div P \in Nat
      BY <3>2, StagePlace DEF PongOperandInv, Window
    <3>4. \/ tma[k] = Pong!Barrier(1, 1, 0, (g \div P) + 1)
          \/ tma[k] = Pong!Barrier(1, 0, 1, g \div P)
      BY <3>2, <3>3 DEF StageOf
    <3> QED BY <3>3, <3>4 DEF Pong!InRange, Pong!Barrier, Pong!BarrierType
  <2> QED BY <2>1, <2>2, LeaderAt DEF Pong!Stages
<1>3. ASSUME NEW h \in Pong!Halves PROVE Pong!InRange(barrier[h])
  <2>1. Committed \in Nat
    BY InFlight
  <2>2. (Committed + 1 - h) \div 2 \in Nat
    BY <2>1 DEF Pong!Halves
  <2>3. barrier[h] = Pong!Barrier(1, 1, 0, (Committed + 1 - h) \div 2)
    BY DEF MatrixInv, MatrixRing
  <2> QED BY <2>2, <2>3 DEF Pong!InRange, Pong!Barrier, Pong!BarrierType
<1>4. mma \in 0 .. Groups /\ retired \in 0 .. mma
  BY <1>1, InFlight
<1>5. owed \in [Pong!Halves -> 0 .. 1]
  BY DEF MatrixInv, MatrixRing
<1>6. iteration \in [Warps -> 0 .. Groups + 1]
  <2>1. \A w \in Warps : iteration[w] \in 0 .. Groups + 1
    BY <1>1 DEF ControlInv, WarpInv, Round, Upto
  <2> QED BY <2>1 DEF ControlInv
<1>7. pc \in [Warps -> {"prologue", "multiply", "prefetch", "promote", "reading", "complete",
                         "sync", "write", "written", "stored", "done"}]
  BY DEF ControlInv, Steps, LateSteps
<1>8. operand \in [Pong!Stages -> [group : {Pong!Staged, Pong!Garbage} \cup 0 .. Groups - 1, landed : BOOLEAN]]
  BY DEF PongOperandInv, PongOperandTypes
<1> QED BY <1>2, <1>3, <1>4, <1>5, <1>6, <1>7, <1>8 DEF Pong!TypeOK

\* What the block promises of every state it can be in.
PongBlockSafe == Pong!TypeOK /\ Pong!OperandStable /\ Pong!PromotionStable /\ Pong!ExchangeSound

LEMMA PongBlockPromises ==
  ASSUME Pong!ShapeAssumption, PongBlockInv
  PROVE  PongBlockSafe
BY PongBlockTypes, OperandHeld, PromotionHeld, ExchangeHeld DEF PongBlockInv, PongBlockSafe

\* For any number of stages, groups and warps: an MMA in flight keeps its
\* operands, a promotion finds its group's product in one half of tensor
\* memory and its scales in the ring while the next group is computed and
\* later ones are copied, and the exchange has the storage alone.
THEOREM PingPongSafe == Pong!ShapeAssumption => (Pong!Spec => []PongBlockSafe)
<1> SUFFICES ASSUME Pong!ShapeAssumption PROVE Pong!Spec => []PongBlockSafe
  OBVIOUS
<1>1. Pong!Init => PongBlockInv
  BY PongBlockInit
<1>2. PongBlockInv /\ [Pong!Next]_(Pong!vars) => PongBlockInv'
  BY PongBlockNext
<1>3. PongBlockInv => PongBlockSafe
  BY PongBlockPromises
<1> QED BY <1>1, <1>2, <1>3, PTL DEF Pong!Spec
=============================================================================
