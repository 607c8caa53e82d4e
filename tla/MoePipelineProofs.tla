-------------------------- MODULE MoePipelineProofs --------------------------
(***************************************************************************)
(* The Thor first projection, for any number of slots, accumulators and    *)
(* warps, any K and any mixture of work items: what a warp stores is made  *)
(* of its own items, each half the complete sum of its groups.             *)
(*                                                                         *)
(* Every role counts the steps it has made by one serial, and the serial   *)
(* tells which work item, half and group a step is (TagAt).  The invariant *)
(* orders the serials of the roles, ties each barrier's phase to them, and *)
(* says for how long a buffer holds what was written to it.                *)
(***************************************************************************)
EXTENDS MoePipeline, FiniteSetTheorems, TLAPS

-----------------------------------------------------------------------------
(* Serials.                                                                *)

\* How many serials below x use entry k of a ring of n.
Fills(x, k, n) == x \div n + (IF k < x % n THEN 1 ELSE 0)
Bit(b1) == IF b1 THEN 1 ELSE 0

\* The step of serial s in launch l: its group, its half, and the number of
\* work items with rows before its own.
GroupAt(l, s) == s % l.groups
HalfAt(l, s) == (s \div l.groups) % 2
ItemAt(l, s) == (s \div l.groups) \div 2
LiveBelow(l, w) == Cardinality({v \in 1 .. Len(l.live) : v < w /\ l.live[v]})
WorkAt(l, s) ==
  CHOOSE w \in 1 .. Len(l.live) : l.live[w] /\ LiveBelow(l, w) = ItemAt(l, s)
TagAt(l, s) == <<WorkAt(l, s), HalfAt(l, s), GroupAt(l, s)>>
RowAt(l, s) == <<WorkAt(l, s), GroupAt(l, s)>>

\* Where the rows of A are kept, whether the step loads them, and for how many
\* further steps they stay.
Cached(l) == l.groups = CachedGroups
IndexAt(l, s) == IF Cached(l) THEN s % l.groups ELSE s % P
LoadsAt(l, s) == ~Cached(l) \/ HalfAt(l, s) = 0
Keep(l) == IF Cached(l) THEN 2 * l.groups ELSE P

PlaceOf(l) == [work : 1 .. Len(l.live) + 1, half : Halves, group : 0 .. l.groups - 1, serial : Nat]
\* p is where its serial says, and where there are rows if they are expected.
Placed(l, p) ==
  /\ p \in PlaceOf(l)
  /\ p.half = HalfAt(l, p.serial) /\ p.group = GroupAt(l, p.serial)
  /\ LiveBelow(l, p.work) = ItemAt(l, p.serial)
Rowed(l, p) == p.work <= Len(l.live) => l.live[p.work]
IsStep(l, p) == Placed(l, p) /\ p.work <= Len(l.live) /\ l.live[p.work]

-----------------------------------------------------------------------------
(* The invariant.                                                          *)

\* A function of two arguments, and the same with one value replaced.
OnGrid(f, S, T) == f = [c \in S |-> [k \in T |-> f[c][k]]]
Replaced(g, f, c, k, v) == g = [f EXCEPT ![c][k] = v]

Retired == mma.serial - Len(in_flight)
\* The steps a consumer warp has given back, and those it has read.
DoneBy(p, st) == p.serial + Bit(st \notin {"item", "reading"})
ReadBy(p, st) == p.serial + Bit(st # "item")
Done(c, w) == DoneBy(consumer[c][w], step[c][w])
Read(c, w) == ReadBy(consumer[c][w], step[c][w])

RoleInv ==
  /\ launch \in Launches
  /\ tma = [c \in CTAs |-> tma[c]] /\ gather = [c \in CTAs |-> gather[c]]
  /\ scaler = [c \in CTAs |-> scaler[c]]
  /\ \A c \in CTAs :
       /\ Placed(launch, tma[c]) /\ Rowed(launch, tma[c])
       /\ Placed(launch, scaler[c]) /\ Rowed(launch, scaler[c])
       /\ IF packed THEN ~InItem(gather[c])
                    ELSE Placed(launch, gather[c]) /\ Rowed(launch, gather[c])
  /\ Placed(launch, mma) /\ Rowed(launch, mma)
  /\ in_flight \in Seq(PlaceOf(launch))
  /\ \A i \in 1 .. Len(in_flight) :
       IsStep(launch, in_flight[i]) /\ in_flight[i].serial = Retired + i - 1

\* No role is more than a ring ahead of those that give its slots back.
OrderInv ==
  /\ Retired \in Nat
  /\ \A c \in CTAs :
       /\ mma.serial <= tma[c].serial /\ tma[c].serial <= Retired + P
       /\ ~packed => mma.serial <= gather[c].serial /\ gather[c].serial <= Retired + P
       /\ \A w \in Warps :
            /\ Read(c, w) <= Retired /\ mma.serial <= Done(c, w) + Buffers
            /\ Read(c, w) <= scaler[c].serial /\ scaler[c].serial <= Done(c, w) + P

Settled(bar, n) == bar \in BarrierType /\ bar.count = n /\ bar.tx = 0
Single(bar, n) == Settled(bar, 1) /\ bar.left = 1 /\ bar.done = n
\* A barrier that members of S arrive on once per phase: r[x] counts the
\* arrivals of x, and whoever is one behind is still missing.
Counted(bar, S, r) ==
  /\ Settled(bar, Cardinality(S))
  /\ \A x \in S : r[x] \in {bar.done, bar.done + 1}
  /\ bar.left = Cardinality({x \in S : r[x] = bar.done})
  /\ bar.left >= 1

\* The loads of one CTA for a step, and those not landed.
LoadsOf(l, s) == 1 + Bit(l.packed /\ LoadsAt(l, s))
Missing(l, s, rows, row) ==
  Bit(~row.landed) + Bit(l.packed /\ LoadsAt(l, s) /\ ~rows[IndexAt(l, s)].landed)
\* What a CTA whose TMA role is at t still owes phase d of slot k.
Owed(l, k, d, t, rows, row) ==
  IF Fills(t, k, P) = d THEN LoadsOf(l, d * P + k) ELSE Missing(l, d * P + k, rows, row)
\* Whether a role at serial t has made its arrival in phase d.
Here(t, k, d) == Bit(Fills(t, k, P) = d + 1)

\* The barrier of slot k: m, T, G are where the roles are, A and B the rows.
FullOk(l, k, bar, m, T, G, A, B) ==
  LET d == bar.done
  IN /\ bar \in BarrierType
     /\ bar.count = IF l.packed THEN 1 ELSE 3
     /\ Fills(m.serial, k, P) <= d
     /\ \A c \in CTAs :
          /\ d <= Fills(T[c].serial, k, P)
          /\ ~l.packed => d <= Fills(G[c].serial, k, P)
          /\ d = Fills(T[c].serial, k, P) => B[c][k].landed
     /\ bar.left = bar.count - Here(T[Leader].serial, k, d)
          - (IF l.packed THEN 0 ELSE Here(G[0].serial, k, d) + Here(G[1].serial, k, d))
     /\ bar.tx = Owed(l, k, d, T[0].serial, A[0], B[0][k]) + Owed(l, k, d, T[1].serial, A[1], B[1][k])
                 - (IF Here(T[Leader].serial, k, d) = 1 THEN 0 ELSE 2 * LoadsOf(l, d * P + k))
     /\ ~(bar.left = 0 /\ bar.tx = 0)

\* A load of A under way belongs to the step its slot's phase waits for.
PendingOk(l, row, x, t, full) ==
  ~row.landed =>
    LET k == row.slot
        d == full[k].done
    IN /\ l.packed /\ k \in Slots /\ Fills(t, k, P) = d + 1
       /\ x = IndexAt(l, d * P + k) /\ LoadsAt(l, d * P + k)

\* For how long entries hold what was written for a step: until the writer is
\* a ring further, for A until the next item's rows are loaded.
Holds(l, n, upto, last, buf) ==
  \A s \in 0 .. upto - 1 : last <= s + n => buf[s % n] = TagAt(l, s)
HoldsB(l, t, rows) ==
  \A s \in 0 .. t - 1 : t <= s + P => rows[s % P].tag = TagAt(l, s)
HoldsA(l, t, rows) ==
  \A s \in 0 .. t - 1 :
    LoadsAt(l, s) /\ t <= s + Keep(l) => rows[IndexAt(l, s)].tag = RowAt(l, s)
LoaderA(c) == IF packed THEN tma[c].serial ELSE gather[c].serial

Rows == 0 .. CachedGroups - 1
IsRowA(row) == row = [tag |-> row.tag, slot |-> row.slot, landed |-> row.landed]
               /\ row.landed \in BOOLEAN
IsRowB(row) == row = [tag |-> row.tag, landed |-> row.landed] /\ row.landed \in BOOLEAN
OperandInv ==
  /\ operand_full = [k \in Slots |-> operand_full[k]]
  /\ OnGrid(operand_empty, CTAs, Slots) /\ OnGrid(a, CTAs, Rows) /\ OnGrid(b, CTAs, Slots)
  /\ \A k \in Slots : FullOk(launch, k, operand_full[k], mma, tma, gather, a, b)
  /\ \A c \in CTAs :
       /\ \A k \in Slots : /\ Single(operand_empty[c][k], Fills(Retired, k, P))
                           /\ IsRowB(b[c][k])
       /\ \A x \in Rows : /\ IsRowA(a[c][x])
                          /\ PendingOk(launch, a[c][x], x, tma[c].serial, operand_full)
       /\ HoldsB(launch, tma[c].serial, b[c])
       /\ HoldsA(launch, LoaderA(c), a[c])

AccumulatorInv ==
  /\ OnGrid(accumulator_full, CTAs, Accumulators)
  /\ accumulator_empty = [j \in Accumulators |-> accumulator_empty[j]]
  /\ OnGrid(tmem, CTAs, Accumulators)
  /\ \A j \in Accumulators :
       Counted(accumulator_empty[j], CTAs \X Warps,
               [x \in CTAs \X Warps |-> Fills(Done(x[1], x[2]), j, Buffers)])
  /\ \A c \in CTAs, j \in Accumulators :
       Single(accumulator_full[c][j], Fills(Retired, j, Buffers))
  /\ \A c \in CTAs : Holds(launch, Buffers, Retired, mma.serial, tmem[c])

ScaleInv ==
  /\ OnGrid(scale_full, CTAs, Slots)
  /\ OnGrid(scale_empty, CTAs, Slots)
  /\ OnGrid(scale, CTAs, Slots)
  /\ \A c \in CTAs, k \in Slots :
       /\ Single(scale_full[c][k], Fills(scaler[c].serial, k, P))
       /\ Counted(scale_empty[c][k], Warps, [w \in Warps |-> Fills(Done(c, w), k, P)])
  /\ \A c \in CTAs : Holds(launch, P, scaler[c].serial, scaler[c].serial, scale[c])

\* The groups a warp has summed, and what it stores for an item.
SumOf(work, h, n) == [g \in 1 .. n |-> <<work, h, g - 1>>]
PromisedIn(l, work) ==
  IF l.live[work] THEN [w \in l.warps |-> [h \in Halves |-> SumOf(work, h, l.groups)]]
  ELSE Padding

Epilogue == {"written", "quantise", "quantised"}
\* p and st say where a warp is; then its fragment, sums, hidden rows and stores.
ConsumerOk(l, p, st, frag, tot, hid, out) ==
  /\ st \in {"item", "reading", "hidden"} \cup Epilogue
  /\ Placed(l, p)
  /\ st # "item" => IsStep(l, p)
  /\ ~(p.work <= Len(l.live) /\ l.live[p.work]) => p.half = 0 /\ p.group = 0
  /\ st \in {"hidden"} \cup Epilogue => p.group + 1 = l.groups
  /\ st \in Epilogue => p.half = 1
  /\ st = "reading" => frag = Tag(p)
  /\ tot = SumOf(p.work, p.half, IF st \in {"item", "reading"} THEN p.group
                                 ELSE IF st = "hidden" THEN l.groups ELSE 0)
  /\ hid = [h \in Halves |-> hid[h]]
  /\ p.half = 1 => hid[0] = SumOf(p.work, 0, l.groups)
  /\ st \in Epilogue => hid[1] = SumOf(p.work, 1, l.groups)
  /\ out = [i \in 1 .. p.work - 1 + Bit(st = "quantised") |-> PromisedIn(l, i)]

Quantising == {"quantise", "quantised"}
ConsumerInv ==
  /\ OnGrid(consumer, CTAs, Warps)
  /\ OnGrid(step, CTAs, Warps)
  /\ OnGrid(fragment, CTAs, Warps)
  /\ OnGrid(total, CTAs, Warps)
  /\ OnGrid(hidden, CTAs, Warps)
  /\ OnGrid(output, CTAs, Warps)
  /\ \A c \in CTAs, w \in Warps :
       ConsumerOk(launch, consumer[c][w], step[c][w], fragment[c][w], total[c][w],
                  hidden[c][w], output[c][w])
  /\ \A c \in CTAs, v, w \in Warps :
       /\ LiveBelow(launch, consumer[c][v].work) = LiveBelow(launch, consumer[c][w].work)
       /\ step[c][v] \in Quantising => step[c][w] \in Quantising
  /\ freed => \A c \in CTAs, w \in Warps :
                step[c][w] = "item" /\ ~InItem(consumer[c][w])

IInv == RoleInv /\ OrderInv /\ OperandInv /\ AccumulatorInv /\ ScaleInv /\ ConsumerInv

-----------------------------------------------------------------------------
(* Serials and rings of any size.                                          *)

LEMMA Modulo ==
  ASSUME NEW s \in Nat, NEW d \in Nat \ {0}
  PROVE  s \div d \in Nat /\ s % d \in 0 .. d - 1 /\ s = (s \div d) * d + (s % d)
<1>1. s \div d \in Int /\ s % d \in 0 .. d - 1
  OBVIOUS
<1>2. s = d * (s \div d) + (s % d)
  OBVIOUS
<1>3. \A q \in Int, r \in 0 .. d - 1 : s = d * q + r => q >= 0 /\ d * q = q * d
  OBVIOUS
<1> QED BY <1>1, <1>2, <1>3

LEMMA Division ==
  ASSUME NEW d \in Nat \ {0}, NEW q \in Nat, NEW r \in 0 .. d - 1, NEW s, s = q * d + r
  PROVE  s \in Nat /\ s \div d = q /\ s % d = r
<1>1. s \in Nat
  <2>1. q * d \in Nat
    OBVIOUS
  <2> QED BY <2>1
<1>2. s \div d \in Nat /\ s % d \in 0 .. d - 1 /\ s = (s \div d) * d + (s % d)
  BY <1>1, Modulo
<1>3. PICK p, x : p = s \div d /\ x = s % d
  OBVIOUS
<1>4. p \in Int /\ x \in 0 .. d - 1 /\ q * d + r = p * d + x
  BY <1>2, <1>3
<1>5. q = p
  BY ONLY <1>4, d \in Nat \ {0}, q \in Nat, r \in 0 .. d - 1
<1>6. r = x
  BY <1>4, <1>5
<1> QED BY <1>1, <1>3, <1>5, <1>6

\* The laps of a ring: serial x uses entry x % n, and then the next.
LEMMA FillsAt ==
  ASSUME NEW n \in Nat \ {0}, NEW x \in Nat
  PROVE  /\ x % n \in 0 .. n - 1 /\ x \div n \in Nat
         /\ Fills(x, x % n, n) = x \div n
         /\ (x \div n) * n + (x % n) = x
         /\ x < n => x \div n = 0
<1>1. x \div n \in Nat /\ x % n \in 0 .. n - 1 /\ x = (x \div n) * n + (x % n)
  BY Modulo
<1>2. PICK q, r : q = x \div n /\ r = x % n
  OBVIOUS
<1>3. q \in Nat /\ r \in 0 .. n - 1 /\ x = q * n + r
  BY <1>1, <1>2
<1>4. x < n => q = 0
  <2>1. SUFFICES ASSUME x < n, q >= 1 PROVE FALSE
    BY <1>3
  <2>2. PICK m \in Nat : q = 1 + m
    <3>1. q - 1 \in Nat /\ q = 1 + (q - 1)
      BY <1>3, <2>1
    <3> QED BY <3>1
  <2>3. (1 + m) * n = n + m * n /\ m * n \in Nat
    OBVIOUS
  <2> QED BY <1>3, <2>1, <2>2, <2>3
<1>5. Fills(x, r, n) = q + (IF r < r THEN 1 ELSE 0)
  BY <1>2 DEF Fills
<1>6. Fills(x, r, n) = q
  BY <1>3, <1>5
<1> QED BY <1>1, <1>2, <1>4, <1>6

\* x is entry r of lap q.
Split(x, n, q, r) == q \in Nat /\ r \in 0 .. n - 1 /\ x = q * n + r

LEMMA SplitAt ==
  ASSUME NEW n \in Nat \ {0}, NEW x \in Nat
  PROVE  \E q, r : Split(x, n, q, r) /\ q = x \div n /\ r = x % n
<1>1. PICK q, r : q = x \div n /\ r = x % n
  OBVIOUS
<1>2. q \in Nat /\ r \in 0 .. n - 1 /\ x = q * n + r
  BY <1>1, Modulo
<1> QED BY <1>1, <1>2 DEF Split

LEMMA FillsIs ==
  ASSUME NEW n \in Nat \ {0}, NEW q, NEW r, NEW x, Split(x, n, q, r), NEW k \in 0 .. n - 1
  PROVE  Fills(x, k, n) = IF k < r THEN q + 1 ELSE q
<1>1. x \div n = q /\ x % n = r
  BY Division DEF Split
<1>2. Fills(x, k, n) = q + (IF k < r THEN 1 ELSE 0)
  BY <1>1 DEF Fills
<1>3. q \in Nat
  BY DEF Split
<1> QED BY ONLY <1>2, <1>3

LEMMA FillsNext ==
  ASSUME NEW n \in Nat \ {0}, NEW x \in Nat, NEW k \in 0 .. n - 1
  PROVE  /\ Fills(x, k, n) \in Nat
         /\ Fills(x + 1, k, n) = IF k = x % n THEN Fills(x, k, n) + 1 ELSE Fills(x, k, n)
<1>1. PICK q, r : Split(x, n, q, r) /\ q = x \div n /\ r = x % n
  BY SplitAt
<1>2. q \in Nat /\ r \in 0 .. n - 1 /\ x = q * n + r
  BY <1>1 DEF Split
<1>3. Fills(x, k, n) = IF k < r THEN q + 1 ELSE q
  BY <1>1, FillsIs
<1>4. CASE r + 1 = n
  <2>1. (q + 1) * n = q * n + n /\ q * n \in Nat
    BY <1>2
  <2>2. x + 1 = (q + 1) * n + 0 /\ q + 1 \in Nat /\ 0 \in 0 .. n - 1
    BY <1>2, <1>4, <2>1
  <2>3. Split(x + 1, n, q + 1, 0)
    BY <2>2 DEF Split
  <2>4. Fills(x + 1, k, n) = IF k < 0 THEN q + 1 + 1 ELSE q + 1
    BY <2>3, FillsIs
  <2> QED BY <1>1, <1>2, <1>3, <1>4, <2>4
<1>5. CASE r + 1 # n
  <2>1. q * n \in Nat
    BY <1>2
  <2>2. x + 1 = q * n + (r + 1) /\ r + 1 \in 0 .. n - 1
    BY <1>2, <1>5, <2>1
  <2>3. Split(x + 1, n, q, r + 1)
    BY <1>2, <2>2 DEF Split
  <2>4. Fills(x + 1, k, n) = IF k < r + 1 THEN q + 1 ELSE q
    BY <2>3, FillsIs
  <2> QED BY <1>1, <1>2, <1>3, <2>4
<1> QED BY <1>4, <1>5

LEMMA FillsLap ==
  ASSUME NEW n \in Nat \ {0}, NEW x \in Nat, NEW k \in 0 .. n - 1
  PROVE  Fills(x + n, k, n) = Fills(x, k, n) + 1
<1>1. PICK q, r : Split(x, n, q, r)
  BY SplitAt
<1>2. q \in Nat /\ r \in 0 .. n - 1 /\ x = q * n + r
  BY <1>1 DEF Split
<1>3. (q + 1) * n = q * n + n /\ q * n \in Nat
  BY <1>2
<1>4. Split(x + n, n, q + 1, r)
  <2>1. x + n = (q + 1) * n + r /\ q + 1 \in Nat
    BY <1>2, <1>3
  <2> QED BY <1>2, <2>1 DEF Split
<1>5. Fills(x, k, n) = (IF k < r THEN q + 1 ELSE q)
      /\ Fills(x + n, k, n) = (IF k < r THEN q + 1 + 1 ELSE q + 1)
  BY <1>1, <1>4, FillsIs
<1> QED BY <1>2, <1>5

LEMMA FillsGrow ==
  ASSUME NEW n \in Nat \ {0}, NEW x \in Nat, NEW y \in Nat, x <= y, NEW k \in 0 .. n - 1
  PROVE  Fills(x, k, n) <= Fills(y, k, n)
<1>1. PICK q, r : Split(x, n, q, r)
  BY SplitAt
<1>2. PICK p, t : Split(y, n, p, t)
  BY SplitAt
<1>3. Fills(x, k, n) = (IF k < r THEN q + 1 ELSE q) /\ Fills(y, k, n) = (IF k < t THEN p + 1 ELSE p)
  BY <1>1, <1>2, FillsIs
<1>4. q \in Nat /\ r \in 0 .. n - 1 /\ x = q * n + r /\ p \in Nat /\ t \in 0 .. n - 1 /\ y = p * n + t
  BY <1>1, <1>2 DEF Split
<1>5. CASE q = p
  BY <1>3, <1>4, <1>5
<1>6. CASE q < p
  BY <1>3, <1>4, <1>6
<1>7. CASE p < q
  <2>1. PICK m \in Nat : q = p + 1 + m
    <3>1. q - p - 1 \in Nat /\ q = p + 1 + (q - p - 1)
      BY <1>4, <1>7
    <3> QED BY <3>1
  <2>2. (p + 1 + m) * n = p * n + n + m * n /\ m * n \in Nat /\ p * n \in Nat
    BY <1>4
  <2> QED BY <1>4, <2>1, <2>2
<1> QED BY <1>4, <1>5, <1>6, <1>7

\* Two uses of one entry are a lap apart.
LEMMA Apart ==
  ASSUME NEW n \in Nat \ {0}, NEW x \in Nat, NEW y \in Nat, x < y, x % n = y % n
  PROVE  x + n <= y
<1>1. PICK q, r, p : Split(x, n, q, r) /\ Split(y, n, p, r)
  <2>1. PICK q, r : Split(x, n, q, r) /\ r = x % n
    BY SplitAt
  <2>2. PICK p, t : Split(y, n, p, t) /\ t = y % n
    BY SplitAt
  <2> QED BY <2>1, <2>2
<1>2. q \in Nat /\ r \in 0 .. n - 1 /\ x = q * n + r /\ p \in Nat /\ y = p * n + r
  BY <1>1 DEF Split
<1>3. CASE p <= q
  <2>1. PICK m \in Nat : q = p + m
    <3>1. q - p \in Nat /\ q = p + (q - p)
      BY <1>2, <1>3
    <3> QED BY <3>1
  <2>2. (p + m) * n = p * n + m * n /\ m * n \in Nat /\ p * n \in Nat
    BY <1>2
  <2> QED BY <1>2, <2>1, <2>2
<1>4. CASE q < p
  <2>1. PICK m \in Nat : p = q + 1 + m
    <3>1. p - q - 1 \in Nat /\ p = q + 1 + (p - q - 1)
      BY <1>2, <1>4
    <3> QED BY <3>1
  <2>2. (q + 1 + m) * n = q * n + n + m * n /\ m * n \in Nat /\ q * n \in Nat
    BY <1>2
  <2> QED BY <1>2, <2>1, <2>2
<1> QED BY <1>2, <1>3, <1>4

\* The next use of entry k after d laps.
LEMMA SerialIs ==
  ASSUME NEW n \in Nat \ {0}, NEW d \in Nat, NEW k \in 0 .. n - 1
  PROVE  d * n + k \in Nat /\ (d * n + k) % n = k /\ (d * n + k) \div n = d
<1>1. PICK s : s = d * n + k
  OBVIOUS
<1>2. s \in Nat /\ s \div n = d /\ s % n = k
  BY <1>1, Division
<1> QED BY <1>1, <1>2

\* If x has gone past entry k more often than y, x is further on.
LEMMA FillsLess ==
  ASSUME NEW n \in Nat \ {0}, NEW x \in Nat, NEW y \in Nat, NEW k \in 0 .. n - 1,
         Fills(x, k, n) < Fills(y, k, n)
  PROVE  x < y
<1>1. CASE y <= x
  <2>1. Fills(y, k, n) <= Fills(x, k, n)
    BY <1>1, FillsGrow
  <2>2. Fills(x, k, n) \in Nat /\ Fills(y, k, n) \in Nat
    BY FillsNext
  <2> QED BY <2>1, <2>2
<1> QED BY <1>1

LEMMA ParityWait ==
  ASSUME NEW bar, NEW x \in Int, bar.done \in {x, x + 1}, Passes(bar, x % 2)
  PROVE  bar.done = x + 1
BY DEF Passes

-----------------------------------------------------------------------------
(* Work items and places.                                                  *)

LEMMA LaunchType ==
  ASSUME NEW l \in Launches
  PROVE  /\ l.groups \in Nat \ {0} /\ l.live \in Seq(BOOLEAN) /\ Len(l.live) \in Nat
         /\ l.packed \in BOOLEAN /\ IsFiniteSet(l.warps) /\ l.warps # {}
         /\ \A w \in 1 .. Len(l.live) : l.live[w] \in BOOLEAN
BY ShapeAssumption

LEMMA Sizes == P \in Nat \ {0} /\ Buffers \in Nat \ {0} /\ CachedGroups \in Nat /\ P <= CachedGroups
BY ShapeAssumption

\* A set of natural numbers below n that is not empty has a least element.
LEMMA Least ==
  ASSUME NEW n \in Nat, NEW T, T \subseteq 1 .. n, T # {}
  PROVE  \E x \in T : \A y \in T : x <= y
<1> DEFINE Below(x) == {y \in T : y < x}
           F == {Below(x) : x \in T}
           R == StrictSubsetOrdering(T)
<1>1. IsWellFoundedOn(R, FiniteSubsetsOf(T))
  BY FS_StrictSubsetOrderingWellFounded
<1>2. F \subseteq FiniteSubsetsOf(T) /\ F # {}
  <2>1. \A x \in T : Below(x) \in SUBSET T
    OBVIOUS
  <2>2. FiniteSubsetsOf(T) = SUBSET T
    <3>1. IsFiniteSet(1 .. n)
      BY FS_Interval
    <3>2. T \in SUBSET (1 .. n)
      OBVIOUS
    <3>3. IsFiniteSet(T)
      BY <3>1, <3>2, FS_Subset
    <3> QED BY <3>3, FS_FiniteSubsetsOfFinite
  <2>3. PICK x : x \in T
    OBVIOUS
  <2>4. Below(x) \in F
    BY <2>3
  <2>5. \A U \in F : U \in SUBSET T
    <3> HIDE DEF Below
    <3> QED BY <2>1
  <2>6. F # {} /\ F \subseteq SUBSET T
    <3> HIDE DEF F
    <3> QED BY <2>4, <2>5
  <2> QED BY <2>2, <2>6
<1>3. \E U \in F : \A V \in F : ~ (<<V, U>> \in R)
  <2> HIDE DEF F, R
  <2> QED BY <1>1, <1>2, WFMin
<1>4. PICK x \in T : \A y \in T : <<Below(y), Below(x)>> \notin R
  <2>1. PICK U \in F : \A V \in F : <<V, U>> \notin R
    BY <1>3
  <2>2. PICK x \in T : U = Below(x)
    BY <2>1
  <2>3. \A y \in T : Below(y) \in F
    OBVIOUS
  <2>4. \A y \in T : <<Below(y), U>> \notin R
    <3> HIDE DEF F, R, Below
    <3> QED BY <2>1, <2>3
  <2>5. \A y \in T : <<Below(y), Below(x)>> \notin R
    BY ONLY <2>2, <2>4
  <2> QED BY ONLY <2>2, <2>5
<1>5. ASSUME NEW y \in T, y < x PROVE FALSE
  <2>1. Below(y) \subseteq Below(x)
    <3>1. x \in Int /\ y \in Int /\ \A z \in T : z \in Int
      OBVIOUS
    <3>2. \A z \in T : z < y => z < x
      BY <3>1, <1>5
    <3> QED BY <3>2
  <2>2. y \in Below(x) /\ y \notin Below(y)
    BY <1>5
  <2>3. Below(y) \in SUBSET T /\ Below(x) \in SUBSET T /\ Below(y) # Below(x)
    BY <2>2
  <2>4. <<Below(y), Below(x)>> \in R
    BY <2>1, <2>3 DEF StrictSubsetOrdering
  <2> QED BY <2>4, <1>4
<1>6. \A y \in T : y \in Int /\ x \in Int
  OBVIOUS
<1>7. \A y \in T : x <= y
  BY <1>5, <1>6
<1> QED BY <1>7

LiveSet(l, w) == {v \in 1 .. Len(l.live) : v < w /\ l.live[v]}

LEMMA LiveSetFinite ==
  ASSUME NEW l \in Launches, NEW w
  PROVE  IsFiniteSet(LiveSet(l, w)) /\ LiveBelow(l, w) = Cardinality(LiveSet(l, w))
         /\ LiveBelow(l, w) \in Nat
<1>1. IsFiniteSet(1 .. Len(l.live)) /\ LiveSet(l, w) \in SUBSET (1 .. Len(l.live))
  BY LaunchType, FS_Interval DEF LiveSet
<1>2. IsFiniteSet(LiveSet(l, w))
  BY <1>1, FS_Subset
<1> QED BY <1>2, FS_CardinalityType DEF LiveSet, LiveBelow

\* Padding does not count; an item with rows does.
LEMMA LiveBelowNext ==
  ASSUME NEW l \in Launches, NEW w \in 1 .. Len(l.live)
  PROVE  LiveBelow(l, w + 1) = IF l.live[w] THEN LiveBelow(l, w) + 1 ELSE LiveBelow(l, w)
<1>1. CASE l.live[w]
  <2>1. LiveSet(l, w + 1) = LiveSet(l, w) \cup {w} /\ w \notin LiveSet(l, w)
    BY LaunchType, <1>1 DEF LiveSet
  <2>2. Cardinality(LiveSet(l, w) \cup {w}) = Cardinality(LiveSet(l, w)) + 1
    BY <2>1, LiveSetFinite, FS_AddElement
  <2> QED BY <1>1, <2>1, <2>2, LiveSetFinite
<1>2. CASE ~l.live[w]
  <2>1. LiveSet(l, w + 1) = LiveSet(l, w)
    BY LaunchType, <1>2 DEF LiveSet
  <2> QED BY <1>2, <2>1, LiveSetFinite
<1> QED BY <1>1, <1>2

LEMMA LiveBelowGrows ==
  ASSUME NEW l \in Launches, NEW v \in Int, NEW w \in Int, v <= w
  PROVE  LiveBelow(l, v) <= LiveBelow(l, w)
<1>1. LiveSet(l, v) \in SUBSET LiveSet(l, w)
  BY LaunchType DEF LiveSet
<1>2. Cardinality(LiveSet(l, v)) <= Cardinality(LiveSet(l, w))
  BY <1>1, LiveSetFinite, FS_Subset
<1> QED BY <1>2, LiveSetFinite

\* An item with rows is known by how many are before it.
LEMMA LiveUnique ==
  ASSUME NEW l \in Launches, NEW v \in 1 .. Len(l.live), NEW w \in 1 .. Len(l.live),
         l.live[v], l.live[w], LiveBelow(l, v) = LiveBelow(l, w)
  PROVE  v = w
<1>1. ASSUME NEW x \in 1 .. Len(l.live), NEW y \in 1 .. Len(l.live), l.live[x], x < y
      PROVE  LiveBelow(l, x) < LiveBelow(l, y)
  <2>1. LiveBelow(l, x + 1) = LiveBelow(l, x) + 1
    BY <1>1, LiveBelowNext
  <2>2. LiveBelow(l, x + 1) <= LiveBelow(l, y)
    <3>1. x + 1 \in Int /\ y \in Int /\ x + 1 <= y
      BY <1>1
    <3> QED BY <3>1, LiveBelowGrows
  <2> QED BY <2>1, <2>2, LiveSetFinite
<1>2. LiveBelow(l, v) \in Nat /\ v \in Int /\ w \in Int
  BY LiveSetFinite
<1>3. ~(v < w) /\ ~(w < v)
  BY <1>1, <1>2
<1> QED BY <1>2, <1>3

\* A step's serial tells its work item, half and group.
LEMMA TagOf ==
  ASSUME NEW l \in Launches, NEW p, IsStep(l, p)
  PROVE  /\ WorkAt(l, p.serial) = p.work
         /\ TagAt(l, p.serial) = Tag(p) /\ RowAt(l, p.serial) = <<p.work, p.group>>
<1>1. /\ p.work \in 1 .. Len(l.live) /\ l.live[p.work]
      /\ LiveBelow(l, p.work) = ItemAt(l, p.serial)
  BY LaunchType DEF IsStep, Placed, PlaceOf
<1>2. WorkAt(l, p.serial) \in 1 .. Len(l.live) /\ l.live[WorkAt(l, p.serial)]
      /\ LiveBelow(l, WorkAt(l, p.serial)) = ItemAt(l, p.serial)
  BY <1>1 DEF WorkAt
<1>3. WorkAt(l, p.serial) = p.work
  BY <1>1, <1>2, LiveUnique
<1> QED BY <1>3 DEF TagAt, RowAt, Tag, IsStep, Placed

\* The step after serial s.
LEMMA SerialNext ==
  ASSUME NEW l \in Launches, NEW s \in Nat
  PROVE  /\ GroupAt(l, s) \in 0 .. l.groups - 1 /\ HalfAt(l, s) \in {0, 1} /\ ItemAt(l, s) \in Nat
         /\ GroupAt(l, s) + 1 # l.groups =>
              /\ GroupAt(l, s + 1) = GroupAt(l, s) + 1
              /\ HalfAt(l, s + 1) = HalfAt(l, s) /\ ItemAt(l, s + 1) = ItemAt(l, s)
         /\ GroupAt(l, s) + 1 = l.groups =>
              /\ GroupAt(l, s + 1) = 0 /\ HalfAt(l, s + 1) = 1 - HalfAt(l, s)
              /\ ItemAt(l, s + 1) = ItemAt(l, s) + HalfAt(l, s)
<1> DEFINE n == l.groups
<1>1. n \in Nat \ {0}
  BY LaunchType
<1>2. PICK q, r : Split(s, n, q, r) /\ q = s \div n /\ r = s % n
  BY <1>1, SplitAt
<1> HIDE DEF n
<1>3. q \in Nat /\ r \in 0 .. n - 1 /\ s = q * n + r
  BY <1>2 DEF Split
<1>4. GroupAt(l, s) = r /\ HalfAt(l, s) = q % 2 /\ ItemAt(l, s) = q \div 2
  BY <1>2 DEF GroupAt, HalfAt, ItemAt, n
<1>5. CASE r + 1 # n
  <2>1. q * n \in Nat
    BY <1>1, <1>3
  <2>2. s + 1 = q * n + (r + 1) /\ r + 1 \in 0 .. n - 1
    BY <1>1, <1>3, <1>5, <2>1
  <2>3. (s + 1) \div n = q /\ (s + 1) % n = r + 1
    <3>1. PICK z : z = r + 1
      OBVIOUS
    <3>2. q \in Nat /\ z \in 0 .. n - 1 /\ s + 1 = q * n + z
      BY <1>3, <2>2, <3>1
    <3>3. (s + 1) \div n = q /\ (s + 1) % n = z
      BY ONLY <1>1, <3>2, Division
    <3> QED BY <3>1, <3>3
  <2>4. GroupAt(l, s + 1) = r + 1 /\ HalfAt(l, s + 1) = q % 2 /\ ItemAt(l, s + 1) = q \div 2
    BY <2>3 DEF GroupAt, HalfAt, ItemAt, n
  <2> QED BY <1>1, <1>3, <1>4, <1>5, <2>4 DEF n
<1>6. CASE r + 1 = n
  <2>1. (q + 1) * n = q * n + n /\ q * n \in Nat
    BY <1>1, <1>3
  <2>2. s + 1 = (q + 1) * n + 0 /\ q + 1 \in Nat /\ 0 \in 0 .. n - 1
    BY <1>1, <1>3, <1>6, <2>1
  <2>3. (s + 1) \div n = q + 1 /\ (s + 1) % n = 0
    <3>1. PICK m, z : m = q + 1 /\ z = 0
      OBVIOUS
    <3>2. m \in Nat /\ z \in 0 .. n - 1 /\ s + 1 = m * n + z
      BY <2>2, <3>1
    <3>3. (s + 1) \div n = m /\ (s + 1) % n = z
      BY ONLY <1>1, <3>2, Division
    <3> QED BY <3>1, <3>3
  <2>4. GroupAt(l, s + 1) = 0 /\ HalfAt(l, s + 1) = (q + 1) % 2 /\ ItemAt(l, s + 1) = (q + 1) \div 2
    BY <2>3 DEF GroupAt, HalfAt, ItemAt, n
  <2>5. (q + 1) % 2 = 1 - (q % 2) /\ (q + 1) \div 2 = (q \div 2) + (q % 2) /\ q % 2 \in {0, 1}
        /\ q \div 2 \in Nat
    BY <1>3
  <2> QED BY <1>1, <1>3, <1>4, <1>6, <2>4, <2>5 DEF n
<1> QED BY <1>3, <1>5, <1>6

LEMMA NextGroupStep ==
  ASSUME launch \in Launches, NEW p, IsStep(launch, p), LastGroup(p) => p.half = 0
  PROVE  IsStep(launch, NextGroup(p)) /\ NextGroup(p).serial = p.serial + 1
         /\ NextGroup(p).work = p.work
<1>1. /\ p \in PlaceOf(launch) /\ p.half = HalfAt(launch, p.serial)
      /\ p.group = GroupAt(launch, p.serial) /\ LiveBelow(launch, p.work) = ItemAt(launch, p.serial)
  BY DEF IsStep, Placed
<1>2. p.serial \in Nat /\ p.half \in {0, 1} /\ p.work \in 1 .. Len(live) + 1 /\ p.group \in 0 .. groups - 1
      /\ groups \in Nat \ {0}
  BY <1>1, LaunchType DEF PlaceOf, Halves, live, groups
<1>3. CASE LastGroup(p)
  <2>1. GroupAt(launch, p.serial + 1) = 0 /\ HalfAt(launch, p.serial + 1) = 1
        /\ ItemAt(launch, p.serial + 1) = ItemAt(launch, p.serial)
    <3>1. GroupAt(launch, p.serial) + 1 = launch.groups /\ HalfAt(launch, p.serial) = 0
      BY <1>1, <1>3 DEF LastGroup, groups
    <3>2. p.serial \in Nat /\ ItemAt(launch, p.serial) \in Nat
      BY <1>2, SerialNext
    <3> QED BY <3>1, <3>2, SerialNext
  <2>2. NextGroup(p) = [work |-> p.work, half |-> 1, group |-> 0, serial |-> p.serial + 1]
    BY <1>1, <1>2, <1>3 DEF NextGroup, Place
  <2> QED BY <1>1, <1>2, <2>1, <2>2 DEF IsStep, Placed, PlaceOf, Halves, live, groups
<1>4. CASE ~LastGroup(p)
  <2>1. GroupAt(launch, p.serial + 1) = p.group + 1 /\ HalfAt(launch, p.serial + 1) = p.half
        /\ ItemAt(launch, p.serial + 1) = ItemAt(launch, p.serial)
    BY <1>1, <1>2, <1>4, SerialNext DEF LastGroup, groups
  <2>2. NextGroup(p) = [work |-> p.work, half |-> p.half, group |-> p.group + 1, serial |-> p.serial + 1]
    BY <1>4 DEF NextGroup, Place
  <2>3. p.group + 1 \in 0 .. groups - 1
    BY <1>2, <1>4 DEF LastGroup
  <2> QED BY <1>1, <1>2, <2>1, <2>2, <2>3 DEF IsStep, Placed, PlaceOf, Halves, live, groups
<1> QED BY <1>3, <1>4

LEMMA FirstLiveStep ==
  ASSUME launch \in Launches, NEW w \in 1 .. Len(live) + 1, NEW s \in Nat,
         HalfAt(launch, s) = 0, GroupAt(launch, s) = 0, ItemAt(launch, s) = LiveBelow(launch, w)
  PROVE  /\ Placed(launch, FirstLive(w, s)) /\ Rowed(launch, FirstLive(w, s))
         /\ FirstLive(w, s).serial = s
<1> DEFINE later == {v \in w .. Len(live) : live[v]}
           f == IF later = {} THEN Len(live) + 1 ELSE CHOOSE v \in later : \A u \in later : v <= u
<1>1. Len(live) \in Nat /\ groups \in Nat \ {0}
  BY LaunchType DEF live, groups
<1>2. f \in w .. Len(live) + 1 /\ (f <= Len(live) => live[f]) /\ \A v \in w .. f - 1 : ~live[v]
  <2>1. CASE later = {}
    BY <1>1, <2>1
  <2>2. CASE later # {}
    <3>1. later \subseteq 1 .. Len(live)
      BY <1>1
    <3>2. \E v \in later : \A u \in later : v <= u
      <4> HIDE DEF later
      <4> QED BY <1>1, <2>2, <3>1, Least
    <3>3. f \in later /\ \A u \in later : f <= u
      <4> HIDE DEF later
      <4> QED BY <2>2, <3>2
    <3>4. f \in w .. Len(live) /\ live[f]
      BY <3>3
    <3> HIDE DEF f
    <3>5. ASSUME NEW v \in w .. f - 1 PROVE ~live[v]
      <4>1. v \in w .. Len(live) /\ ~(f <= v)
        BY <1>1, <3>4
      <4>2. v \notin later
        BY <3>3, <4>1
      <4> QED BY <4>1, <4>2
    <3> QED BY <1>1, <3>4, <3>5
  <2> QED BY <2>1, <2>2
<1>3. FirstLive(w, s) = [work |-> f, half |-> 0, group |-> 0, serial |-> s]
  BY DEF FirstLive, Place
<1> HIDE DEF f
<1>4. LiveSet(launch, f) = LiveSet(launch, w)
  BY <1>1, <1>2 DEF LiveSet, live
<1>5. LiveBelow(launch, f) = LiveBelow(launch, w)
  BY <1>4, LiveSetFinite
<1> QED BY <1>1, <1>2, <1>3, <1>5 DEF Placed, PlaceOf, Rowed, Halves, live, groups

LEMMA AdvanceStep ==
  ASSUME launch \in Launches, NEW p, IsStep(launch, p)
  PROVE  /\ Placed(launch, Advance(p)) /\ Rowed(launch, Advance(p))
         /\ Advance(p).serial = p.serial + 1
<1>1. CASE LastGroup(p) /\ p.half = 1
  <2>1. /\ p \in PlaceOf(launch) /\ p.half = HalfAt(launch, p.serial)
        /\ p.group = GroupAt(launch, p.serial) /\ LiveBelow(launch, p.work) = ItemAt(launch, p.serial)
        /\ p.work \in 1 .. Len(live) /\ live[p.work]
    BY DEF IsStep, Placed, PlaceOf, live
  <2>2. p.serial \in Nat
    BY <2>1 DEF PlaceOf
  <2>3. GroupAt(launch, p.serial + 1) = 0 /\ HalfAt(launch, p.serial + 1) = 0
        /\ ItemAt(launch, p.serial + 1) = ItemAt(launch, p.serial) + 1
    <3>1. GroupAt(launch, p.serial) + 1 = launch.groups /\ HalfAt(launch, p.serial) = 1
      BY <1>1, <2>1 DEF LastGroup, groups
    <3> QED BY <2>2, <3>1, SerialNext
  <2>4. LiveBelow(launch, p.work + 1) = LiveBelow(launch, p.work) + 1
    BY <2>1, LiveBelowNext DEF live
  <2>5. p.work + 1 \in 1 .. Len(live) + 1 /\ p.serial + 1 \in Nat
    BY <2>1, <2>2, LaunchType DEF live
  <2>6. Advance(p) = FirstLive(p.work + 1, p.serial + 1)
    BY <1>1 DEF Advance
  <2> QED BY <2>1, <2>3, <2>4, <2>5, <2>6, FirstLiveStep
<1>2. CASE ~(LastGroup(p) /\ p.half = 1)
  <2>1. Advance(p) = NextGroup(p)
    BY <1>2 DEF Advance
  <2>2. p.half \in {0, 1}
    BY DEF IsStep, Placed, PlaceOf, Halves
  <2>3. IsStep(launch, NextGroup(p)) /\ NextGroup(p).serial = p.serial + 1
    BY <1>2, <2>2, NextGroupStep
  <2> QED BY <2>1, <2>3 DEF IsStep, Rowed
<1> QED BY <1>1, <1>2

-----------------------------------------------------------------------------
(* Waiting: which serial a passed barrier vouches for.                     *)

\* A full barrier of a ring: y fillings have been made, x waits for its own.
LEMMA FullWait ==
  ASSUME NEW n \in Nat \ {0}, NEW x \in Nat, NEW y \in Nat, x <= y, NEW bar,
         bar.done = Fills(y, x % n, n), Passes(bar, (x \div n) % 2)
  PROVE  x < y
<1>1. CASE x = y
  <2>1. bar.done = x \div n
    BY <1>1, FillsAt
  <2> QED BY <2>1 DEF Passes
<1> QED BY <1>1

\* An empty barrier: y serials have given their entries back, and x, at most a
\* ring ahead, needs the entry of x - n.
LEMMA EmptyWait ==
  ASSUME NEW n \in Nat \ {0}, NEW x \in Nat, NEW y \in Nat, x <= y + n, NEW bar,
         bar.done = Fills(y, x % n, n),
         x >= n => Passes(bar, ((x \div n) - 1) % 2)
  PROVE  x < y + n
<1>1. CASE x = y + n
  <2>1. x % n \in 0 .. n - 1 /\ Fills(x, x % n, n) = x \div n
    BY FillsAt
  <2>2. Fills(y + n, x % n, n) = Fills(y, x % n, n) + 1 /\ Fills(y, x % n, n) \in Nat
    BY <2>1, FillsLap, FillsNext
  <2>3. bar.done = (x \div n) - 1
    BY <1>1, <2>1, <2>2
  <2> QED BY <1>1, <2>3 DEF Passes
<1> QED BY <1>1

\* The same where every member of S has to give the entry back.
LEMMA CountedWait ==
  ASSUME NEW S, IsFiniteSet(S), NEW D \in [S -> Nat], NEW n \in Nat \ {0}, NEW x \in Nat,
         \A v \in S : x <= D[v] + n, NEW bar,
         Counted(bar, S, [v \in S |-> Fills(D[v], x % n, n)]),
         x >= n => Passes(bar, ((x \div n) - 1) % 2)
  PROVE  \A v \in S : x < D[v] + n
<1> DEFINE k == x % n
           r == [v \in S |-> Fills(D[v], k, n)]
           T == {v \in S : r[v] = bar.done}
<1>1. k \in 0 .. n - 1 /\ Fills(x, k, n) = x \div n /\ x \div n \in Nat
  BY FillsAt
<1>2. \A v \in S : Fills(D[v], k, n) \in Nat /\ x \div n <= Fills(D[v], k, n) + 1
  <2> TAKE v \in S
  <2>1. Fills(x, k, n) <= Fills(D[v] + n, k, n)
    BY <1>1, FillsGrow
  <2> QED BY <1>1, <2>1, FillsLap, FillsNext
<1>3. /\ bar.done \in Nat /\ bar.left >= 1
      /\ \A v \in S : r[v] \in {bar.done, bar.done + 1}
      /\ bar.left = Cardinality(T)
  BY DEF Counted, Settled, BarrierType
<1> SUFFICES ASSUME NEW v \in S, x = D[v] + n PROVE FALSE
  BY <1>1
<1>4. Fills(D[v], k, n) + 1 = x \div n
  BY <1>1, FillsLap
<1>5. \E w \in S : r[w] = bar.done
  <2>1. T # {}
    <3>1. Cardinality(T) # 0
      <4> HIDE DEF T, r
      <4> QED BY <1>3
    <3>2. Cardinality({}) = 0
      BY FS_EmptySet
    <3> HIDE DEF T
    <3> QED BY ONLY <3>1, <3>2
  <2> QED BY <2>1
<1>6. bar.done = (x \div n) - 1
  <2>1. PICK w \in S : r[w] = bar.done
    BY <1>5
  <2>2. x \div n <= bar.done + 1 /\ r[v] + 1 = x \div n /\ r[v] \in {bar.done, bar.done + 1}
    BY <1>2, <1>3, <1>4, <2>1
  <2> QED BY <1>1, <1>3, <2>2
<1> QED BY <1>1, <1>6 DEF Passes

-----------------------------------------------------------------------------
(* Barriers.                                                               *)

LEMMA SingleArrive ==
  ASSUME NEW bar, NEW n \in Nat, Single(bar, n)
  PROVE  Single(Arrive(bar), n + 1)
BY DEF Single, Settled, Arrive, Settle, Barrier, BarrierType

LEMMA ArriveCases ==
  ASSUME NEW bar \in BarrierType, bar.tx = 0, bar.left >= 1
  PROVE  /\ bar.left = 1 => Arrive(bar) = Barrier(bar.count, bar.count, 0, bar.done + 1)
         /\ bar.left # 1 => Arrive(bar) = Barrier(bar.count, bar.left - 1, 0, bar.done)
BY DEF BarrierType, Barrier, Settle, Arrive

\* A member of S that is missing in the current phase arrives.
LEMMA CountedArrive ==
  ASSUME NEW S, IsFiniteSet(S), NEW bar, NEW r, NEW q, NEW x \in S,
         Counted(bar, S, r), r[x] = bar.done, q[x] = bar.done + 1,
         \A y \in S \ {x} : q[y] = r[y]
  PROVE  Counted(Arrive(bar), S, q)
<1> DEFINE T == {y \in S : r[y] = bar.done}
           U == {y \in S : q[y] = bar.done}
<1>1. /\ bar \in BarrierType /\ bar.done \in Nat /\ bar.count = Cardinality(S) /\ bar.tx = 0
      /\ bar.left >= 1 /\ bar.left = Cardinality(T) /\ bar.left \in Int /\ bar.count \in Nat
      /\ \A y \in S : r[y] \in {bar.done, bar.done + 1}
  BY DEF Counted, Settled, BarrierType
<1>2. U = T \ {x} /\ x \in T
  BY <1>1
<1>3. IsFiniteSet(T) /\ IsFiniteSet(U) /\ Cardinality(U) = bar.left - 1
  <2>1. IsFiniteSet(T)
    BY FS_Subset
  <2> QED BY <1>1, <1>2, <2>1, FS_RemoveElement
<1>4. \A y \in S : q[y] \in {bar.done, bar.done + 1}
  BY <1>1
<1>5. CASE bar.left = 1
  <2>1. U = {}
    BY <1>3, <1>5, FS_EmptySet
  <2>2. \A y \in S : q[y] = bar.done + 1
    BY <2>1, <1>4
  <2>3. Arrive(bar) = [count |-> bar.count, left |-> bar.count, tx |-> 0, done |-> bar.done + 1]
    BY <1>1, <1>5, ArriveCases DEF Barrier
  <2>4. {y \in S : q[y] = bar.done + 1} = S
    BY <2>2
  <2>5. Cardinality(S) >= 1
    BY <1>1, FS_EmptySet
  <2> HIDE DEF T, U
  <2> QED BY <2>2, <2>3, <2>4, <2>5, <1>1 DEF Counted, Settled, BarrierType
<1>6. CASE bar.left # 1
  <2>1. Arrive(bar) = [count |-> bar.count, left |-> bar.left - 1, tx |-> 0, done |-> bar.done]
    BY <1>1, <1>6, ArriveCases DEF Barrier
  <2> QED BY <2>1, <1>1, <1>3, <1>4, <1>6 DEF Counted, Settled, BarrierType
<1> QED BY <1>5, <1>6

-----------------------------------------------------------------------------
(* Where the rows of A are.                                                *)

LEMMA IndexRange ==
  ASSUME NEW l \in Launches, NEW s \in Nat
  PROVE  IndexAt(l, s) \in Rows /\ Keep(l) \in Nat /\ P <= Keep(l)
<1>1. l.groups \in Nat \ {0} /\ P \in Nat \ {0} /\ CachedGroups \in Nat /\ P <= CachedGroups
  BY LaunchType, Sizes
<1>2. s % l.groups \in 0 .. l.groups - 1 /\ s % P \in 0 .. P - 1
  BY <1>1, FillsAt
<1> QED BY <1>1, <1>2 DEF IndexAt, Keep, Rows, Cached

\* Two steps that load the same entry are as far apart as the entry is kept.
LEMMA IndexApart ==
  ASSUME NEW l \in Launches, NEW s \in Nat, NEW t \in Nat, s < t,
         LoadsAt(l, s), LoadsAt(l, t), IndexAt(l, s) = IndexAt(l, t)
  PROVE  s + Keep(l) <= t
<1>1. CASE ~Cached(l)
  BY <1>1, Sizes, Apart DEF IndexAt, Keep
<1>2. CASE Cached(l)
  <2>1. PICK n : n = l.groups
    OBVIOUS
  <2>2. n \in Nat \ {0} /\ s % n = t % n /\ (s \div n) % 2 = 0 /\ (t \div n) % 2 = 0
        /\ Keep(l) = 2 * n
    BY <1>2, <2>1, LaunchType DEF IndexAt, LoadsAt, HalfAt, Keep
  <2>3. PICK q, r : Split(s, n, q, r) /\ q = s \div n /\ r = s % n
    BY <2>2, SplitAt
  <2>4. PICK p, z : Split(t, n, p, z) /\ p = t \div n /\ z = t % n
    BY <2>2, SplitAt
  <2>5. /\ q \in Nat /\ r \in 0 .. n - 1 /\ s = q * n + r
        /\ p \in Nat /\ t = p * n + r /\ q % 2 = 0 /\ p % 2 = 0
    BY <2>2, <2>3, <2>4 DEF Split
  <2>6. CASE p <= q
    <3>1. PICK m \in Nat : q = p + m
      <4>1. q - p \in Nat /\ q = p + (q - p)
        BY <2>5, <2>6
      <4> QED BY <4>1
    <3>2. (p + m) * n = p * n + m * n /\ m * n \in Nat /\ p * n \in Nat
      BY <2>2, <2>5
    <3> QED BY <2>5, <3>1, <3>2
  <2>7. CASE q < p
    <3>1. p >= q + 2
      BY <2>5, <2>7
    <3>2. PICK m \in Nat : p = q + 2 + m
      <4>1. p - q - 2 \in Nat /\ p = q + 2 + (p - q - 2)
        BY <2>5, <3>1
      <4> QED BY <4>1
    <3>3. (q + 2 + m) * n = q * n + 2 * n + m * n /\ m * n \in Nat /\ q * n \in Nat
      BY <2>2, <2>5
    <3> QED BY <2>2, <2>5, <3>2, <3>3
  <2> QED BY <2>5, <2>6, <2>7
<1> QED BY <1>1, <1>2

\* The step that loads the rows step s reads: s itself, or its other half.
LEMMA Source ==
  ASSUME NEW l \in Launches, NEW s \in Nat
  PROVE  \E m \in 0 .. s : /\ LoadsAt(l, m) /\ IndexAt(l, m) = IndexAt(l, s)
                           /\ RowAt(l, m) = RowAt(l, s) /\ s + P <= m + Keep(l)
<1>1. CASE LoadsAt(l, s)
  BY <1>1, IndexRange, Sizes
<1>2. CASE ~LoadsAt(l, s)
  <2>1. Cached(l) /\ HalfAt(l, s) = 1
    BY <1>2, SerialNext DEF LoadsAt
  <2>2. PICK n : n = l.groups
    OBVIOUS
  <2>3. n \in Nat \ {0} /\ P <= n
    BY <2>1, <2>2, LaunchType, Sizes DEF Cached
  <2>4. PICK q, r : Split(s, n, q, r) /\ q = s \div n /\ r = s % n
    BY <2>3, SplitAt
  <2>5. q \in Nat /\ r \in 0 .. n - 1 /\ s = q * n + r /\ q % 2 = 1
    BY <2>1, <2>2, <2>4 DEF Split, HalfAt
  <2>6. PICK m \in Nat : q = m + 1
    <3>1. q - 1 \in Nat /\ q = (q - 1) + 1
      BY <2>5
    <3> QED BY <3>1
  <2>7. m % 2 = 0 /\ m \div 2 = q \div 2
    BY <2>5, <2>6
  <2>8. PICK z : z = m * n + r
    OBVIOUS
  <2>9. z \in Nat /\ z \div n = m /\ z % n = r
    BY ONLY <2>3, <2>5, <2>6, <2>8, Division
  <2>10. s = z + n
    <3>1. (m + 1) * n = m * n + n /\ m * n \in Nat
      BY <2>3
    <3> QED BY <2>3, <2>5, <2>6, <2>8, <3>1
  <2>11. GroupAt(l, z) = GroupAt(l, s) /\ HalfAt(l, z) = 0 /\ ItemAt(l, z) = ItemAt(l, s)
    BY <2>2, <2>4, <2>7, <2>9 DEF GroupAt, HalfAt, ItemAt
  <2>12. RowAt(l, z) = RowAt(l, s) /\ LoadsAt(l, z) /\ IndexAt(l, z) = IndexAt(l, s)
    BY <2>1, <2>11 DEF RowAt, WorkAt, LoadsAt, IndexAt, GroupAt
  <2>13. s + P <= z + Keep(l) /\ z \in 0 .. s
    BY <2>1, <2>2, <2>3, <2>9, <2>10, Sizes DEF Keep
  <2> QED BY <2>12, <2>13
<1> QED BY <1>1, <1>2

-----------------------------------------------------------------------------
(* The roles and their order.                                              *)

LEMMA Where ==
  ASSUME RoleInv, OrderInv, ConsumerInv
  PROVE  /\ launch \in Launches /\ 0 \in CTAs /\ 1 \in CTAs /\ Leader = 0
         /\ mma.serial \in Nat /\ Retired \in Nat /\ Retired <= mma.serial
         /\ Retired = mma.serial - Len(in_flight)
         /\ \A c \in CTAs :
              /\ tma[c].serial \in Nat /\ scaler[c].serial \in Nat
              /\ ~packed => gather[c].serial \in Nat
              /\ \A w \in Warps :
                   /\ consumer[c][w].serial \in Nat
                   /\ Done(c, w) \in Nat /\ Read(c, w) \in Nat
                   /\ Done(c, w) <= Read(c, w) /\ Read(c, w) <= Done(c, w) + 1
<1>1. Len(in_flight) \in Nat /\ mma.serial \in Nat
  BY DEF RoleInv, Placed, PlaceOf
<1>2. ASSUME NEW c \in CTAs, NEW w \in Warps
      PROVE  /\ consumer[c][w].serial \in Nat
             /\ Done(c, w) \in Nat /\ Read(c, w) \in Nat
             /\ Done(c, w) <= Read(c, w) /\ Read(c, w) <= Done(c, w) + 1
  <2>1. consumer[c][w].serial \in Nat
    BY DEF ConsumerInv, ConsumerOk, Placed, PlaceOf
  <2> QED BY <2>1 DEF Done, Read, DoneBy, ReadBy, Bit
<1> QED BY <1>1, <1>2 DEF RoleInv, OrderInv, Placed, PlaceOf, Retired, CTAs, Leader

\* A role that is in an item makes a step.
LEMMA InStep ==
  ASSUME NEW p, Placed(launch, p), Rowed(launch, p), InItem(p)
  PROVE  IsStep(launch, p)
BY DEF IsStep, Rowed, InItem, live

LEMMA TmaRole ==
  ASSUME RoleInv, OrderInv, ConsumerInv, OperandInv, NEW c \in CTAs, TmaIssue(c)
  PROVE  /\ IsStep(launch, tma[c]) /\ tma[c].serial < Retired + P
         /\ \A d \in CTAs : tma'[d] = IF d = c THEN Advance(tma[c]) ELSE tma[d]
         /\ Advance(tma[c]).serial = tma[c].serial + 1
         /\ RoleInv' /\ OrderInv'
<1> DEFINE p == tma[c]
           x == p.serial
<1>1. Placed(launch, p) /\ Rowed(launch, p) /\ InItem(p) /\ launch \in Launches
  BY DEF TmaIssue, RoleInv
<1>2. IsStep(launch, p)
  BY <1>1, InStep
<1>3. Placed(launch, Advance(p)) /\ Rowed(launch, Advance(p)) /\ Advance(p).serial = x + 1
  BY <1>1, <1>2, AdvanceStep
<1>4. x < Retired + P
  <2>1. x \in Nat /\ Retired \in Nat /\ x <= Retired + P
    BY Where DEF OrderInv
  <2>2. x % P \in Slots
    BY <2>1, Sizes, FillsAt DEF Slots
  <2>3. operand_empty[c][x % P].done = Fills(Retired, x % P, P)
    BY <2>2 DEF OperandInv, Single
  <2>4. x >= P => Passes(operand_empty[c][x % P], ((x \div P) - 1) % 2)
    BY DEF TmaIssue, OperandSlotFree, Slot, LastLap
  <2> HIDE DEF x
  <2> QED BY <2>1, <2>3, <2>4, Sizes, EmptyWait
<1>5. \A d \in CTAs : tma'[d] = IF d = c THEN Advance(p) ELSE tma[d]
  BY DEF TmaIssue, RoleInv
<1>6. UNCHANGED <<launch, gather, scaler, mma, in_flight, consumer, step, Retired>>
  BY DEF TmaIssue, matrix, consumers, Retired
<1> HIDE DEF p, x
<1>7. RoleInv'
  <2>1. tma' = [d \in CTAs |-> tma'[d]]
    BY DEF TmaIssue, RoleInv
  <2> QED BY <1>3, <1>5, <1>6, <2>1 DEF RoleInv, packed, InItem, live
<1>8. OrderInv'
  <2>1. \A d \in CTAs : mma.serial <= tma'[d].serial /\ tma'[d].serial <= Retired + P
    BY <1>3, <1>4, <1>5, Where, Sizes DEF OrderInv, p, x
  <2> QED BY <1>6, <2>1 DEF OrderInv, Read, Done, packed, Warps
<1> QED BY <1>2, <1>3, <1>4, <1>5, <1>7, <1>8 DEF p, x

LEMMA GatherRole ==
  ASSUME RoleInv, OrderInv, ConsumerInv, OperandInv, NEW c \in CTAs, Gather(c)
  PROVE  /\ ~packed /\ IsStep(launch, gather[c]) /\ gather[c].serial < Retired + P
         /\ \A d \in CTAs : gather'[d] = IF d = c THEN Advance(gather[c]) ELSE gather[d]
         /\ Advance(gather[c]).serial = gather[c].serial + 1
         /\ RoleInv' /\ OrderInv'
<1> DEFINE p == gather[c]
           x == p.serial
<1>1. ~packed /\ Placed(launch, p) /\ Rowed(launch, p) /\ InItem(p) /\ launch \in Launches
  BY DEF Gather, RoleInv
<1>2. IsStep(launch, p)
  BY <1>1, InStep
<1>3. Placed(launch, Advance(p)) /\ Rowed(launch, Advance(p)) /\ Advance(p).serial = x + 1
  BY <1>1, <1>2, AdvanceStep
<1>4. x < Retired + P
  <2>1. x \in Nat /\ Retired \in Nat /\ x <= Retired + P
    BY <1>1, Where DEF OrderInv
  <2>2. x % P \in Slots
    BY <2>1, Sizes, FillsAt DEF Slots
  <2>3. operand_empty[c][x % P].done = Fills(Retired, x % P, P)
    BY <2>2 DEF OperandInv, Single
  <2>4. x >= P => Passes(operand_empty[c][x % P], ((x \div P) - 1) % 2)
    BY DEF Gather, OperandSlotFree, Slot, LastLap
  <2> HIDE DEF x
  <2> QED BY <2>1, <2>3, <2>4, Sizes, EmptyWait
<1>5. \A d \in CTAs : gather'[d] = IF d = c THEN Advance(p) ELSE gather[d]
  BY DEF Gather, RoleInv
<1>6. UNCHANGED <<launch, tma, scaler, mma, in_flight, consumer, step, Retired>>
  BY DEF Gather, matrix, consumers, Retired
<1> HIDE DEF p, x
<1>7. RoleInv'
  <2>1. gather' = [d \in CTAs |-> gather'[d]]
    BY DEF Gather, RoleInv
  <2> QED BY <1>1, <1>3, <1>5, <1>6, <2>1 DEF RoleInv, packed, InItem, live
<1>8. OrderInv'
  <2>1. \A d \in CTAs : mma.serial <= gather'[d].serial /\ gather'[d].serial <= Retired + P
    <3> TAKE d \in CTAs
    <3>1. /\ mma.serial <= gather[d].serial /\ gather[d].serial <= Retired + P
          /\ mma.serial \in Nat /\ gather[d].serial \in Nat /\ Retired \in Nat
      BY <1>1, Where DEF OrderInv
    <3>2. CASE d = c
      BY <1>3, <1>4, <1>5, <3>1, <3>2, Sizes DEF p, x
    <3>3. CASE d # c
      BY <1>5, <3>1, <3>3
    <3> QED BY <3>2, <3>3
  <2> QED BY <1>6, <2>1 DEF OrderInv, Read, Done, packed, Warps
<1> QED BY <1>1, <1>2, <1>3, <1>4, <1>5, <1>7, <1>8 DEF p, x

LEMMA ScaleRole ==
  ASSUME RoleInv, OrderInv, ConsumerInv, ScaleInv, NEW c \in CTAs, ScaleStore(c)
  PROVE  /\ IsStep(launch, scaler[c]) /\ \A w \in Warps : scaler[c].serial < Done(c, w) + P
         /\ \A d \in CTAs : scaler'[d] = IF d = c THEN Advance(scaler[c]) ELSE scaler[d]
         /\ Advance(scaler[c]).serial = scaler[c].serial + 1
         /\ RoleInv' /\ OrderInv'
<1> DEFINE p == scaler[c]
           x == p.serial
<1>1. Placed(launch, p) /\ Rowed(launch, p) /\ InItem(p) /\ launch \in Launches
  BY DEF ScaleStore, RoleInv
<1>2. IsStep(launch, p)
  BY <1>1, InStep
<1>3. Placed(launch, Advance(p)) /\ Rowed(launch, Advance(p)) /\ Advance(p).serial = x + 1
  BY <1>1, <1>2, AdvanceStep
<1>4. \A w \in Warps : x < Done(c, w) + P
  <2> DEFINE D == [w \in Warps |-> Done(c, w)]
  <2>1. x \in Nat /\ D \in [Warps -> Nat] /\ \A w \in Warps : x <= D[w] + P
    BY Where DEF OrderInv
  <2>2. x % P \in Slots
    BY <2>1, Sizes, FillsAt DEF Slots
  <2>3. Counted(scale_empty[c][x % P], Warps, [w \in Warps |-> Fills(D[w], x % P, P)])
    <3>1. [w \in Warps |-> Fills(D[w], x % P, P)] = [w \in Warps |-> Fills(Done(c, w), x % P, P)]
      OBVIOUS
    <3> QED BY <2>2, <3>1 DEF ScaleInv
  <2>4. x >= P => Passes(scale_empty[c][x % P], ((x \div P) - 1) % 2)
    BY DEF ScaleStore, ScaleSlotFree, Slot, LastLap
  <2>5. IsFiniteSet(Warps)
    BY <1>1, LaunchType DEF Warps
  <2>6. \A w \in Warps : x < D[w] + P
    <3> HIDE DEF x, D
    <3> QED BY <2>1, <2>3, <2>4, <2>5, Sizes, CountedWait
  <2> QED BY <2>6
<1>5. \A d \in CTAs : scaler'[d] = IF d = c THEN Advance(p) ELSE scaler[d]
  BY DEF ScaleStore, RoleInv
<1>6. UNCHANGED <<launch, tma, gather, mma, in_flight, consumer, step, Retired>>
  BY DEF ScaleStore, matrix, consumers, Retired
<1> HIDE DEF p, x
<1>7. RoleInv'
  <2>1. scaler' = [d \in CTAs |-> scaler'[d]]
    BY DEF ScaleStore, RoleInv
  <2> QED BY <1>3, <1>5, <1>6, <2>1 DEF RoleInv, packed, InItem, live
<1>8. OrderInv'
  <2>1. \A d \in CTAs, w \in Warps :
          Read(d, w) <= scaler'[d].serial /\ scaler'[d].serial <= Done(d, w) + P
    <3> TAKE d \in CTAs, w \in Warps
    <3>1. /\ Read(d, w) <= scaler[d].serial /\ scaler[d].serial <= Done(d, w) + P
          /\ Read(d, w) \in Nat /\ scaler[d].serial \in Nat /\ Done(d, w) \in Nat
      BY Where DEF OrderInv
    <3>2. CASE d = c
      BY <1>3, <1>4, <1>5, <3>1, <3>2, Sizes DEF p, x
    <3>3. CASE d # c
      BY <1>5, <3>1, <3>3
    <3> QED BY <3>2, <3>3
  <2> QED BY <1>6, <2>1 DEF OrderInv, Read, Done, packed, Warps
<1> QED BY <1>2, <1>3, <1>4, <1>5, <1>7, <1>8 DEF p, x

\* The issuer finds its operands in both CTAs, and the accumulator given back.
LEMMA MmaRole ==
  ASSUME RoleInv, OrderInv, ConsumerInv, OperandInv, AccumulatorInv, MmaIssue
  PROVE  /\ IsStep(launch, mma) /\ mma' = Advance(mma) /\ Advance(mma).serial = mma.serial + 1
         /\ mma.serial \div P < operand_full[mma.serial % P].done
         /\ \A c \in CTAs, w \in Warps : mma.serial < Done(c, w) + Buffers
         /\ Retired' = Retired
         /\ RoleInv' /\ OrderInv'
<1> DEFINE p == mma
           x == p.serial
           k == x % P
           d == operand_full[k].done
<1>1. Placed(launch, p) /\ Rowed(launch, p) /\ InItem(p) /\ launch \in Launches
  BY DEF MmaIssue, RoleInv
<1>2. IsStep(launch, p)
  BY <1>1, InStep
<1>3. Placed(launch, Advance(p)) /\ Rowed(launch, Advance(p)) /\ Advance(p).serial = x + 1
  BY <1>1, <1>2, AdvanceStep
<1>4. x \in Nat /\ Retired \in Nat /\ k \in Slots
  BY Where, Sizes, FillsAt DEF Slots
<1>5. /\ d \in Nat /\ Fills(x, k, P) <= d /\ Fills(x, k, P) = x \div P /\ x \div P \in Nat
      /\ \A c \in CTAs : d <= Fills(tma[c].serial, k, P)
                         /\ (~packed => d <= Fills(gather[c].serial, k, P))
  BY <1>4, Sizes, FillsAt DEF OperandInv, FullOk, BarrierType, packed
<1>6. x \div P < d
  <2>1. Passes(operand_full[k], (x \div P) % 2)
    BY DEF MmaIssue, ThisLap, Slot
  <2>2. d # x \div P
    BY <2>1 DEF Passes
  <2> HIDE DEF k, x, d
  <2> QED BY <1>5, <2>2
<1>7. \A c \in CTAs : x < tma[c].serial /\ (~packed => x < gather[c].serial)
  <2> SUFFICES ASSUME NEW c \in CTAs PROVE x < tma[c].serial /\ (~packed => x < gather[c].serial)
    OBVIOUS
  <2>1. tma[c].serial \in Nat /\ (~packed => gather[c].serial \in Nat)
    BY Where
  <2>2. \A t \in Nat : d <= Fills(t, k, P) => x < t
    <3> SUFFICES ASSUME NEW t \in Nat, d <= Fills(t, k, P) PROVE x < t
      OBVIOUS
    <3>1. k \in 0 .. P - 1 /\ Fills(t, k, P) \in Nat
      BY <1>4, Sizes, FillsNext DEF Slots
    <3> HIDE DEF k, x, d
    <3>2. Fills(x, k, P) < Fills(t, k, P)
      BY <1>5, <1>6, <3>1
    <3> QED BY <1>4, <3>1, <3>2, Sizes, FillsLess
  <2> HIDE DEF k, x, d
  <2> QED BY <1>5, <2>1, <2>2
<1>8. \A c \in CTAs, w \in Warps : x < Done(c, w) + Buffers
  <2> DEFINE S == CTAs \X Warps
             D == [v \in S |-> Done(v[1], v[2])]
             j == x % Buffers
  <2>1. D \in [S -> Nat] /\ \A v \in S : x <= D[v] + Buffers
    BY <1>4, Where DEF OrderInv
  <2>2. j \in Accumulators
    BY <1>4, Sizes, FillsAt DEF Accumulators
  <2>3. Counted(accumulator_empty[j], S, [v \in S |-> Fills(D[v], j, Buffers)])
    <3>1. [v \in S |-> Fills(D[v], j, Buffers)] = [v \in S |-> Fills(Done(v[1], v[2]), j, Buffers)]
      OBVIOUS
    <3> QED BY <2>2, <3>1 DEF AccumulatorInv
  <2>4. x >= Buffers => Passes(accumulator_empty[j], ((x \div Buffers) - 1) % 2)
    BY DEF MmaIssue, AccumulatorFree, Buffer, LastLap
  <2>5. IsFiniteSet(S)
    <3>1. CTAs = 0 .. 1
      BY DEF CTAs
    <3>2. IsFiniteSet(0 .. 1)
      BY ONLY 0 \in Int, 1 \in Int, FS_Interval
    <3>3. IsFiniteSet(Warps)
      BY <1>1, LaunchType DEF Warps
    <3> QED BY <3>1, <3>2, <3>3, FS_Product
  <2>6. \A v \in S : x < D[v] + Buffers
    <3> HIDE DEF x, D, S
    <3> QED BY <1>4, <2>1, <2>3, <2>4, <2>5, Sizes, CountedWait DEF j
  <2>7. \A c \in CTAs, w \in Warps : <<c, w>> \in S /\ D[<<c, w>>] = Done(c, w)
    OBVIOUS
  <2> HIDE DEF D, S
  <2> QED BY <2>6, <2>7
<1>9. UNCHANGED <<launch, tma, gather, scaler, consumer, step>>
      /\ mma' = Advance(p) /\ in_flight' = Append(in_flight, p)
  BY DEF MmaIssue, producers, consumers
<1>10. in_flight \in Seq(PlaceOf(launch)) /\ p \in PlaceOf(launch)
  BY <1>1 DEF RoleInv, Placed
<1>11. Len(in_flight') = Len(in_flight) + 1 /\ Retired' = Retired
  <2>1. mma'.serial = x + 1
    BY <1>3, <1>9
  <2> QED BY <1>4, <1>9, <1>10, <2>1 DEF Retired
<1> HIDE DEF p, x, k, d
<1>12. RoleInv'
  <2>1. in_flight' \in Seq(PlaceOf(launch))
    BY <1>9, <1>10
  <2>2. ASSUME NEW i \in 1 .. Len(in_flight')
        PROVE  IsStep(launch, in_flight'[i]) /\ in_flight'[i].serial = Retired + i - 1
    <3>1. CASE i = Len(in_flight) + 1
      BY <1>2, <1>4, <1>9, <1>10, <3>1 DEF Retired, p, x
    <3>2. CASE i # Len(in_flight) + 1
      BY <1>9, <1>10, <1>11, <3>2 DEF RoleInv
    <3> QED BY <3>1, <3>2
  <2> QED BY <1>3, <1>9, <1>11, <2>1, <2>2 DEF RoleInv, packed, InItem, live
<1>13. OrderInv'
  <2>1. mma'.serial = x + 1
    BY <1>3, <1>9
  <2>2. \A c \in CTAs : mma'.serial <= tma[c].serial /\ (~packed => mma'.serial <= gather[c].serial)
    BY <1>4, <1>7, <2>1, Where
  <2>3. \A c \in CTAs, w \in Warps : mma'.serial <= Done(c, w) + Buffers
    BY <1>4, <1>8, <2>1, Where, Sizes
  <2> QED BY <1>9, <1>11, <2>2, <2>3 DEF OrderInv, Read, Done, packed, Warps
<1> QED BY <1>2, <1>3, <1>6, <1>8, <1>9, <1>11, <1>12, <1>13 DEF p, x, k, d

LEMMA RetireRole ==
  ASSUME RoleInv, OrderInv, ConsumerInv, MmaRetire
  PROVE  /\ IsStep(launch, Head(in_flight)) /\ Head(in_flight).serial = Retired
         /\ Retired' = Retired + 1 /\ Retired < mma.serial
         /\ RoleInv' /\ OrderInv'
<1>1. /\ in_flight \in Seq(PlaceOf(launch)) /\ in_flight # <<>>
      /\ in_flight' = Tail(in_flight)
      /\ UNCHANGED <<launch, tma, gather, scaler, mma, consumer, step>>
  BY DEF MmaRetire, RoleInv, producers, consumers
<1>2. /\ Len(in_flight) \in Nat \ {0} /\ Head(in_flight) = in_flight[1]
      /\ Tail(in_flight) \in Seq(PlaceOf(launch)) /\ Len(Tail(in_flight)) = Len(in_flight) - 1
      /\ \A i \in 1 .. Len(in_flight) - 1 : Tail(in_flight)[i] = in_flight[i + 1]
  BY <1>1
<1>3. Retired' = Retired + 1 /\ Retired < mma.serial /\ Retired \in Nat
  BY <1>1, <1>2, Where DEF Retired
<1>4. IsStep(launch, Head(in_flight)) /\ Head(in_flight).serial = Retired
  <2>1. 1 \in 1 .. Len(in_flight)
    BY <1>2
  <2>2. IsStep(launch, in_flight[1]) /\ in_flight[1].serial = Retired + 1 - 1
    BY <2>1 DEF RoleInv
  <2> QED BY <1>2, <1>3, <2>2
<1>5. RoleInv'
  <2>1. ASSUME NEW i \in 1 .. Len(in_flight')
        PROVE  IsStep(launch, in_flight'[i]) /\ in_flight'[i].serial = Retired' + i - 1
    <3>1. i + 1 \in 1 .. Len(in_flight) /\ in_flight'[i] = in_flight[i + 1]
      BY <1>1, <1>2
    <3>2. IsStep(launch, in_flight[i + 1]) /\ in_flight[i + 1].serial = Retired + (i + 1) - 1
      BY <3>1 DEF RoleInv
    <3> QED BY <1>3, <3>1, <3>2
  <2> QED BY <1>1, <1>2, <2>1 DEF RoleInv, packed, InItem, live
<1>6. OrderInv'
  <2>1. \A c \in CTAs :
          /\ tma[c].serial <= Retired' + P
          /\ ~packed => gather[c].serial <= Retired' + P
          /\ \A w \in Warps : Read(c, w) <= Retired'
    BY <1>3, Where, Sizes DEF OrderInv
  <2>2. Retired' \in Nat
    BY <1>3
  <2> QED BY <1>1, <2>1, <2>2 DEF OrderInv, Read, Done, packed, Warps
<1> QED BY <1>3, <1>4, <1>5, <1>6

-----------------------------------------------------------------------------
(* What entries hold, and barriers that members arrive on one by one.      *)

\* Entry x % n is written; it was not in use for any step below upto.
LEMMA HoldsStep ==
  ASSUME NEW l, NEW n \in Nat \ {0}, NEW u \in Nat, NEW v \in Nat, NEW m \in Nat, NEW z \in Nat,
         NEW x \in Nat, NEW buf, NEW new, Holds(l, n, u, m, buf),
         m <= z, u <= x, x < z, v \in {u, u + 1},
         v = u + 1 => x = u /\ new[x % n] = TagAt(l, x),
         \A k \in 0 .. n - 1 : k # x % n => new[k] = buf[k]
  PROVE  Holds(l, n, v, z, new)
<1> SUFFICES ASSUME NEW s \in 0 .. v - 1, z <= s + n PROVE new[s % n] = TagAt(l, s)
  BY DEF Holds
<1>1. CASE s = u
  BY <1>1
<1>2. CASE s # u
  <2>1. s \in 0 .. u - 1 /\ m <= s + n /\ s < x /\ ~(s + n <= x) /\ s \in Nat
    BY <1>2
  <2>2. s % n # x % n
    BY ONLY <2>1, Apart, n \in Nat \ {0}, x \in Nat
  <2>3. s % n \in 0 .. n - 1
    BY <2>1, FillsAt
  <2> QED BY <2>1, <2>2, <2>3 DEF Holds
<1> QED BY <1>1, <1>2

\* A function of two arguments with one value replaced.
LEMMA Grid ==
  ASSUME NEW S, NEW T, NEW F, OnGrid(F, S, T),
         NEW c \in S, NEW j \in T, NEW v, NEW G, Replaced(G, F, c, j, v)
  PROVE  /\ OnGrid(G, S, T)
         /\ \A d \in S, k \in T : G[d][k] = IF d = c /\ k = j THEN v ELSE F[d][k]
<1>1. G = [d \in S |-> IF d = c THEN [F[c] EXCEPT ![j] = v] ELSE F[d]]
  BY DEF OnGrid, Replaced
<1>2. \A d \in S : F[d] = [k \in T |-> F[d][k]]
  BY DEF OnGrid
<1>3. \A d \in S : G[d] = [k \in T |-> IF d = c /\ k = j THEN v ELSE F[d][k]]
  <2> TAKE d \in S
  <2>1. CASE d = c
    <3>1. G[d] = [F[c] EXCEPT ![j] = v] /\ F[c] = [k \in T |-> F[c][k]]
      BY <1>1, <1>2, <2>1
    <3> QED BY ONLY <2>1, <3>1, j \in T
  <2>2. CASE d # c
    <3>1. G[d] = F[d] /\ F[d] = [k \in T |-> F[d][k]]
      BY <1>1, <1>2, <2>2
    <3> QED BY ONLY <2>2, <3>1
  <2> QED BY <2>1, <2>2
<1>4. \A d \in S, k \in T : G[d][k] = IF d = c /\ k = j THEN v ELSE F[d][k]
  BY ONLY <1>3
<1>5. \A d \in S : G[d] = [k \in T |-> G[d][k]]
  <2> TAKE d \in S
  <2>1. G[d] = [k \in T |-> IF d = c /\ k = j THEN v ELSE F[d][k]]
    BY <1>3
  <2> QED BY ONLY <2>1
<1>6. G = [d \in S |-> G[d]]
  BY ONLY <1>1
<1>7. G = [d \in S |-> [k \in T |-> G[d][k]]]
  BY ONLY <1>5, <1>6
<1> QED BY <1>4, <1>7 DEF OnGrid

LEMMA Behind ==
  ASSUME NEW n \in Nat \ {0}, NEW x \in Nat, NEW y \in Nat, x < y + n
  PROVE  x \div n <= Fills(y, x % n, n)
<1> DEFINE k == x % n
<1>1. k \in 0 .. n - 1 /\ Fills(x, k, n) = x \div n /\ x \div n \in Nat
  BY FillsAt
<1>2. Fills(x + 1, k, n) = x \div n + 1
  BY <1>1, FillsNext
<1>3. Fills(x + 1, k, n) <= Fills(y + n, k, n)
  BY <1>1, FillsGrow
<1>4. Fills(y + n, k, n) = Fills(y, k, n) + 1 /\ Fills(y, k, n) \in Nat
  BY <1>1, FillsLap, FillsNext
<1> HIDE DEF k
<1>5. x \div n <= Fills(y, k, n)
  BY <1>1, <1>2, <1>3, <1>4
<1> QED BY <1>5 DEF k

\* The barriers of a ring count whose serial D has gone past their entries; w,
\* at s, gives its entry back, and nobody is a ring behind.
RingCounted(bars, S, D, n) ==
  \A k \in 0 .. n - 1 : Counted(bars[k], S, [v \in S |-> Fills(D[v], k, n)])
RingArrive(new, bars, n, s) ==
  \A k \in 0 .. n - 1 : new[k] = IF k = s % n THEN Arrive(bars[k]) ELSE bars[k]
Releases(D, E, S, w, s, n) ==
  /\ D \in [S -> Nat] /\ w \in S /\ s \in Nat /\ D[w] = s /\ E[w] = s + 1
  /\ \A v \in S \ {w} : E[v] = D[v]
  /\ \A v \in S : s < D[v] + n

LEMMA CountedRelease ==
  ASSUME NEW S, IsFiniteSet(S), NEW D, NEW E, NEW w, NEW n \in Nat \ {0}, NEW s,
         Releases(D, E, S, w, s, n), NEW bars, NEW new, RingCounted(bars, S, D, n),
         RingArrive(new, bars, n, s)
  PROVE  RingCounted(new, S, E, n)
<1>0. /\ D \in [S -> Nat] /\ w \in S /\ s \in Nat /\ D[w] = s /\ E[w] = s + 1
      /\ \A v \in S \ {w} : E[v] = D[v]
      /\ \A v \in S : s < D[v] + n
  BY DEF Releases
<1> SUFFICES ASSUME NEW k \in 0 .. n - 1
             PROVE  Counted(new[k], S, [v \in S |-> Fills(E[v], k, n)])
  BY DEF RingCounted
<1> DEFINE bar == bars[k]
           r == [v \in S |-> Fills(D[v], k, n)]
           q == [v \in S |-> Fills(E[v], k, n)]
<1>1. \A v \in S \ {w} : q[v] = r[v]
  BY <1>0
<1>c. Counted(bar, S, r) /\ new[k] = IF k = s % n THEN Arrive(bar) ELSE bar
  BY DEF RingCounted, RingArrive
<1>2. CASE k # s % n
  <2>1. q[w] = r[w]
    BY <1>0, <1>2, FillsNext
  <2>2. q = r
    BY <1>0, <1>1, <2>1
  <2> QED BY <1>2, <1>c, <2>2
<1>3. CASE k = s % n
  <2>1. r[w] = s \div n /\ q[w] = r[w] + 1 /\ s \div n \in Nat
    <3>1. Fills(s, k, n) = s \div n /\ s \div n \in Nat
      BY <1>0, <1>3, FillsAt
    <3>2. Fills(s + 1, k, n) = Fills(s, k, n) + 1
      BY <1>0, <1>3, FillsNext
    <3>3. r[w] = Fills(s, k, n) /\ q[w] = Fills(s + 1, k, n)
      BY <1>0
    <3> QED BY <3>1, <3>2, <3>3
  <2>2. \A v \in S : s \div n <= r[v]
    BY <1>0, <1>3, Behind
  <2>3. r[w] = bar.done
    <3> DEFINE T == {v \in S : r[v] = bar.done}
    <3>1. /\ bar.done \in Nat /\ bar.left >= 1 /\ bar.left = Cardinality(T)
          /\ \A v \in S : r[v] \in {bar.done, bar.done + 1}
      BY <1>c DEF Counted, Settled, BarrierType
    <3>2. T # {}
      <4>1. Cardinality(T) # 0
        <5> HIDE DEF T, r, bar
        <5> QED BY <3>1
      <4>2. Cardinality({}) = 0
        BY FS_EmptySet
      <4> HIDE DEF T
      <4> QED BY ONLY <4>1, <4>2
    <3>3. PICK v \in S : r[v] = bar.done
      BY <3>2
    <3>4. s \div n <= bar.done /\ r[w] \in {bar.done, bar.done + 1}
      BY <1>0, <2>2, <3>1, <3>3
    <3> HIDE DEF r, bar
    <3> QED BY <2>1, <3>1, <3>4
  <2>4. Counted(bar, S, r)
    BY <1>c
  <2>5. q[w] = bar.done + 1
    BY <2>1, <2>3
  <2> HIDE DEF r, q, bar
  <2>6. Counted(Arrive(bar), S, q)
    BY ONLY <1>0, <1>1, <2>3, <2>4, <2>5, CountedArrive, IsFiniteSet(S)
  <2> QED BY <1>3, <1>c, <2>6 DEF q, bar
<1> QED BY <1>2, <1>3

-----------------------------------------------------------------------------
(* The scale ring and the accumulators.                                    *)

LEMMA ScaleStoreScale ==
  ASSUME RoleInv, OrderInv, ConsumerInv, ScaleInv, NEW c \in CTAs, ScaleStore(c)
  PROVE  ScaleInv'
<1> DEFINE p == scaler[c]
           x == p.serial
<1>1. /\ launch \in Launches /\ x \in Nat /\ x % P \in Slots /\ P \in Nat \ {0}
      /\ IsStep(launch, p) /\ scaler'[c].serial = x + 1
      /\ \A d \in CTAs \ {c} : scaler'[d] = scaler[d]
  BY ScaleRole, Where, Sizes, FillsAt DEF Slots
<1>2. /\ UNCHANGED <<launch, scale_empty, consumer, step>>
      /\ scale' = [scale EXCEPT ![c][Slot(p)] = Tag(p)]
      /\ scale_full' = [scale_full EXCEPT ![c][Slot(p)] = Arrive(@)]
      /\ Slot(p) = x % P
  BY DEF ScaleStore, consumers, Slot
<1>3. /\ OnGrid(scale_full', CTAs, Slots)
      /\ \A d \in CTAs, k \in Slots : scale_full'[d][k] =
           IF d = c /\ k = x % P THEN Arrive(scale_full[c][x % P]) ELSE scale_full[d][k]
  <2>1. Replaced(scale_full', scale_full, c, x % P, Arrive(scale_full[c][x % P]))
    BY <1>2 DEF Replaced
  <2>2. OnGrid(scale_full, CTAs, Slots)
    BY DEF ScaleInv
  <2> HIDE DEF x
  <2> QED BY ONLY <1>1, <2>1, <2>2, Grid
<1>4. /\ OnGrid(scale', CTAs, Slots)
      /\ \A d \in CTAs, k \in Slots :
           scale'[d][k] = IF d = c /\ k = x % P THEN Tag(p) ELSE scale[d][k]
  <2>1. Replaced(scale', scale, c, x % P, Tag(p))
    BY <1>2 DEF Replaced
  <2>2. OnGrid(scale, CTAs, Slots)
    BY DEF ScaleInv
  <2> HIDE DEF x, p
  <2> QED BY ONLY <1>1, <2>1, <2>2, Grid
<1>5. TagAt(launch, x) = Tag(p)
  BY <1>1, TagOf
<1> HIDE DEF p, x
<1>6. ASSUME NEW d \in CTAs, NEW k \in Slots
      PROVE  Single(scale_full'[d][k], Fills(scaler'[d].serial, k, P))
  <2>1. Single(scale_full[d][k], Fills(scaler[d].serial, k, P))
    BY DEF ScaleInv
  <2>2. CASE d = c
    <3>1. /\ Fills(x, k, P) \in Nat
          /\ Fills(x + 1, k, P) = IF k = x % P THEN Fills(x, k, P) + 1 ELSE Fills(x, k, P)
      BY <1>1, FillsNext DEF Slots
    <3> QED BY <1>1, <1>3, <2>1, <2>2, <3>1, SingleArrive DEF p, x
  <2>3. CASE d # c
    BY <1>1, <1>3, <2>1, <2>3
  <2> QED BY <2>2, <2>3
<1>7. ASSUME NEW d \in CTAs
      PROVE  Holds(launch, P, scaler'[d].serial, scaler'[d].serial, scale'[d])
  <2>1. Holds(launch, P, scaler[d].serial, scaler[d].serial, scale[d])
    BY DEF ScaleInv
  <2>2. CASE d = c
    <3>1. scale'[c][x % P] = TagAt(launch, x)
          /\ \A k \in 0 .. P - 1 : k # x % P => scale'[c][k] = scale[c][k]
      BY <1>1, <1>4, <1>5 DEF Slots
    <3>2. Holds(launch, P, x, x, scale[c])
      BY <2>1, <2>2 DEF p, x
    <3>3. x \in Nat /\ x + 1 \in Nat /\ x <= x + 1 /\ x <= x /\ x < x + 1 /\ x + 1 \in {x, x + 1}
      BY <1>1
    <3>4. Holds(launch, P, x + 1, x + 1, scale'[c])
      BY ONLY <1>1, <3>1, <3>2, <3>3, HoldsStep
    <3> QED BY <1>1, <2>2, <3>4 DEF p, x
  <2>3. CASE d # c
    <3>1. scale'[d] = [k \in Slots |-> scale[d][k]] /\ scale[d] = [k \in Slots |-> scale[d][k]]
      BY <1>4, <2>3 DEF ScaleInv, OnGrid
    <3>2. scaler'[d] = scaler[d]
      BY <1>1, <2>3
    <3> QED BY <2>1, <3>1, <3>2
  <2> QED BY <2>2, <2>3
<1>8. \A d \in CTAs, k \in Slots :
        Counted(scale_empty[d][k], Warps, [w \in Warps |-> Fills(Done(d, w), k, P)])'
  BY <1>2 DEF ScaleInv, Done, Warps
<1>9. OnGrid(scale_empty', CTAs, Slots)
  BY <1>2 DEF ScaleInv
<1> QED BY <1>2, <1>3, <1>4, <1>6, <1>7, <1>8, <1>9 DEF ScaleInv

LEMMA MmaIssueAccumulator ==
  ASSUME RoleInv, OrderInv, ConsumerInv, OperandInv, AccumulatorInv, MmaIssue
  PROVE  AccumulatorInv'
<1> DEFINE x == mma.serial
           j == x % Buffers
<1>1. /\ x \in Nat /\ j \in Accumulators /\ Buffers \in Nat \ {0} /\ mma'.serial = x + 1
      /\ Retired' = Retired /\ Retired \in Nat /\ Retired <= x
  BY MmaRole, Where, Sizes, FillsAt DEF Accumulators
<1>2. /\ UNCHANGED <<launch, accumulator_full, accumulator_empty, consumer, step>>
      /\ tmem' = [c \in CTAs |-> [tmem[c] EXCEPT ![j] = Garbage]]
  BY DEF MmaIssue, barriers, consumers, Buffer
<1>3. /\ \A c \in CTAs, i \in Accumulators : i # j => tmem'[c][i] = tmem[c][i]
      /\ OnGrid(tmem', CTAs, Accumulators)
  BY <1>1, <1>2 DEF AccumulatorInv, OnGrid
<1> HIDE DEF x, j
<1>4. ASSUME NEW c \in CTAs PROVE Holds(launch, Buffers, Retired, mma'.serial, tmem'[c])
  <2>1. Holds(launch, Buffers, Retired, x, tmem[c])
    BY DEF AccumulatorInv, x
  <2>2. \A i \in 0 .. Buffers - 1 : i # x % Buffers => tmem'[c][i] = tmem[c][i]
    BY <1>3 DEF j, Accumulators
  <2>3. x + 1 \in Nat /\ x <= x + 1 /\ x < x + 1 /\ Retired \in {Retired, Retired + 1}
        /\ ~(Retired = Retired + 1)
    BY <1>1
  <2>4. Holds(launch, Buffers, Retired, x + 1, tmem'[c])
    BY ONLY <1>1, <2>1, <2>2, <2>3, HoldsStep
  <2> QED BY <1>1, <2>4
<1> QED BY <1>1, <1>2, <1>3, <1>4 DEF AccumulatorInv, Done, Warps

LEMMA ScaleFrame ==
  ASSUME ScaleInv, UNCHANGED <<launch, scale_full, scale_empty, scale, scaler>>,
         \A c \in CTAs, w \in Warps : Done(c, w)' = Done(c, w)
  PROVE  ScaleInv'
<1>1. Warps' = Warps
  BY DEF Warps
<1>2. ASSUME NEW c \in CTAs, NEW k \in Slots
      PROVE  Counted(scale_empty[c][k], Warps, [w \in Warps |-> Fills(Done(c, w), k, P)])'
  <2>1. Counted(scale_empty[c][k], Warps, [w \in Warps |-> Fills(Done(c, w), k, P)])
    BY DEF ScaleInv
  <2>2. [w \in Warps |-> Fills(Done(c, w), k, P)]' = [w \in Warps |-> Fills(Done(c, w), k, P)]
    BY <1>1
  <2> QED BY <1>1, <2>1, <2>2
<1> QED BY <1>2 DEF ScaleInv

LEMMA AccumulatorFrame ==
  ASSUME AccumulatorInv, UNCHANGED <<launch, accumulator_full, accumulator_empty, tmem, mma, in_flight>>,
         \A c \in CTAs, w \in Warps : Done(c, w)' = Done(c, w)
  PROVE  AccumulatorInv'
<1>1. Warps' = Warps /\ Retired' = Retired
  BY DEF Warps, Retired
<1>2. ASSUME NEW j \in Accumulators
      PROVE  Counted(accumulator_empty[j], CTAs \X Warps,
                     [x \in CTAs \X Warps |-> Fills(Done(x[1], x[2]), j, Buffers)])'
  <2>1. Counted(accumulator_empty[j], CTAs \X Warps,
                [x \in CTAs \X Warps |-> Fills(Done(x[1], x[2]), j, Buffers)])
    BY DEF AccumulatorInv
  <2>2. [x \in CTAs \X Warps |-> Fills(Done(x[1], x[2]), j, Buffers)]'
        = [x \in CTAs \X Warps |-> Fills(Done(x[1], x[2]), j, Buffers)]
    BY <1>1
  <2> QED BY <1>1, <2>1, <2>2
<1> QED BY <1>1, <1>2 DEF AccumulatorInv

LEMMA OperandFrame ==
  ASSUME OperandInv, UNCHANGED <<launch, operand_full, operand_empty, a, b, tma, gather, mma, in_flight>>
  PROVE  OperandInv'
<1>1. Retired' = Retired /\ \A c \in CTAs : LoaderA(c)' = LoaderA(c)
  BY DEF Retired, LoaderA, packed
<1> QED BY <1>1 DEF OperandInv

LEMMA RoleFrame ==
  ASSUME RoleInv, UNCHANGED <<launch, tma, gather, scaler, mma, in_flight>>
  PROVE  RoleInv'
BY DEF RoleInv, Retired, packed, InItem, live

LEMMA OrderFrame ==
  ASSUME OrderInv, UNCHANGED <<launch, tma, gather, scaler, mma, in_flight>>,
         \A c \in CTAs, w \in Warps : Done(c, w)' = Done(c, w) /\ Read(c, w)' = Read(c, w)
  PROVE  OrderInv'
<1>1. Retired' = Retired /\ packed' = packed /\ Warps' = Warps
  BY DEF Retired, packed, Warps
<1> QED BY <1>1 DEF OrderInv

LEMMA ConsumerFrame ==
  ASSUME ConsumerInv, UNCHANGED <<launch, consumers, freed>>
  PROVE  ConsumerInv'
BY DEF ConsumerInv, consumers, Warps, InItem, live

LEMMA RetireAccumulator ==
  ASSUME RoleInv, OrderInv, ConsumerInv, AccumulatorInv, MmaRetire, ReadsOwn(Head(in_flight))
  PROVE  AccumulatorInv'
<1> DEFINE p == Head(in_flight)
           x == Retired
           j == x % Buffers
<1>1. /\ x \in Nat /\ j \in Accumulators /\ Buffers \in Nat \ {0} /\ launch \in Launches
      /\ mma.serial \in Nat /\ x < mma.serial /\ Retired' = x + 1
      /\ IsStep(launch, p) /\ p.serial = x
  BY RetireRole, Where, Sizes, FillsAt DEF Accumulators
<1>2. /\ UNCHANGED <<launch, mma, accumulator_empty, consumer, step>>
      /\ tmem' = [c \in CTAs |-> [tmem[c] EXCEPT ![j] = Tag(p)]]
      /\ accumulator_full' = [c \in CTAs |-> [accumulator_full[c] EXCEPT ![j] = Arrive(@)]]
  BY <1>1 DEF MmaRetire, consumers, Buffer, Product
<1>3. TagAt(launch, x) = Tag(p)
  BY <1>1, TagOf
<1> HIDE DEF p, x, j
<1>4. /\ OnGrid(tmem', CTAs, Accumulators)
      /\ \A c \in CTAs, i \in Accumulators : tmem'[c][i] = IF i = j THEN Tag(p) ELSE tmem[c][i]
  BY <1>1, <1>2 DEF AccumulatorInv, OnGrid
<1>5. /\ OnGrid(accumulator_full', CTAs, Accumulators)
      /\ \A c \in CTAs, i \in Accumulators : accumulator_full'[c][i] =
           IF i = j THEN Arrive(accumulator_full[c][i]) ELSE accumulator_full[c][i]
  BY <1>1, <1>2 DEF AccumulatorInv, OnGrid
<1>6. ASSUME NEW c \in CTAs PROVE Holds(launch, Buffers, x + 1, mma.serial, tmem'[c])
  <2>0. PICK m, buf, new : m = mma.serial /\ buf = tmem[c] /\ new = tmem'[c]
    OBVIOUS
  <2>1. Holds(launch, Buffers, x, m, buf)
    BY <2>0 DEF AccumulatorInv, x
  <2>2. /\ \A i \in 0 .. Buffers - 1 : i # x % Buffers => new[i] = buf[i]
        /\ new[x % Buffers] = TagAt(launch, x)
    BY <1>1, <1>3, <1>4, <2>0 DEF j, Accumulators
  <2>3. /\ x \in Nat /\ m \in Nat /\ x + 1 \in Nat /\ Buffers \in Nat \ {0}
        /\ m <= m /\ x <= x /\ x < m /\ x + 1 \in {x, x + 1}
    BY <1>1, <2>0
  <2>4. Holds(launch, Buffers, x + 1, m, new)
    BY ONLY <2>1, <2>2, <2>3, HoldsStep
  <2> QED BY <2>0, <2>4
<1>7. ASSUME NEW c \in CTAs, NEW i \in Accumulators
      PROVE  Single(accumulator_full'[c][i], Fills(x + 1, i, Buffers))
  <2>1. Single(accumulator_full[c][i], Fills(x, i, Buffers))
    BY DEF AccumulatorInv, x
  <2>2. /\ Fills(x, i, Buffers) \in Nat
        /\ Fills(x + 1, i, Buffers) =
             IF i = j THEN Fills(x, i, Buffers) + 1 ELSE Fills(x, i, Buffers)
    BY <1>1, FillsNext DEF Accumulators, j
  <2> QED BY <1>5, <2>1, <2>2, SingleArrive
<1>8. \A i \in Accumulators :
        Counted(accumulator_empty[i], CTAs \X Warps,
                [y \in CTAs \X Warps |-> Fills(Done(y[1], y[2]), i, Buffers)])'
  BY <1>2 DEF AccumulatorInv, Done, Warps
<1>9. accumulator_empty' = [i \in Accumulators |-> accumulator_empty'[i]]
  BY <1>2 DEF AccumulatorInv
<1> QED BY <1>1, <1>2, <1>4, <1>5, <1>6, <1>7, <1>8, <1>9 DEF AccumulatorInv

LEMMA ReleaseDone ==
  ASSUME ConsumerInv, NEW c \in CTAs, NEW w \in Warps, ConsumerRelease(c, w)
  PROVE  /\ step[c][w] = "reading"
         /\ Done(c, w) = consumer[c][w].serial
         /\ Done(c, w)' = consumer[c][w].serial + 1
         /\ Read(c, w) = consumer[c][w].serial + 1
         /\ Read(c, w)' = consumer[c][w].serial + 1
         /\ \A d \in CTAs, v \in Warps : ~(d = c /\ v = w) =>
              Done(d, v)' = Done(d, v) /\ Read(d, v)' = Read(d, v)
<1> DEFINE p == consumer[c][w]
<1>1. p.serial \in Nat
  BY DEF ConsumerInv, ConsumerOk, Placed, PlaceOf
<1>2. CASE LastGroup(p)
  <2>1. Replaced(step', step, c, w, "hidden") /\ UNCHANGED consumer /\ step[c][w] = "reading"
    BY <1>2 DEF ConsumerRelease, Replaced, Goes
  <2>2. \A d \in CTAs, v \in Warps :
          step'[d][v] = IF d = c /\ v = w THEN "hidden" ELSE step[d][v]
    BY <2>1, Grid DEF ConsumerInv
  <2> QED BY <1>1, <2>1, <2>2 DEF Done, Read, DoneBy, ReadBy, Bit
<1>3. CASE ~LastGroup(p)
  <2>1. Replaced(step', step, c, w, "item") /\ step[c][w] = "reading"
        /\ Replaced(consumer', consumer, c, w, NextGroup(p))
    BY <1>3 DEF ConsumerRelease, Replaced, Goes
  <2>2. \A d \in CTAs, v \in Warps :
          step'[d][v] = IF d = c /\ v = w THEN "item" ELSE step[d][v]
    BY <2>1, Grid DEF ConsumerInv
  <2>3. \A d \in CTAs, v \in Warps :
          consumer'[d][v] = IF d = c /\ v = w THEN NextGroup(p) ELSE consumer[d][v]
    BY <2>1, Grid DEF ConsumerInv
  <2>4. NextGroup(p).serial = p.serial + 1
    BY DEF NextGroup, Place
  <2> HIDE DEF p
  <2>5. Done(c, w)' = p.serial + 1 /\ Read(c, w)' = p.serial + 1
    BY <1>1, <2>2, <2>3, <2>4 DEF Done, Read, DoneBy, ReadBy, Bit
  <2>6. Done(c, w) = p.serial /\ Read(c, w) = p.serial + 1
    BY <1>1, <2>1 DEF Done, Read, DoneBy, ReadBy, Bit, p
  <2>7. \A d \in CTAs, v \in Warps : ~(d = c /\ v = w) =>
          Done(d, v)' = Done(d, v) /\ Read(d, v)' = Read(d, v)
    BY <2>2, <2>3 DEF Done, Read
  <2> QED BY <2>1, <2>5, <2>6, <2>7 DEF p
<1> QED BY <1>2, <1>3

LEMMA ReleaseRings ==
  ASSUME RoleInv, OrderInv, ConsumerInv, AccumulatorInv, ScaleInv,
         NEW c \in CTAs, NEW w \in Warps, ConsumerRelease(c, w)
  PROVE  OrderInv' /\ AccumulatorInv' /\ ScaleInv'
<1> DEFINE p == consumer[c][w]
           s == p.serial
<1>1. /\ launch \in Launches /\ s \in Nat /\ P \in Nat \ {0} /\ Buffers \in Nat \ {0}
      /\ s % P \in Slots /\ s % Buffers \in Accumulators
      /\ Done(c, w) = s /\ Read(c, w) = s + 1
  BY ReleaseDone, Where, Sizes, FillsAt DEF Slots, Accumulators
<1>2. /\ Done(c, w)' = s + 1 /\ Read(c, w)' = Read(c, w)
      /\ \A d \in CTAs, v \in Warps : ~(d = c /\ v = w) => Done(d, v)' = Done(d, v)
      /\ \A d \in CTAs, v \in Warps : Read(d, v)' = Read(d, v)
  BY ReleaseDone
<1>3. /\ UNCHANGED <<launch, tma, gather, scaler, mma, in_flight, accumulator_full, scale_full, tmem, scale>>
      /\ accumulator_empty' = [accumulator_empty EXCEPT ![s % Buffers] = Arrive(@)]
      /\ Replaced(scale_empty', scale_empty, c, s % P, Arrive(scale_empty[c][s % P]))
  BY DEF ConsumerRelease, producers, matrix, buffers, Buffer, Slot, Replaced
<1>4. Retired' = Retired /\ packed' = packed /\ Warps' = Warps
  BY <1>3 DEF Retired, packed, Warps
<1> HIDE DEF p, s
<1>5. \A d \in CTAs, v \in Warps : s < Done(d, v) + Buffers /\ s < Done(c, v) + P
  <2> TAKE d \in CTAs, v \in Warps
  <2>1. s + 1 <= Retired /\ Retired <= mma.serial /\ mma.serial <= Done(d, v) + Buffers
        /\ Retired \in Nat /\ mma.serial \in Nat /\ Done(d, v) \in Nat
    BY <1>1, Where DEF OrderInv
  <2>2. s + 1 <= scaler[c].serial /\ scaler[c].serial <= Done(c, v) + P
        /\ scaler[c].serial \in Nat /\ Done(c, v) \in Nat
    BY <1>1, Where DEF OrderInv
  <2> QED BY <1>1, <2>1, <2>2
<1>6. OrderInv'
  <2>1. \A d \in CTAs, v \in Warps :
          /\ mma.serial <= Done(d, v)' + Buffers /\ scaler[d].serial <= Done(d, v)' + P
    <3> TAKE d \in CTAs, v \in Warps
    <3>1. /\ mma.serial <= Done(d, v) + Buffers /\ scaler[d].serial <= Done(d, v) + P
          /\ mma.serial \in Nat /\ scaler[d].serial \in Nat /\ Done(d, v) \in Nat
      BY Where DEF OrderInv
    <3>2. Done(d, v)' \in {Done(d, v), Done(d, v) + 1}
      BY <1>1, <1>2
    <3> QED BY <1>1, <3>1, <3>2
  <2> QED BY <1>2, <1>3, <1>4, <2>1 DEF OrderInv
<1>7. ScaleInv'
  <2>1. /\ OnGrid(scale_empty', CTAs, Slots)
        /\ \A d \in CTAs, k \in Slots : scale_empty'[d][k] =
             IF d = c /\ k = s % P THEN Arrive(scale_empty[c][s % P]) ELSE scale_empty[d][k]
    <3>1. OnGrid(scale_empty, CTAs, Slots)
      BY DEF ScaleInv
    <3> QED BY ONLY <1>1, <1>3, <3>1, Grid, c \in CTAs
  <2>2. ASSUME NEW d \in CTAs, NEW k \in Slots
        PROVE  Counted(scale_empty[d][k], Warps, [v \in Warps |-> Fills(Done(d, v), k, P)])'
    <3>1. CASE d # c
      <4>1. Counted(scale_empty[d][k], Warps, [v \in Warps |-> Fills(Done(d, v), k, P)])
        BY DEF ScaleInv
      <4>2. [v \in Warps |-> Fills(Done(d, v), k, P)]' = [v \in Warps |-> Fills(Done(d, v), k, P)]
        BY <1>2, <1>4, <3>1
      <4>3. scale_empty'[d][k] = scale_empty[d][k]
        BY <2>1, <3>1
      <4> QED BY <1>4, <4>1, <4>2, <4>3
    <3>2. CASE d = c
      <4> DEFINE D == [v \in Warps |-> Done(c, v)]
                 E == [v \in Warps |-> Done(c, v)']
                 old == scale_empty[c]
                 new == scale_empty'[c]
      <4>1. IsFiniteSet(Warps)
        BY <1>1, LaunchType DEF Warps
      <4>2. Releases(D, E, Warps, w, s, P)
        <5>1. /\ D \in [Warps -> Nat] /\ D[w] = s /\ E[w] = s + 1
              /\ \A v \in Warps \ {w} : E[v] = D[v]
              /\ \A v \in Warps : s < D[v] + P
          BY <1>1, <1>2, <1>5, Where
        <5> HIDE DEF D, E
        <5> QED BY <1>1, <5>1 DEF Releases
      <4>3. RingCounted(old, Warps, D, P) /\ RingArrive(new, old, P, s)
        <5> SUFFICES ASSUME NEW i \in 0 .. P - 1
                     PROVE  /\ Counted(old[i], Warps, [v \in Warps |-> Fills(D[v], i, P)])
                            /\ new[i] = IF i = s % P THEN Arrive(old[i]) ELSE old[i]
          BY DEF RingCounted, RingArrive
        <5>1. Counted(old[i], Warps, [v \in Warps |-> Fills(Done(c, v), i, P)])
          BY DEF ScaleInv, Slots
        <5>2. [v \in Warps |-> Fills(D[v], i, P)] = [v \in Warps |-> Fills(Done(c, v), i, P)]
          OBVIOUS
        <5>3. new[i] = IF i = s % P THEN Arrive(old[i]) ELSE old[i]
          BY <2>1 DEF Slots
        <5> HIDE DEF D, old, new
        <5> QED BY <5>1, <5>2, <5>3
      <4>4. RingCounted(new, Warps, E, P)
        <5> HIDE DEF D, E, old, new
        <5> QED BY ONLY <1>1, <4>1, <4>2, <4>3, CountedRelease
      <4>5. [v \in Warps |-> Fills(E[v], k, P)] = [v \in Warps |-> Fills(Done(c, v), k, P)]'
        BY <1>4
      <4>6. Counted(new[k], Warps, [v \in Warps |-> Fills(E[v], k, P)])
        <5> HIDE DEF new, E
        <5> QED BY <4>4 DEF Slots, RingCounted
      <4> QED BY <1>4, <3>2, <4>5, <4>6
    <3> QED BY <3>1, <3>2
  <2> QED BY <1>3, <2>1, <2>2 DEF ScaleInv
<1>8. AccumulatorInv'
  <2> DEFINE S == CTAs \X Warps
             D == [v \in S |-> Done(v[1], v[2])]
             E == [v \in S |-> Done(v[1], v[2])']
             y == <<c, w>>
  <2>1. IsFiniteSet(S)
    <3>1. CTAs = 0 .. 1
      BY DEF CTAs
    <3>2. IsFiniteSet(0 .. 1)
      BY ONLY 0 \in Int, 1 \in Int, FS_Interval
    <3>3. IsFiniteSet(Warps)
      BY <1>1, LaunchType DEF Warps
    <3> QED BY <3>1, <3>2, <3>3, FS_Product
  <2>2. /\ y \in S /\ D \in [S -> Nat] /\ D[y] = s /\ E[y] = s + 1
        /\ \A v \in S : s < D[v] + Buffers
    BY <1>1, <1>2, <1>5, Where
  <2>3. \A v \in S \ {y} : E[v] = D[v]
    <3> TAKE v \in S \ {y}
    <3>1. v[1] \in CTAs /\ v[2] \in Warps /\ v = <<v[1], v[2]>>
      OBVIOUS
    <3>2. ~(v[1] = c /\ v[2] = w)
      BY <3>1
    <3> QED BY <1>2, <3>1, <3>2
  <2>4. /\ accumulator_empty' = [i \in Accumulators |-> accumulator_empty'[i]]
        /\ \A i \in Accumulators : accumulator_empty'[i] =
             IF i = s % Buffers THEN Arrive(accumulator_empty[i]) ELSE accumulator_empty[i]
    BY <1>1, <1>3 DEF AccumulatorInv
  <2>r. Releases(D, E, S, y, s, Buffers)
    <3> HIDE DEF D, E, S, y
    <3> QED BY <1>1, <2>2, <2>3 DEF Releases
  <2>5. RingCounted(accumulator_empty, S, D, Buffers)
        /\ RingArrive(accumulator_empty', accumulator_empty, Buffers, s)
    <3> SUFFICES ASSUME NEW i \in 0 .. Buffers - 1
                 PROVE  /\ Counted(accumulator_empty[i], S, [v \in S |-> Fills(D[v], i, Buffers)])
                        /\ accumulator_empty'[i] = IF i = s % Buffers THEN Arrive(accumulator_empty[i])
                                                   ELSE accumulator_empty[i]
      BY DEF RingCounted, RingArrive
    <3>1. Counted(accumulator_empty[i], S, [v \in S |-> Fills(Done(v[1], v[2]), i, Buffers)])
      BY DEF AccumulatorInv, Accumulators
    <3>2. [v \in S |-> Fills(D[v], i, Buffers)] = [v \in S |-> Fills(Done(v[1], v[2]), i, Buffers)]
      OBVIOUS
    <3>3. accumulator_empty'[i] =
            IF i = s % Buffers THEN Arrive(accumulator_empty[i]) ELSE accumulator_empty[i]
      BY <2>4 DEF Accumulators
    <3> HIDE DEF D, S
    <3> QED BY <3>1, <3>2, <3>3
  <2>6. RingCounted(accumulator_empty', S, E, Buffers)
    <3> HIDE DEF D, E, S, y
    <3> QED BY ONLY <1>1, <2>1, <2>r, <2>5, CountedRelease
  <2>7. ASSUME NEW i \in Accumulators
        PROVE  Counted(accumulator_empty[i], CTAs \X Warps,
                       [v \in CTAs \X Warps |-> Fills(Done(v[1], v[2]), i, Buffers)])'
    <3>1. [v \in S |-> Fills(E[v], i, Buffers)]
          = [v \in CTAs \X Warps |-> Fills(Done(v[1], v[2]), i, Buffers)]'
      BY <1>4
    <3>2. Counted(accumulator_empty'[i], S, [v \in S |-> Fills(E[v], i, Buffers)])
      <4> HIDE DEF E, S
      <4> QED BY <2>6 DEF Accumulators, RingCounted
    <3> QED BY <1>4, <3>1, <3>2
  <2> QED BY <1>3, <1>4, <2>4, <2>7 DEF AccumulatorInv
<1> QED BY <1>6, <1>7, <1>8

-----------------------------------------------------------------------------
(* The operand ring.                                                       *)

\* The step that phase d of slot k belongs to, and who is past it.
LEMMA PhaseSerial ==
  ASSUME NEW n \in Nat \ {0}, NEW k \in 0 .. n - 1, NEW d \in Nat, NEW m \in Nat
  PROVE  /\ d * n + k \in Nat /\ (d * n + k) % n = k
         /\ Fills(m, k, n) <= d => m <= d * n + k
         /\ Fills(m, k, n) = d + 1 => d * n + k < m
<1>1. PICK s : s = d * n + k
  OBVIOUS
<1>2. s \in Nat /\ s % n = k /\ s \div n = d
  BY <1>1, SerialIs
<1>3. Fills(s, k, n) = d /\ Fills(s + 1, k, n) = d + 1 /\ Fills(m, k, n) \in Nat
  <2>1. Fills(s, s % n, n) = s \div n
    BY <1>2, FillsAt
  <2>2. Fills(s + 1, k, n) = IF k = s % n THEN Fills(s, k, n) + 1 ELSE Fills(s, k, n)
    BY <1>2, FillsNext
  <2>3. Fills(m, k, n) \in Nat
    BY FillsNext
  <2> QED BY <1>2, <2>1, <2>2, <2>3
<1>4. CASE s < m
  <2>1. s + 1 \in Nat /\ s + 1 <= m
    BY <1>2, <1>4
  <2>2. Fills(s + 1, k, n) <= Fills(m, k, n)
    BY <2>1, FillsGrow
  <2> QED BY <1>1, <1>2, <1>3, <1>4, <2>2
<1>5. CASE m <= s
  <2>1. Fills(m, k, n) <= Fills(s, k, n)
    BY <1>2, <1>5, FillsGrow
  <2> QED BY <1>1, <1>2, <1>3, <1>5, <2>1
<1> QED BY <1>2, <1>4, <1>5

LEMMA OperandWindow ==
  ASSUME RoleInv, OrderInv, ConsumerInv, OperandInv, NEW c \in CTAs, NEW k \in Slots,
         NEW d, d = operand_full[k].done
  PROVE  /\ d \in Nat /\ d * P + k \in Nat /\ (d * P + k) % P = k
         /\ Fills(tma[c].serial, k, P) \in {d, d + 1}
         /\ ~packed => Fills(gather[c].serial, k, P) \in {d, d + 1}
         /\ mma.serial <= d * P + k /\ tma[c].serial <= mma.serial + P
         /\ Fills(tma[c].serial, k, P) = d + 1 => d * P + k < tma[c].serial
<1>1. /\ tma[c].serial \in Nat /\ mma.serial \in Nat /\ (~packed => gather[c].serial \in Nat)
      /\ tma[c].serial <= mma.serial + P /\ (~packed => gather[c].serial <= mma.serial + P)
      /\ k \in 0 .. P - 1 /\ P \in Nat \ {0} /\ mma.serial + P \in Nat
  <2>1. /\ tma[c].serial \in Nat /\ mma.serial \in Nat /\ (~packed => gather[c].serial \in Nat)
        /\ Retired \in Nat /\ Retired <= mma.serial /\ k \in 0 .. P - 1 /\ P \in Nat \ {0}
    BY Where, Sizes DEF Slots
  <2>2. tma[c].serial <= Retired + P /\ (~packed => gather[c].serial <= Retired + P)
    BY DEF OrderInv
  <2> QED BY <2>1, <2>2
<1>2. /\ d \in Nat /\ Fills(mma.serial, k, P) <= d /\ d <= Fills(tma[c].serial, k, P)
      /\ ~packed => d <= Fills(gather[c].serial, k, P)
  BY DEF OperandInv, FullOk, BarrierType, packed
<1>3. Fills(mma.serial + P, k, P) = Fills(mma.serial, k, P) + 1 /\ Fills(mma.serial, k, P) \in Nat
  BY <1>1, FillsLap, FillsNext
<1>4. ASSUME NEW t \in Nat, t <= mma.serial + P, d <= Fills(t, k, P) PROVE Fills(t, k, P) \in {d, d + 1}
  <2>1. Fills(t, k, P) <= Fills(mma.serial + P, k, P) /\ Fills(t, k, P) \in Nat
    BY <1>1, <1>4, FillsGrow, FillsNext
  <2> QED BY <1>2, <1>3, <1>4, <2>1
<1>5. /\ d * P + k \in Nat /\ (d * P + k) % P = k /\ mma.serial <= d * P + k
      /\ Fills(tma[c].serial, k, P) = d + 1 => d * P + k < tma[c].serial
  <2>1. ASSUME NEW m \in Nat
        PROVE  /\ d * P + k \in Nat /\ (d * P + k) % P = k
               /\ Fills(m, k, P) <= d => m <= d * P + k
               /\ Fills(m, k, P) = d + 1 => d * P + k < m
    BY <1>1, <1>2, PhaseSerial
  <2> QED BY <1>1, <1>2, <2>1
<1> QED BY <1>1, <1>2, <1>4, <1>5

\* A role that may fill its slot finds the barrier in the phase of its step.
LEMMA AtSlot ==
  ASSUME RoleInv, OrderInv, ConsumerInv, OperandInv, NEW x \in Nat, x < Retired + P,
         operand_full[x % P].done <= Fills(x, x % P, P)
  PROVE  operand_full[x % P].done = x \div P
<1>1. x % P \in Slots /\ Fills(x, x % P, P) = x \div P /\ x \div P \in Nat
  BY Sizes, FillsAt DEF Slots
<1>2. x < mma.serial + P /\ mma.serial \in Nat
  BY Where, Sizes
<1>3. x \div P <= Fills(mma.serial, x % P, P)
  BY <1>2, Sizes, Behind
<1>4. Fills(mma.serial, x % P, P) <= operand_full[x % P].done
      /\ operand_full[x % P].done \in Nat
  BY <1>1 DEF OperandInv, FullOk, BarrierType
<1>5. Fills(mma.serial, x % P, P) \in Nat
  BY <1>1, <1>2, Sizes, FillsNext DEF Slots
<1> QED BY <1>1, <1>3, <1>4, <1>5

\* Steps less than a ring apart load different rows of A.
LEMMA RowsApart ==
  ASSUME NEW l \in Launches, NEW s \in Nat, NEW t \in Nat, s < t, t < s + P,
         LoadsAt(l, s), LoadsAt(l, t)
  PROVE  IndexAt(l, s) # IndexAt(l, t)
<1>1. CASE IndexAt(l, s) = IndexAt(l, t)
  <2>1. s + Keep(l) <= t /\ P <= Keep(l) /\ Keep(l) \in Nat
    BY <1>1, IndexApart, IndexRange
  <2> QED BY <2>1, Sizes
<1> QED BY <1>1

\* An MMA in flight finds what its step loaded, landed, in both CTAs.
LEMMA InFlightReads ==
  ASSUME RoleInv, OrderInv, ConsumerInv, OperandInv, NEW i \in 1 .. Len(in_flight)
  PROVE  ReadsOwn(in_flight[i])
<1> DEFINE p == in_flight[i]
           s == p.serial
<1>1. /\ launch \in Launches /\ IsStep(launch, p) /\ s = Retired + i - 1
      /\ s \in Nat /\ Retired <= s /\ s < mma.serial /\ mma.serial \in Nat /\ P \in Nat \ {0}
  <2>1. IsStep(launch, p) /\ s = Retired + i - 1
    BY DEF RoleInv
  <2> QED BY <2>1, Where, Sizes
<1>2. TagAt(launch, s) = Tag(p) /\ RowAt(launch, s) = <<p.work, p.group>>
      /\ ASlot(p) = IndexAt(launch, s) /\ Slot(p) = s % P
  BY <1>1, TagOf DEF ASlot, CacheA, Cached, IndexAt, Slot, groups, IsStep, Placed, GroupAt
<1> HIDE DEF p, s
<1> SUFFICES ASSUME NEW c \in CTAs
             PROVE  /\ a[c][IndexAt(launch, s)].tag = RowAt(launch, s) /\ a[c][IndexAt(launch, s)].landed
                    /\ b[c][s % P] = [tag |-> TagAt(launch, s), landed |-> TRUE]
  BY <1>2 DEF ReadsOwn, p
<1>3. /\ tma[c].serial \in Nat /\ s < tma[c].serial /\ tma[c].serial <= s + P
      /\ LoaderA(c) \in Nat /\ s < LoaderA(c) /\ LoaderA(c) <= s + P
  BY <1>1, Where DEF OrderInv, LoaderA
<1>4. PICK m \in 0 .. s : /\ LoadsAt(launch, m) /\ IndexAt(launch, m) = IndexAt(launch, s)
                          /\ RowAt(launch, m) = RowAt(launch, s) /\ s + P <= m + Keep(launch)
  BY <1>1, Source
<1>5. Keep(launch) \in Nat /\ P <= Keep(launch) /\ IndexAt(launch, s) \in Rows
  BY <1>1, IndexRange
<1>6. a[c][IndexAt(launch, s)].tag = RowAt(launch, s)
  <2>1. m \in 0 .. LoaderA(c) - 1 /\ LoaderA(c) <= m + Keep(launch)
    BY <1>1, <1>3, <1>4, <1>5
  <2>2. HoldsA(launch, LoaderA(c), a[c])
    BY DEF OperandInv
  <2> QED BY <1>4, <2>1, <2>2 DEF HoldsA
<1>7. a[c][IndexAt(launch, s)].landed
  <2> DEFINE row == a[c][IndexAt(launch, s)]
             k == row.slot
             d == operand_full[k].done
             t == d * P + k
  <2>1. PendingOk(launch, row, IndexAt(launch, s), tma[c].serial, operand_full)
        /\ row.landed \in BOOLEAN
    BY <1>5 DEF OperandInv, IsRowA
  <2>2. SUFFICES ASSUME ~row.landed PROVE FALSE
    BY <2>1
  <2>3. /\ k \in Slots /\ Fills(tma[c].serial, k, P) = d + 1
        /\ IndexAt(launch, s) = IndexAt(launch, t) /\ LoadsAt(launch, t)
    BY <2>1, <2>2 DEF PendingOk
  <2>4. t \in Nat /\ mma.serial <= t /\ t < tma[c].serial
    <3> HIDE DEF k
    <3> QED BY <2>3, OperandWindow
  <2> HIDE DEF t, row
  <2>5. m \in Nat /\ m < t
    BY <1>1, <1>4, <2>4
  <2>6. m + Keep(launch) <= t
    BY <1>1, <1>4, <2>3, <2>4, <2>5, IndexApart
  <2> QED BY <1>1, <1>3, <1>4, <1>5, <2>4, <2>6
<1>8. s % P \in Slots /\ Fills(s, s % P, P) = s \div P /\ s \div P \in Nat
      /\ Fills(s + 1, s % P, P) = s \div P + 1 /\ Fills(s + P, s % P, P) = s \div P + 1
  <2>1. s % P \in 0 .. P - 1 /\ Fills(s, s % P, P) = s \div P /\ s \div P \in Nat
    BY <1>1, FillsAt
  <2>2. Fills(s + 1, s % P, P) = Fills(s, s % P, P) + 1
    BY <1>1, <2>1, FillsNext
  <2>3. Fills(s + P, s % P, P) = Fills(s, s % P, P) + 1
    BY <1>1, <2>1, FillsLap
  <2> QED BY <2>1, <2>2, <2>3 DEF Slots
<1>9. b[c][s % P].tag = TagAt(launch, s)
  <2>1. s \in 0 .. tma[c].serial - 1
    BY <1>1, <1>3
  <2>2. HoldsB(launch, tma[c].serial, b[c])
    BY DEF OperandInv
  <2> QED BY <1>3, <2>1, <2>2 DEF HoldsB
<1>10. b[c][s % P].landed
  <2>1. Fills(s + 1, s % P, P) <= Fills(mma.serial, s % P, P)
    <3>1. s + 1 \in Nat /\ s + 1 <= mma.serial
      BY <1>1
    <3> QED BY <1>1, <1>8, <3>1, FillsGrow DEF Slots
  <2>2. Fills(tma[c].serial, s % P, P) <= Fills(s + P, s % P, P)
    <3>1. s + P \in Nat
      BY <1>1
    <3> QED BY <1>1, <1>3, <1>8, <3>1, FillsGrow DEF Slots
  <2>3. /\ operand_full[s % P].done \in Nat
        /\ Fills(mma.serial, s % P, P) <= operand_full[s % P].done
        /\ operand_full[s % P].done <= Fills(tma[c].serial, s % P, P)
        /\ operand_full[s % P].done = Fills(tma[c].serial, s % P, P) => b[c][s % P].landed
    BY <1>8 DEF OperandInv, FullOk, BarrierType
  <2>4. Fills(tma[c].serial, s % P, P) \in Nat /\ Fills(mma.serial, s % P, P) \in Nat
    BY <1>1, <1>3, <1>8, FillsNext DEF Slots
  <2> QED BY <1>8, <2>1, <2>2, <2>3, <2>4
<1>11. IsRowB(b[c][s % P])
  BY <1>8 DEF OperandInv
<1> QED BY <1>6, <1>7, <1>9, <1>10, <1>11 DEF IsRowB

LEMMA OwedType ==
  ASSUME NEW l \in Launches, NEW k, NEW d, NEW t, NEW rows, NEW row, row.landed \in BOOLEAN
  PROVE  /\ LoadsOf(l, d * P + k) \in {1, 2}
         /\ Missing(l, d * P + k, rows, row) \in {0, 1, 2}
         /\ Owed(l, k, d, t, rows, row) \in {0, 1, 2}
BY DEF LoadsOf, Missing, Owed, Bit

\* A slot the step leaves alone.
LEMMA FullSame ==
  ASSUME NEW l \in Launches, NEW k, NEW bar, NEW m, NEW T, NEW G, NEW A, NEW B,
         FullOk(l, k, bar, m, T, G, A, B), NEW U, NEW H, NEW C, NEW D,
         \A c \in CTAs :
           /\ Fills(U[c].serial, k, P) = Fills(T[c].serial, k, P)
           /\ ~l.packed => Fills(H[c].serial, k, P) = Fills(G[c].serial, k, P)
           /\ D[c][k].landed = B[c][k].landed
           /\ Owed(l, k, bar.done, U[c].serial, C[c], D[c][k])
              = Owed(l, k, bar.done, T[c].serial, A[c], B[c][k])
  PROVE  FullOk(l, k, bar, m, U, H, C, D)
BY DEF FullOk, Here, CTAs, Leader

\* The phase is over once everything is announced, arrived and landed.
LEMMA FullSettles ==
  ASSUME NEW l \in Launches, NEW k, NEW bar, NEW m, NEW d \in Nat, NEW U, NEW H, NEW C, NEW D,
         bar = Barrier(IF l.packed THEN 1 ELSE 3, IF l.packed THEN 1 ELSE 3, 0, d + 1),
         Fills(m.serial, k, P) \in Nat, Fills(m.serial, k, P) <= d,
         \A c \in CTAs :
           /\ Fills(U[c].serial, k, P) = d + 1
           /\ ~l.packed => Fills(H[c].serial, k, P) = d + 1
           /\ D[c][k].landed
  PROVE  FullOk(l, k, bar, m, U, H, C, D)
<1>1. /\ bar.done = d + 1 /\ bar.tx = 0 /\ bar \in BarrierType
      /\ bar.count = (IF l.packed THEN 1 ELSE 3) /\ bar.left = bar.count
  BY DEF Barrier, BarrierType
<1>2. \A c \in CTAs : /\ Here(U[c].serial, k, d + 1) = 0
                      /\ ~l.packed => Here(H[c].serial, k, d + 1) = 0
                      /\ Owed(l, k, d + 1, U[c].serial, C[c], D[c][k]) = LoadsOf(l, (d + 1) * P + k)
  BY DEF Here, Bit, Owed
<1>3. LoadsOf(l, (d + 1) * P + k) \in {1, 2}
  BY DEF LoadsOf, Bit
<1>4. bar.tx = Owed(l, k, d + 1, U[0].serial, C[0], D[0][k]) + Owed(l, k, d + 1, U[1].serial, C[1], D[1][k])
               - (IF Here(U[Leader].serial, k, d + 1) = 1 THEN 0 ELSE 2 * LoadsOf(l, (d + 1) * P + k))
  BY <1>1, <1>2, <1>3 DEF CTAs, Leader
<1>5. bar.left = bar.count - Here(U[Leader].serial, k, d + 1)
         - (IF l.packed THEN 0 ELSE Here(H[0].serial, k, d + 1) + Here(H[1].serial, k, d + 1))
  BY <1>1, <1>2 DEF CTAs, Leader
<1> QED BY <1>1, <1>4, <1>5 DEF FullOk

LEMMA TmaIssueOperand ==
  ASSUME RoleInv, OrderInv, ConsumerInv, OperandInv, NEW c \in CTAs, TmaIssue(c)
  PROVE  OperandInv'
<1> DEFINE p == tma[c]
           x == p.serial
           k == x % P
           y == IndexAt(launch, x)
           d == x \div P
           Takes == packed /\ LoadsAt(launch, x)
           row == ARow(p, FALSE)
           bar == operand_full[k]
           U == tma'
           C == a'
           D == b'
<1>1. /\ launch \in Launches /\ 0 \in CTAs /\ 1 \in CTAs /\ Leader = 0 /\ mma.serial \in Nat
      /\ x \in Nat /\ k \in Slots /\ P \in Nat \ {0} /\ y \in Rows /\ IsStep(launch, p)
      /\ x < mma.serial + P /\ d \in Nat /\ Fills(x, k, P) = d
      /\ \A e \in CTAs : tma[e].serial \in Nat
  <2>1. /\ launch \in Launches /\ IsStep(launch, p) /\ x < Retired + P
        /\ x \in Nat /\ Retired \in Nat /\ mma.serial \in Nat /\ Retired <= mma.serial
        /\ P \in Nat \ {0} /\ 0 \in CTAs /\ 1 \in CTAs /\ Leader = 0
        /\ \A e \in CTAs : tma[e].serial \in Nat
    BY TmaRole, Where, Sizes
  <2>2. k \in Slots /\ Fills(x, k, P) = d /\ d \in Nat /\ y \in Rows
    BY <2>1, FillsAt, IndexRange DEF Slots
  <2> HIDE DEF x, k, d, y
  <2> QED BY <2>1, <2>2
<1>2. TagAt(launch, x) = Tag(p) /\ RowAt(launch, x) = <<p.work, p.group>>
      /\ ASlot(p) = y /\ Slot(p) = k /\ LoadsA(p) = LoadsAt(launch, x)
  BY <1>1, TagOf DEF ASlot, CacheA, Cached, IndexAt, Slot, groups, IsStep, Placed, GroupAt,
                     LoadsA, LoadsAt
<1>3. /\ U[c].serial = x + 1 /\ \A e \in CTAs \ {c} : U[e] = tma[e]
      /\ UNCHANGED <<launch, operand_empty, gather, mma, in_flight>>
  BY TmaRole DEF TmaIssue, matrix
<1>4. bar.done = d
  <2>1. bar.done <= Fills(x, k, P)
    BY <1>1 DEF OperandInv, FullOk
  <2>2. x < Retired + P
    BY TmaRole
  <2> QED BY <1>1, <2>1, <2>2, AtSlot
<1>5. /\ OnGrid(D, CTAs, Slots)
      /\ \A e \in CTAs, i \in Slots :
           D[e][i] = IF e = c /\ i = k THEN [tag |-> Tag(p), landed |-> FALSE] ELSE b[e][i]
  <2>1. Replaced(D, b, c, k, [tag |-> Tag(p), landed |-> FALSE])
    BY <1>2 DEF TmaIssue, Replaced
  <2>2. OnGrid(b, CTAs, Slots)
    BY DEF OperandInv
  <2> HIDE DEF D, k, p
  <2> QED BY ONLY <1>1, <2>1, <2>2, Grid, c \in CTAs
<1>6. /\ OnGrid(C, CTAs, Rows)
      /\ \A e \in CTAs, i \in Rows :
           C[e][i] = IF Takes /\ e = c /\ i = y THEN row ELSE a[e][i]
  <2>1. OnGrid(a, CTAs, Rows)
    BY DEF OperandInv
  <2>2. CASE Takes
    <3>1. Replaced(C, a, c, y, row)
      BY <1>2, <2>2 DEF TmaIssue, Replaced
    <3> HIDE DEF C, y, row, Takes, x
    <3>2. OnGrid(C, CTAs, Rows) /\ \A e \in CTAs, i \in Rows : C[e][i] = IF e = c /\ i = y THEN row ELSE a[e][i]
      BY ONLY <1>1, <2>1, <3>1, Grid, c \in CTAs
    <3> QED BY <2>2, <3>2
  <2>3. CASE ~Takes
    BY <1>2, <2>1, <2>3 DEF TmaIssue
  <2> QED BY <2>2, <2>3
<1>7. /\ operand_full' = [i \in Slots |-> operand_full'[i]]
      /\ \A i \in Slots : operand_full'[i] =
           IF c = Leader /\ i = k THEN ArriveExpectTx(bar, 2 * LoadsOf(launch, x)) ELSE operand_full[i]
  <2>1. Announced(p) = 2 * LoadsOf(launch, x)
    BY <1>2 DEF Announced, LoadsOf, Bit, packed
  <2>2. operand_full' = IF c = Leader THEN [operand_full EXCEPT ![k] = ArriveExpectTx(@, Announced(p))]
                        ELSE operand_full
    BY <1>2 DEF TmaIssue
  <2> HIDE DEF k, x, p
  <2> QED BY <1>1, <2>1, <2>2 DEF OperandInv, bar
<1>8. d * P + k = x
  BY <1>1, FillsAt
<1> HIDE DEF p, x, k, y, d, Takes, bar, U, C, D
\* Slot k: what this CTA owes is what it announces.
<1>9. Owed(launch, k, d, U[c].serial, C[c], D[c][k]) = LoadsOf(launch, x)
      /\ Owed(launch, k, d, tma[c].serial, a[c], b[c][k]) = LoadsOf(launch, x)
      /\ Fills(U[c].serial, k, P) = d + 1
  <2>1. Fills(U[c].serial, k, P) = d + 1
    <3>1. Fills(x + 1, k, P) = IF k = x % P THEN Fills(x, k, P) + 1 ELSE Fills(x, k, P)
      BY <1>1, FillsNext DEF Slots
    <3> QED BY <1>1, <1>3, <3>1 DEF k
  <2>2. Fills(tma[c].serial, k, P) = d
    BY <1>1 DEF x, p
  <2>3. D[c][k].landed = FALSE
    BY <1>1, <1>5
  <2>4. Takes => C[c][y].landed = FALSE
    BY <1>1, <1>6 DEF ARow
  <2>5. Missing(launch, x, C[c], D[c][k]) = LoadsOf(launch, x)
    BY <2>3, <2>4 DEF Missing, LoadsOf, Bit, y, Takes, packed
  <2> QED BY <1>1, <1>8, <2>1, <2>2, <2>5 DEF Owed
<1>10. \A e \in CTAs \ {c}, i \in Slots :
         Owed(launch, i, operand_full[i].done, U[e].serial, C[e], D[e][i])
         = Owed(launch, i, operand_full[i].done, tma[e].serial, a[e], b[e][i])
  <2> TAKE e \in CTAs \ {c}, i \in Slots
  <2>1. U[e] = tma[e] /\ D[e][i] = b[e][i] /\ \A z \in Rows : C[e][z] = a[e][z]
    BY <1>3, <1>5, <1>6
  <2>2. operand_full[i].done * P + i \in Nat
    BY OperandWindow
  <2>3. IndexAt(launch, operand_full[i].done * P + i) \in Rows
    BY <1>1, <2>2, IndexRange
  <2> QED BY <2>1, <2>3 DEF Owed, Missing
<1>11. \A i \in Slots \ {k} :
         /\ Fills(U[c].serial, i, P) = Fills(tma[c].serial, i, P)
         /\ Owed(launch, i, operand_full[i].done, U[c].serial, C[c], D[c][i])
            = Owed(launch, i, operand_full[i].done, tma[c].serial, a[c], b[c][i])
  <2> TAKE i \in Slots \ {k}
  <2> DEFINE s == operand_full[i].done * P + i
  <2>1. Fills(U[c].serial, i, P) = Fills(tma[c].serial, i, P)
    <3>1. Fills(x + 1, i, P) = IF i = x % P THEN Fills(x, i, P) + 1 ELSE Fills(x, i, P)
      BY <1>1, FillsNext DEF Slots
    <3> QED BY <1>3, <3>1 DEF x, p, k
  <2>2. /\ s \in Nat /\ mma.serial <= s
        /\ Fills(tma[c].serial, i, P) \in {operand_full[i].done, operand_full[i].done + 1}
        /\ Fills(tma[c].serial, i, P) = operand_full[i].done + 1 => s < tma[c].serial
    BY OperandWindow
  <2>3. D[c][i] = b[c][i]
    BY <1>5
  <2>4. Fills(tma[c].serial, i, P) # operand_full[i].done /\ packed /\ LoadsAt(launch, s)
        => C[c][IndexAt(launch, s)] = a[c][IndexAt(launch, s)]
    <3> SUFFICES ASSUME Fills(tma[c].serial, i, P) # operand_full[i].done, packed, LoadsAt(launch, s)
                 PROVE  C[c][IndexAt(launch, s)] = a[c][IndexAt(launch, s)]
      OBVIOUS
    <3>1. s < x /\ x < s + P
      <4>1. s < x
        BY <2>2 DEF x, p
      <4> HIDE DEF s
      <4> QED BY <1>1, <2>2, <4>1
    <3> HIDE DEF s
    <3>2. LoadsAt(launch, x) => IndexAt(launch, s) # y
      BY <1>1, <2>2, <3>1, RowsApart DEF y
    <3>3. IndexAt(launch, s) \in Rows
      BY <1>1, <2>2, IndexRange
    <3> QED BY <1>6, <3>2, <3>3 DEF Takes
  <2> QED BY <2>1, <2>3, <2>4 DEF Owed, Missing, packed
<1>12. ASSUME NEW i \in Slots
       PROVE  FullOk(launch, i, operand_full'[i], mma, U, gather, C, D)
  <2>1. FullOk(launch, i, operand_full[i], mma, tma, gather, a, b)
    BY DEF OperandInv
  <2>2. CASE i # k
    <3>1. operand_full'[i] = operand_full[i]
      BY <1>7, <2>2
    <3>2. \A e \in CTAs :
            /\ Fills(U[e].serial, i, P) = Fills(tma[e].serial, i, P)
            /\ D[e][i].landed = b[e][i].landed
            /\ Owed(launch, i, operand_full[i].done, U[e].serial, C[e], D[e][i])
               = Owed(launch, i, operand_full[i].done, tma[e].serial, a[e], b[e][i])
      BY <1>3, <1>5, <1>10, <1>11, <2>2
    <3> QED BY ONLY <1>1, <2>1, <3>1, <3>2, FullSame
  <2>3. CASE i = k
    <3> DEFINE o == 1 - c
    <3>1. o \in CTAs /\ o # c /\ c \in {0, 1} /\ (c = 0 => o = 1) /\ (c = 1 => o = 0)
      BY DEF CTAs
    <3>2. /\ U[o] = tma[o] /\ D[o][k] = b[o][k]
          /\ Owed(launch, k, d, U[o].serial, C[o], D[o][k]) = Owed(launch, k, d, tma[o].serial, a[o], b[o][k])
      BY <1>1, <1>3, <1>4, <1>5, <1>10, <3>1 DEF bar
    <3>3. LoadsOf(launch, x) \in {1, 2} /\ Owed(launch, k, d, tma[o].serial, a[o], b[o][k]) \in {0, 1, 2}
      <4>1. b[o][k].landed \in BOOLEAN
        BY <1>1, <3>1 DEF OperandInv, IsRowB
      <4>2. LoadsOf(launch, d * P + k) \in {1, 2} /\ Owed(launch, k, d, tma[o].serial, a[o], b[o][k]) \in {0, 1, 2}
        BY ONLY <1>1, <4>1, OwedType
      <4> QED BY <1>8, <4>2
    <3>4. /\ bar \in BarrierType /\ bar.done = d
          /\ bar.count = IF launch.packed THEN 1 ELSE 3
          /\ Fills(mma.serial, k, P) <= d
          /\ \A e \in CTAs :
               /\ d <= Fills(tma[e].serial, k, P)
               /\ ~launch.packed => d <= Fills(gather[e].serial, k, P)
               /\ d = Fills(tma[e].serial, k, P) => b[e][k].landed
          /\ bar.left = bar.count - Here(tma[0].serial, k, d)
               - (IF launch.packed THEN 0 ELSE Here(gather[0].serial, k, d) + Here(gather[1].serial, k, d))
          /\ bar.tx = Owed(launch, k, d, tma[0].serial, a[0], b[0][k])
                      + Owed(launch, k, d, tma[1].serial, a[1], b[1][k])
                      - (IF Here(tma[0].serial, k, d) = 1 THEN 0 ELSE 2 * LoadsOf(launch, x))
          /\ ~(bar.left = 0 /\ bar.tx = 0)
      BY <1>1, <1>4, <1>8, <2>1, <2>3 DEF FullOk, bar
    <3>5. \A e \in CTAs : /\ d <= Fills(U[e].serial, k, P)
                          /\ d = Fills(U[e].serial, k, P) => D[e][k].landed
      BY <1>1, <1>9, <3>1, <3>2, <3>4 DEF CTAs
    <3>6. CASE c = Leader
      <4>1. Here(tma[0].serial, k, d) = 0 /\ Here(U[0].serial, k, d) = 1
        BY <1>1, <1>9, <3>6 DEF Here, Bit, x, p
      <4>2. bar.tx + 2 * LoadsOf(launch, x) >= 1
        BY <1>1, <1>9, <3>1, <3>3, <3>4, <3>6, <4>1
      <4>3. operand_full'[k] = [count |-> bar.count, left |-> bar.left - 1,
                                tx |-> bar.tx + 2 * LoadsOf(launch, x), done |-> d]
        BY <1>1, <1>7, <3>4, <3>6, <4>2 DEF ArriveExpectTx, Settle, Barrier
      <4>4. operand_full'[k] \in BarrierType
        BY <3>3, <3>4, <4>3 DEF BarrierType
      <4>5. PICK n : n = operand_full'[k]
        OBVIOUS
      <4>6. /\ n.done = d /\ n.count = bar.count /\ n.left = bar.left - 1
            /\ n.tx = bar.tx + 2 * LoadsOf(launch, x) /\ n \in BarrierType
            /\ bar.left \in Int /\ bar.tx \in Int /\ bar.count \in Nat
        BY <3>4, <4>3, <4>4, <4>5 DEF BarrierType
      <4>7. n.tx = Owed(launch, k, d, U[0].serial, C[0], D[0][k])
                   + Owed(launch, k, d, U[1].serial, C[1], D[1][k]) - 0
        <5>1. /\ Owed(launch, k, d, U[0].serial, C[0], D[0][k]) = LoadsOf(launch, x)
              /\ Owed(launch, k, d, tma[0].serial, a[0], b[0][k]) = LoadsOf(launch, x)
              /\ Owed(launch, k, d, U[1].serial, C[1], D[1][k])
                 = Owed(launch, k, d, tma[1].serial, a[1], b[1][k])
              /\ Owed(launch, k, d, tma[1].serial, a[1], b[1][k]) \in {0, 1, 2}
          BY <1>1, <1>9, <3>1, <3>2, <3>3, <3>6
        <5>2. n.tx = LoadsOf(launch, x) + Owed(launch, k, d, tma[1].serial, a[1], b[1][k])
                     - 2 * LoadsOf(launch, x) + 2 * LoadsOf(launch, x)
          BY <3>4, <4>1, <4>6, <5>1
        <5> QED BY <3>3, <5>1, <5>2
      <4>8. n.left = n.count - Here(U[0].serial, k, d)
               - (IF launch.packed THEN 0 ELSE Here(gather[0].serial, k, d) + Here(gather[1].serial, k, d))
        <5>1. Here(gather[0].serial, k, d) \in {0, 1} /\ Here(gather[1].serial, k, d) \in {0, 1}
          BY DEF Here, Bit
        <5> QED BY <3>4, <4>1, <4>6, <5>1
      <4>9. ~(n.left = 0 /\ n.tx = 0)
        BY <4>2, <4>6, <3>3
      <4> QED BY <1>1, <1>8, <2>3, <3>4, <3>5, <4>1, <4>5, <4>6, <4>7, <4>8, <4>9 DEF FullOk
    <3>7. CASE c # Leader
      <4>1. operand_full'[k] = bar /\ U[0] = tma[0] /\ c = 1 /\ o = 0
        BY <1>1, <1>7, <3>1, <3>2, <3>7 DEF bar
      <4>2. bar.tx = Owed(launch, k, d, U[0].serial, C[0], D[0][k])
                      + Owed(launch, k, d, U[1].serial, C[1], D[1][k])
                      - (IF Here(U[0].serial, k, d) = 1 THEN 0 ELSE 2 * LoadsOf(launch, x))
        BY <1>9, <3>2, <3>4, <4>1
      <4> QED BY <1>1, <1>8, <2>3, <3>4, <3>5, <4>1, <4>2 DEF FullOk
    <3> QED BY <3>6, <3>7
  <2> QED BY <2>2, <2>3
<1>13. \A i \in Slots : operand_full'[i].done = operand_full[i].done
  <2> TAKE i \in Slots
  <2>1. CASE c = Leader /\ i = k
    <3>1. FullOk(launch, k, bar, mma, tma, gather, a, b) /\ b[1][k].landed \in BOOLEAN
      BY <1>1 DEF OperandInv, bar, IsRowB
    <3>2. Here(tma[0].serial, k, d) = 0
      BY <1>1, <2>1 DEF Here, Bit, x, p
    <3>3. /\ LoadsOf(launch, x) \in {1, 2}
          /\ Owed(launch, k, d, tma[1].serial, a[1], b[1][k]) \in {0, 1, 2}
      <4>1. b[1][k].landed \in BOOLEAN
        BY <3>1
      <4>2. PICK r, t, w : r = b[1][k] /\ t = tma[1].serial /\ w = a[1]
        OBVIOUS
      <4>3. LoadsOf(launch, d * P + k) \in {1, 2} /\ Owed(launch, k, d, t, w, r) \in {0, 1, 2}
        BY <4>1, <4>2 DEF LoadsOf, Owed, Missing, Bit
      <4> QED BY <1>8, <4>2, <4>3
    <3>4. bar \in BarrierType
          /\ bar.tx = Owed(launch, k, d, tma[0].serial, a[0], b[0][k])
                      + Owed(launch, k, d, tma[1].serial, a[1], b[1][k]) - 2 * LoadsOf(launch, x)
      BY <1>1, <1>4, <1>8, <3>1, <3>2 DEF FullOk
    <3>5. bar.tx + 2 * LoadsOf(launch, x) >= 1
      BY <1>1, <1>9, <2>1, <3>3, <3>4
    <3>6. operand_full'[k].done = bar.done
      BY <1>1, <1>7, <2>1, <3>4, <3>5 DEF ArriveExpectTx, Settle, Barrier, BarrierType
    <3> QED BY <2>1, <3>6 DEF bar
  <2>2. CASE ~(c = Leader /\ i = k)
    BY <1>7, <2>2
  <2> QED BY <2>1, <2>2
<1>14. ASSUME NEW e \in CTAs, NEW z \in Rows
       PROVE  IsRowA(C[e][z]) /\ PendingOk(launch, C[e][z], z, U[e].serial, operand_full')
  <2>1. IsRowA(a[e][z]) /\ PendingOk(launch, a[e][z], z, tma[e].serial, operand_full)
    BY DEF OperandInv
  <2>2. CASE Takes /\ e = c /\ z = y
    <3>1. C[e][z] = [tag |-> <<p.work, p.group>>, slot |-> k, landed |-> FALSE]
      BY <1>2, <1>6, <2>2 DEF ARow
    <3>2. operand_full'[k].done = d
      BY <1>1, <1>4, <1>13 DEF bar
    <3> QED BY <1>1, <1>8, <1>9, <2>2, <3>1, <3>2 DEF IsRowA, PendingOk, Takes, y, packed
  <2>3. CASE ~(Takes /\ e = c /\ z = y)
    <3>1. C[e][z] = a[e][z]
      BY <1>6, <2>3
    <3>2. CASE a[e][z].landed
      BY <2>1, <3>1, <3>2 DEF PendingOk
    <3>3. CASE ~a[e][z].landed
      <4>1. PICK i : i = a[e][z].slot
        OBVIOUS
      <4>2. /\ launch.packed /\ i \in Slots /\ Fills(tma[e].serial, i, P) = operand_full[i].done + 1
            /\ z = IndexAt(launch, operand_full[i].done * P + i)
            /\ LoadsAt(launch, operand_full[i].done * P + i)
        BY <2>1, <3>3, <4>1 DEF PendingOk
      <4>3. ~(e = c /\ i = k)
        BY <1>1, <1>4, <4>2 DEF bar, x, p
      <4>4. Fills(U[e].serial, i, P) = Fills(tma[e].serial, i, P)
        BY <1>3, <1>11, <4>2, <4>3
      <4>5. operand_full'[i].done = operand_full[i].done
        BY <1>13, <4>2
      <4> QED BY <2>1, <3>1, <4>1, <4>2, <4>4, <4>5 DEF PendingOk
    <3> QED BY <2>1, <3>1, <3>2, <3>3
  <2> QED BY <2>2, <2>3
<1>15. ASSUME NEW e \in CTAs
       PROVE  HoldsB(launch, U[e].serial, D[e])
  <2>1. HoldsB(launch, tma[e].serial, b[e])
    BY DEF OperandInv
  <2>2. CASE e # c
    <3>1. \A i \in Slots : D[e][i] = b[e][i]
      BY <1>5, <2>2
    <3>2. U[e] = tma[e] /\ \A s \in 0 .. tma[e].serial - 1 : s % P \in Slots
      BY <1>1, <1>3, <2>2, FillsAt DEF Slots
    <3> QED BY <2>1, <3>1, <3>2 DEF HoldsB
  <2>3. CASE e = c
    <3> SUFFICES ASSUME NEW s \in 0 .. x, x + 1 <= s + P PROVE D[c][s % P].tag = TagAt(launch, s)
      BY <1>1, <1>3, <2>3 DEF HoldsB
    <3>1. CASE s = x
      BY <1>1, <1>2, <1>5, <3>1 DEF k
    <3>2. CASE s # x
      <4>1. s \in Nat /\ s < x /\ ~(s + P <= x) /\ s \in 0 .. x - 1 /\ x <= s + P
        BY <1>1, <3>2
      <4>2. s % P # k /\ s % P \in Slots
        <5>1. s % P # x % P
          BY <1>1, <4>1, Apart
        <5> QED BY <1>1, <4>1, <5>1, FillsAt DEF Slots, k
      <4>3. b[c][s % P].tag = TagAt(launch, s)
        BY <2>1, <2>3, <4>1 DEF HoldsB, x, p
      <4> QED BY <1>5, <4>2, <4>3
    <3> QED BY <3>1, <3>2
  <2> QED BY <2>2, <2>3
<1>16. ASSUME NEW e \in CTAs
       PROVE  HoldsA(launch, IF packed THEN U[e].serial ELSE gather[e].serial, C[e])
  <2>1. HoldsA(launch, LoaderA(e), a[e]) /\ (~packed => gather[e].serial \in Nat)
    BY Where DEF OperandInv
  <2>2. CASE ~packed \/ e # c
    <3>1. \A z \in Rows : C[e][z] = a[e][z]
      BY <1>6, <2>2 DEF Takes
    <3>2. LoaderA(e) = IF packed THEN U[e].serial ELSE gather[e].serial
      BY <1>3, <2>2 DEF LoaderA
    <3>3. \A s \in 0 .. LoaderA(e) - 1 : IndexAt(launch, s) \in Rows
      BY <1>1, IndexRange
    <3> QED BY <2>1, <3>1, <3>2, <3>3 DEF HoldsA
  <2>3. CASE packed /\ e = c
    <3> SUFFICES ASSUME NEW s \in 0 .. x, LoadsAt(launch, s), x + 1 <= s + Keep(launch)
                 PROVE  C[c][IndexAt(launch, s)].tag = RowAt(launch, s)
      BY <1>1, <1>3, <2>3 DEF HoldsA
    <3>1. CASE s = x
      BY <1>1, <1>2, <1>6, <2>3, <3>1 DEF Takes, ARow, y
    <3>2. CASE s # x
      <4>1. s \in Nat /\ s < x /\ ~(s + Keep(launch) <= x) /\ s \in 0 .. x - 1 /\ x <= s + Keep(launch)
        BY <1>1, <3>2, IndexRange
      <4>2. LoadsAt(launch, x) => IndexAt(launch, s) # y
        BY <1>1, <4>1, IndexApart DEF y
      <4>3. IndexAt(launch, s) \in Rows
        BY <1>1, <4>1, IndexRange
      <4>4. a[c][IndexAt(launch, s)].tag = RowAt(launch, s)
        BY <2>1, <2>3, <4>1 DEF HoldsA, LoaderA, x, p
      <4> QED BY <1>6, <4>2, <4>3, <4>4 DEF Takes
    <3> QED BY <3>1, <3>2
  <2> QED BY <2>2, <2>3
<1>17. ASSUME NEW e \in CTAs, NEW i \in Slots PROVE IsRowB(D[e][i])
  <2>1. CASE e = c /\ i = k
    <3>1. D[e][i] = [tag |-> Tag(p), landed |-> FALSE]
      BY <1>5, <2>1
    <3> QED BY <3>1 DEF IsRowB
  <2>2. CASE ~(e = c /\ i = k)
    <3>1. D[e][i] = b[e][i]
      BY <1>5, <2>2
    <3> QED BY <3>1 DEF OperandInv
  <2> QED BY <2>1, <2>2
<1>18. /\ Retired' = Retired /\ OnGrid(operand_empty', CTAs, Slots)
       /\ \A e \in CTAs, i \in Slots : Single(operand_empty'[e][i], Fills(Retired', i, P))
       /\ \A e \in CTAs : LoaderA(e)' = IF packed THEN U[e].serial ELSE gather[e].serial
  BY <1>3 DEF OperandInv, Retired, LoaderA, packed, U
<1> QED BY <1>3, <1>5, <1>6, <1>7, <1>12, <1>14, <1>15, <1>16, <1>17, <1>18
        DEF OperandInv, U, C, D

\* An arrival or a landing: the counts after it, and whether the phase ends.
AfterOk(l, k, m, d, T, H, C, D, n, left, tx) ==
  /\ d \in Nat /\ n = (IF l.packed THEN 1 ELSE 3) /\ left \in Int /\ tx \in Int
  /\ Fills(m.serial, k, P) \in Nat /\ Fills(m.serial, k, P) <= d
  /\ \A c \in CTAs :
       /\ Fills(T[c].serial, k, P) \in {d, d + 1}
       /\ ~l.packed => Fills(H[c].serial, k, P) \in {d, d + 1}
       /\ D[c][k].landed \in BOOLEAN
       /\ d = Fills(T[c].serial, k, P) => D[c][k].landed
  /\ left = n - Here(T[0].serial, k, d)
            - (IF l.packed THEN 0 ELSE Here(H[0].serial, k, d) + Here(H[1].serial, k, d))
  /\ tx = Owed(l, k, d, T[0].serial, C[0], D[0][k]) + Owed(l, k, d, T[1].serial, C[1], D[1][k])
          - (IF Here(T[0].serial, k, d) = 1 THEN 0 ELSE 2 * LoadsOf(l, d * P + k))

LEMMA FullAfter ==
  ASSUME NEW l \in Launches, NEW k, NEW m, NEW d, NEW T, NEW H, NEW C, NEW D,
         NEW n, NEW left, NEW tx, AfterOk(l, k, m, d, T, H, C, D, n, left, tx),
         NEW bar, bar = Settle(n, left, tx, d)
  PROVE  /\ FullOk(l, k, bar, m, T, H, C, D)
         /\ \/ bar.done = d
            \/ /\ bar.done = d + 1
               /\ \A c \in CTAs : Missing(l, d * P + k, C[c], D[c][k]) = 0
<1>0. /\ d \in Nat /\ n = (IF l.packed THEN 1 ELSE 3) /\ left \in Int /\ tx \in Int
      /\ Fills(m.serial, k, P) \in Nat /\ Fills(m.serial, k, P) <= d
      /\ \A c \in CTAs :
           /\ Fills(T[c].serial, k, P) \in {d, d + 1}
           /\ ~l.packed => Fills(H[c].serial, k, P) \in {d, d + 1}
           /\ D[c][k].landed \in BOOLEAN
           /\ d = Fills(T[c].serial, k, P) => D[c][k].landed
      /\ left = n - Here(T[0].serial, k, d)
                - (IF l.packed THEN 0 ELSE Here(H[0].serial, k, d) + Here(H[1].serial, k, d))
      /\ tx = Owed(l, k, d, T[0].serial, C[0], D[0][k]) + Owed(l, k, d, T[1].serial, C[1], D[1][k])
              - (IF Here(T[0].serial, k, d) = 1 THEN 0 ELSE 2 * LoadsOf(l, d * P + k))
  BY DEF AfterOk
<1>1. 0 \in CTAs /\ 1 \in CTAs /\ Leader = 0 /\ n \in {1, 3}
  BY <1>0 DEF CTAs, Leader
<1>2. \A c \in CTAs : Here(T[c].serial, k, d) \in {0, 1} /\ Here(H[c].serial, k, d) \in {0, 1}
  BY DEF Here, Bit
<1>3. CASE left = 0 /\ tx = 0
  <2>1. /\ Here(T[0].serial, k, d) = 1
        /\ ~l.packed => Here(H[0].serial, k, d) = 1 /\ Here(H[1].serial, k, d) = 1
    BY <1>0, <1>1, <1>2, <1>3
  <2>2. /\ ~l.packed => \A c \in CTAs : Fills(H[c].serial, k, P) = d + 1
    BY <1>0, <2>1 DEF Here, Bit, CTAs
  <2>3. \A c \in CTAs : /\ LoadsOf(l, d * P + k) \in {1, 2}
                        /\ Owed(l, k, d, T[c].serial, C[c], D[c][k]) \in {0, 1, 2}
    BY <1>0 DEF LoadsOf, Owed, Missing, Bit
  <2>4. /\ Owed(l, k, d, T[0].serial, C[0], D[0][k]) = 0
        /\ Owed(l, k, d, T[1].serial, C[1], D[1][k]) = 0
    <3>1. PICK u, v : u = Owed(l, k, d, T[0].serial, C[0], D[0][k])
                      /\ v = Owed(l, k, d, T[1].serial, C[1], D[1][k])
      OBVIOUS
    <3>2. u \in {0, 1, 2} /\ v \in {0, 1, 2} /\ u + v = 0
      BY <1>0, <1>1, <1>3, <2>1, <2>3, <3>1
    <3> QED BY <3>1, <3>2
  <2>5. \A c \in CTAs : Owed(l, k, d, T[c].serial, C[c], D[c][k]) = 0
    BY <2>4 DEF CTAs
  <2>6. \A c \in CTAs : Fills(T[c].serial, k, P) = d + 1 /\ Missing(l, d * P + k, C[c], D[c][k]) = 0
    BY <1>0, <2>3, <2>5 DEF Owed
  <2>7. \A c \in CTAs : D[c][k].landed
    BY <1>0, <2>6 DEF Missing, Bit
  <2>8. bar = Barrier(n, n, 0, d + 1)
    BY <1>3 DEF Settle
  <2>9. FullOk(l, k, bar, m, T, H, C, D)
    BY <1>0, <2>2, <2>6, <2>7, <2>8, FullSettles
  <2>10. bar.done = d + 1
    BY <1>0, <2>8 DEF Barrier
  <2> QED BY <2>6, <2>9, <2>10
<1>4. CASE ~(left = 0 /\ tx = 0)
  <2>1. bar = [count |-> n, left |-> left, tx |-> tx, done |-> d]
    BY <1>4 DEF Settle, Barrier
  <2>2. bar \in BarrierType /\ bar.count = n /\ bar.left = left /\ bar.tx = tx /\ bar.done = d
    BY <1>0, <1>1, <2>1 DEF BarrierType
  <2>3. \A c \in CTAs :
          /\ d <= Fills(T[c].serial, k, P)
          /\ ~l.packed => d <= Fills(H[c].serial, k, P)
          /\ d = Fills(T[c].serial, k, P) => D[c][k].landed
    BY <1>0
  <2>4. /\ left = n - Here(T[Leader].serial, k, d)
                - (IF l.packed THEN 0 ELSE Here(H[0].serial, k, d) + Here(H[1].serial, k, d))
        /\ tx = Owed(l, k, d, T[0].serial, C[0], D[0][k]) + Owed(l, k, d, T[1].serial, C[1], D[1][k])
              - (IF Here(T[Leader].serial, k, d) = 1 THEN 0 ELSE 2 * LoadsOf(l, d * P + k))
    BY <1>0, <1>1
  <2> HIDE DEF Leader
  <2> QED BY ONLY <1>0, <1>4, <2>2, <2>3, <2>4 DEF FullOk
<1> QED BY <1>3, <1>4

\* The loads of A of a phase that ended have landed.
LEMMA PendingAfter ==
  ASSUME NEW l \in Launches, NEW row, NEW x, NEW t, NEW full, NEW new, NEW k \in Slots,
         PendingOk(l, row, x, t, full),
         \A i \in Slots : i # k => new[i].done = full[i].done,
         \/ new[k].done = full[k].done
         \/ \E rows, r : /\ Missing(l, full[k].done * P + k, rows, r) = 0
                         /\ x = IndexAt(l, full[k].done * P + k) => rows[x].landed = row.landed
  PROVE  PendingOk(l, row, x, t, new)
<1>1. CASE row.landed
  BY <1>1 DEF PendingOk
<1>2. CASE ~row.landed
  <2>1. PICK i : i = row.slot
    OBVIOUS
  <2>2. /\ l.packed /\ i \in Slots /\ Fills(t, i, P) = full[i].done + 1
        /\ x = IndexAt(l, full[i].done * P + i) /\ LoadsAt(l, full[i].done * P + i)
    BY <1>2, <2>1 DEF PendingOk
  <2>3. new[i].done = full[i].done
    <3>1. CASE i = k
      <4>1. ASSUME NEW rows, NEW r, Missing(l, full[k].done * P + k, rows, r) = 0,
                   x = IndexAt(l, full[k].done * P + k) => rows[x].landed = row.landed
            PROVE  FALSE
        <5>1. rows[x].landed = row.landed
          BY <2>2, <3>1, <4>1
        <5> QED BY <1>2, <2>2, <3>1, <4>1, <5>1 DEF Missing, Bit
      <4> QED BY <3>1, <4>1
    <3> QED BY <2>2, <3>1
  <2> QED BY <1>2, <2>1, <2>2, <2>3 DEF PendingOk
<1> QED BY <1>1, <1>2

LEMMA FullNow ==
  ASSUME RoleInv, OrderInv, ConsumerInv, OperandInv, NEW k \in Slots, NEW bar, bar = operand_full[k]
  PROVE  /\ AfterOk(launch, k, mma, bar.done, tma, gather, a, b, bar.count, bar.left, bar.tx)
         /\ bar \in BarrierType
<1>1. FullOk(launch, k, bar, mma, tma, gather, a, b)
  BY DEF OperandInv
<1>2. Fills(mma.serial, k, P) \in Nat
  BY Where, Sizes, FillsNext DEF Slots
<1>3. \A c \in CTAs : /\ Fills(tma[c].serial, k, P) \in {bar.done, bar.done + 1}
                      /\ ~launch.packed => Fills(gather[c].serial, k, P) \in {bar.done, bar.done + 1}
                      /\ b[c][k].landed \in BOOLEAN
  BY OperandWindow DEF OperandInv, IsRowB, packed
<1> QED BY <1>1, <1>2, <1>3 DEF FullOk, AfterOk, BarrierType, Leader

LEMMA SetLanded ==
  ASSUME NEW t, NEW k, NEW l, NEW v
  PROVE  /\ [[tag |-> t, landed |-> l] EXCEPT !.landed = v] = [tag |-> t, landed |-> v]
         /\ [[tag |-> t, slot |-> k, landed |-> l] EXCEPT !.landed = v]
            = [tag |-> t, slot |-> k, landed |-> v]
OBVIOUS

LEMMA LandedRows ==
  ASSUME NEW r
  PROVE  /\ IsRowB(r) => [r EXCEPT !.landed = TRUE] = [tag |-> r.tag, landed |-> TRUE]
         /\ IsRowA(r) => [r EXCEPT !.landed = TRUE] = [tag |-> r.tag, slot |-> r.slot, landed |-> TRUE]
<1>1. PICK t, k, l, v : t = r.tag /\ k = r.slot /\ l = r.landed /\ v = TRUE
  OBVIOUS
<1>2. IsRowB(r) => r = [tag |-> t, landed |-> l]
  BY <1>1 DEF IsRowB
<1>3. IsRowA(r) => r = [tag |-> t, slot |-> k, landed |-> l]
  BY <1>1 DEF IsRowA
<1>4. IsRowB(r) => [r EXCEPT !.landed = v] = [tag |-> t, landed |-> v]
  BY ONLY <1>2, SetLanded
<1>5. IsRowA(r) => [r EXCEPT !.landed = v] = [tag |-> t, slot |-> k, landed |-> v]
  BY ONLY <1>3, SetLanded
<1> QED BY ONLY <1>1, <1>4, <1>5, Zenon

LEMMA TmaLandOperand ==
  ASSUME RoleInv, OrderInv, ConsumerInv, OperandInv, NEW c \in CTAs, NEW k \in Slots, TmaLand(c, k)
  PROVE  OperandInv'
<1> DEFINE D == b'
           bar == operand_full[k]
           new == operand_full'[k]
           d == bar.done
<1>1. /\ launch \in Launches /\ ~b[c][k].landed
      /\ UNCHANGED <<launch, operand_empty, a, tma, gather, mma, in_flight>>
      /\ operand_full' = [operand_full EXCEPT ![k] = CompleteTx(@, 1)]
  BY DEF TmaLand, RoleInv, producers, matrix
<1>2. /\ OnGrid(D, CTAs, Slots)
      /\ \A e \in CTAs, i \in Slots :
           D[e][i] = IF e = c /\ i = k THEN [tag |-> b[c][k].tag, landed |-> TRUE] ELSE b[e][i]
  <2>1. IsRowB(b[c][k]) /\ OnGrid(b, CTAs, Slots)
    BY DEF OperandInv
  <2>2. [b[c][k] EXCEPT !.landed = TRUE] = [tag |-> b[c][k].tag, landed |-> TRUE]
    BY <2>1, LandedRows
  <2>3. Replaced(D, b, c, k, [b[c][k] EXCEPT !.landed = TRUE])
    BY DEF TmaLand, Replaced
  <2>4. Replaced(D, b, c, k, [tag |-> b[c][k].tag, landed |-> TRUE])
    BY <2>2, <2>3
  <2> HIDE DEF D
  <2> QED BY ONLY <2>1, <2>4, Grid, c \in CTAs, k \in Slots
<1>3. /\ operand_full' = [i \in Slots |-> operand_full'[i]]
      /\ new = CompleteTx(bar, 1) /\ \A i \in Slots : i # k => operand_full'[i] = operand_full[i]
  BY <1>1 DEF OperandInv
<1>4. AfterOk(launch, k, mma, d, tma, gather, a, b, bar.count, bar.left, bar.tx) /\ bar \in BarrierType
  BY FullNow
<1> HIDE DEF D, bar, new, d
<1>5. Fills(tma[c].serial, k, P) = d + 1
  BY <1>1, <1>4 DEF AfterOk
<1>6. /\ Owed(launch, k, d, tma[c].serial, a[c], b[c][k])
         = Owed(launch, k, d, tma[c].serial, a[c], D[c][k]) + 1
      /\ \A e \in CTAs \ {c} : D[e][k] = b[e][k]
      /\ \A e \in CTAs : Owed(launch, k, d, tma[e].serial, a[e], D[e][k]) \in Int
  <2>1. D[c][k].landed = TRUE /\ b[c][k].landed = FALSE
    BY <1>1, <1>2 DEF OperandInv, IsRowB
  <2>2. Fills(tma[c].serial, k, P) # d
    BY <1>4, <1>5 DEF AfterOk
  <2> QED BY <1>2, <2>1, <2>2 DEF Owed, Missing, Bit, LoadsOf
<1>7. AfterOk(launch, k, mma, d, tma, gather, a, D, bar.count, bar.left, bar.tx - 1)
  <2>1. \A e \in CTAs : D[e][k].landed \in BOOLEAN /\ (b[e][k].landed => D[e][k].landed)
    <3> TAKE e \in CTAs
    <3>1. b[e][k].landed \in BOOLEAN
      BY DEF OperandInv, IsRowB
    <3>2. CASE e = c
      <4>1. D[e][k].landed = TRUE
        BY <1>2, <3>2
      <4> QED BY <4>1
    <3>3. CASE e # c
      BY <1>2, <3>1, <3>3
    <3> QED BY <3>2, <3>3
  <2>2. PICK u0, u1, v0, v1 :
          /\ u0 = Owed(launch, k, d, tma[0].serial, a[0], b[0][k])
          /\ u1 = Owed(launch, k, d, tma[1].serial, a[1], b[1][k])
          /\ v0 = Owed(launch, k, d, tma[0].serial, a[0], D[0][k])
          /\ v1 = Owed(launch, k, d, tma[1].serial, a[1], D[1][k])
    OBVIOUS
  <2>3. v0 \in Int /\ v1 \in Int /\ u0 + u1 = v0 + v1 + 1 /\ u0 \in Int /\ u1 \in Int
    BY <1>6, <2>2 DEF CTAs
  <2>4. PICK w : w = IF Here(tma[0].serial, k, d) = 1 THEN 0 ELSE 2 * LoadsOf(launch, d * P + k)
    OBVIOUS
  <2>5. w \in Int /\ bar.tx = u0 + u1 - w
    BY <1>4, <2>2, <2>4 DEF AfterOk, LoadsOf, Bit
  <2>6. bar.tx - 1 = v0 + v1 - w /\ bar.tx - 1 \in Int
    BY <2>3, <2>5
  <2>7. bar.tx - 1 = Owed(launch, k, d, tma[0].serial, a[0], D[0][k])
                     + Owed(launch, k, d, tma[1].serial, a[1], D[1][k])
                     - (IF Here(tma[0].serial, k, d) = 1 THEN 0 ELSE 2 * LoadsOf(launch, d * P + k))
    BY <2>2, <2>4, <2>6
  <2> QED BY <1>4, <2>1, <2>6, <2>7 DEF AfterOk
<1>8. new = Settle(bar.count, bar.left, bar.tx - 1, d)
  BY <1>3 DEF CompleteTx, d
<1>9. /\ FullOk(launch, k, new, mma, tma, gather, a, D)
      /\ new.done = d \/ \A e \in CTAs : Missing(launch, d * P + k, a[e], D[e][k]) = 0
  BY <1>1, <1>7, <1>8, FullAfter
<1>10. ASSUME NEW i \in Slots PROVE FullOk(launch, i, operand_full'[i], mma, tma, gather, a, D)
  <2>1. CASE i = k
    BY <1>9, <2>1 DEF new
  <2>2. CASE i # k
    <3>1. FullOk(launch, i, operand_full[i], mma, tma, gather, a, b)
      BY DEF OperandInv
    <3>2. operand_full'[i] = operand_full[i] /\ \A e \in CTAs : D[e][i] = b[e][i]
      BY <1>2, <1>3, <2>2
    <3> QED BY <3>1, <3>2 DEF FullOk, CTAs
  <2> QED BY <2>1, <2>2
<1>11. ASSUME NEW e \in CTAs, NEW z \in Rows
       PROVE  IsRowA(a[e][z]) /\ PendingOk(launch, a[e][z], z, tma[e].serial, operand_full')
  <2>1. IsRowA(a[e][z]) /\ PendingOk(launch, a[e][z], z, tma[e].serial, operand_full)
    BY DEF OperandInv
  <2>2. \A i \in Slots : i # k => operand_full'[i].done = operand_full[i].done
    BY <1>3
  <2>3. \/ operand_full'[k].done = operand_full[k].done
        \/ \E rows, r : /\ Missing(launch, operand_full[k].done * P + k, rows, r) = 0
                        /\ z = IndexAt(launch, operand_full[k].done * P + k)
                           => rows[z].landed = a[e][z].landed
    BY <1>9 DEF new, bar, d
  <2> QED BY <1>1, <2>1, <2>2, <2>3, PendingAfter
<1>12. ASSUME NEW e \in CTAs PROVE HoldsB(launch, tma[e].serial, D[e])
  <2>1. HoldsB(launch, tma[e].serial, b[e])
    BY DEF OperandInv
  <2>2. \A i \in Slots : D[e][i].tag = b[e][i].tag
    BY <1>2
  <2>3. \A s \in 0 .. tma[e].serial - 1 : s % P \in Slots
    <3>1. P \in Nat \ {0} /\ tma[e].serial \in Nat
      BY Sizes, Where
    <3> QED BY <3>1, FillsAt DEF Slots
  <2> QED BY <2>1, <2>2, <2>3 DEF HoldsB
<1>13. ASSUME NEW e \in CTAs, NEW i \in Slots PROVE IsRowB(D[e][i])
  <2>1. CASE e = c /\ i = k
    <3>1. D[e][i] = [tag |-> b[c][k].tag, landed |-> TRUE]
      BY <1>2, <2>1
    <3> QED BY <3>1 DEF IsRowB
  <2>2. CASE ~(e = c /\ i = k)
    <3>1. D[e][i] = b[e][i]
      BY <1>2, <2>2
    <3> QED BY <3>1 DEF OperandInv
  <2> QED BY <2>1, <2>2
<1>14. /\ Retired' = Retired /\ \A e \in CTAs : LoaderA(e)' = LoaderA(e)
  BY <1>1 DEF Retired, LoaderA, packed
<1> QED BY <1>1, <1>2, <1>3, <1>10, <1>11, <1>12, <1>13, <1>14 DEF OperandInv, D

LEMMA TmaLandAOperand ==
  ASSUME RoleInv, OrderInv, ConsumerInv, OperandInv, NEW c \in CTAs, NEW y \in Rows, TmaLandA(c, y)
  PROVE  OperandInv'
<1> DEFINE C == a'
           k == a[c][y].slot
           bar == operand_full[k]
           new == operand_full'[k]
           d == bar.done
<1>1. /\ launch \in Launches /\ ~a[c][y].landed
      /\ UNCHANGED <<launch, operand_empty, b, tma, gather, mma, in_flight>>
      /\ operand_full' = [operand_full EXCEPT ![k] = CompleteTx(@, 1)]
  BY DEF TmaLandA, RoleInv, producers, matrix
<1>2. /\ OnGrid(C, CTAs, Rows)
      /\ \A e \in CTAs, z \in Rows : C[e][z] =
           IF e = c /\ z = y THEN [tag |-> a[c][y].tag, slot |-> k, landed |-> TRUE] ELSE a[e][z]
  <2>1. IsRowA(a[c][y]) /\ OnGrid(a, CTAs, Rows)
    BY DEF OperandInv
  <2>2. [a[c][y] EXCEPT !.landed = TRUE] = [tag |-> a[c][y].tag, slot |-> k, landed |-> TRUE]
    BY <2>1, LandedRows
  <2>3. Replaced(C, a, c, y, [a[c][y] EXCEPT !.landed = TRUE])
    BY DEF TmaLandA, Replaced
  <2>4. Replaced(C, a, c, y, [tag |-> a[c][y].tag, slot |-> k, landed |-> TRUE])
    BY <2>2, <2>3
  <2> HIDE DEF C, k
  <2> QED BY ONLY <2>1, <2>4, Grid, c \in CTAs, y \in Rows
<1>3. /\ k \in Slots /\ launch.packed /\ Fills(tma[c].serial, k, P) = d + 1
      /\ y = IndexAt(launch, d * P + k) /\ LoadsAt(launch, d * P + k)
  BY <1>1 DEF OperandInv, PendingOk
<1> HIDE DEF C, k
<1>4. /\ operand_full' = [i \in Slots |-> operand_full'[i]]
      /\ new = CompleteTx(bar, 1) /\ \A i \in Slots : i # k => operand_full'[i] = operand_full[i]
  BY <1>1, <1>3 DEF OperandInv
<1>5. AfterOk(launch, k, mma, d, tma, gather, a, b, bar.count, bar.left, bar.tx) /\ bar \in BarrierType
  BY <1>3, FullNow
<1>s. /\ d * P + k \in Nat /\ (d * P + k) % P = k /\ mma.serial <= d * P + k
      /\ d * P + k < tma[c].serial /\ tma[c].serial <= mma.serial + P
      /\ mma.serial \in Nat /\ tma[c].serial \in Nat
  BY <1>3, OperandWindow, Where
<1> HIDE DEF bar, new, d
<1>6. /\ Owed(launch, k, d, tma[c].serial, a[c], b[c][k])
         = Owed(launch, k, d, tma[c].serial, C[c], b[c][k]) + 1
      /\ Owed(launch, k, d, tma[c].serial, C[c], b[c][k]) \in Int
  <2>1. C[c][y].landed = TRUE /\ a[c][y].landed = FALSE /\ b[c][k].landed \in BOOLEAN
    <3>1. a[c][y].landed \in BOOLEAN /\ b[c][k].landed \in BOOLEAN
      BY <1>3 DEF OperandInv, IsRowA, IsRowB
    <3>2. C[c][y].landed = TRUE
      BY <1>2
    <3> QED BY <1>1, <3>1, <3>2
  <2>2. Fills(tma[c].serial, k, P) # d
    BY <1>3, <1>5 DEF AfterOk
  <2> QED BY <1>3, <2>1, <2>2 DEF Owed, Missing, Bit
<1>7. \A e \in CTAs \ {c}, i \in Slots :
        /\ Owed(launch, i, operand_full[i].done, tma[e].serial, C[e], b[e][i])
           = Owed(launch, i, operand_full[i].done, tma[e].serial, a[e], b[e][i])
        /\ Owed(launch, i, operand_full[i].done, tma[e].serial, a[e], b[e][i]) \in Int
  <2> TAKE e \in CTAs \ {c}, i \in Slots
  <2>1. \A z \in Rows : C[e][z] = a[e][z]
    BY <1>2
  <2>2. operand_full[i].done * P + i \in Nat
    BY OperandWindow
  <2>3. IndexAt(launch, operand_full[i].done * P + i) \in Rows
    BY <1>1, <2>2, IndexRange
  <2> QED BY <2>1, <2>3 DEF Owed, Missing, LoadsOf, Bit
<1>8. \A i \in Slots \ {k} :
         Owed(launch, i, operand_full[i].done, tma[c].serial, C[c], b[c][i])
         = Owed(launch, i, operand_full[i].done, tma[c].serial, a[c], b[c][i])
  <2> TAKE i \in Slots \ {k}
  <2> DEFINE s == operand_full[i].done * P + i
             t == d * P + k
  <2>1. /\ s \in Nat /\ mma.serial <= s /\ s % P = i
        /\ Fills(tma[c].serial, i, P) \in {operand_full[i].done, operand_full[i].done + 1}
        /\ Fills(tma[c].serial, i, P) = operand_full[i].done + 1 => s < tma[c].serial
    BY OperandWindow
  <2>2. Fills(tma[c].serial, i, P) # operand_full[i].done /\ LoadsAt(launch, s)
        => C[c][IndexAt(launch, s)] = a[c][IndexAt(launch, s)]
    <3> SUFFICES ASSUME Fills(tma[c].serial, i, P) # operand_full[i].done, LoadsAt(launch, s)
                 PROVE  C[c][IndexAt(launch, s)] = a[c][IndexAt(launch, s)]
      OBVIOUS
    <3>1. s # t /\ s < tma[c].serial
      BY <1>s, <2>1
    <3>2. t \in Nat /\ mma.serial <= t /\ t < tma[c].serial /\ LoadsAt(launch, t) /\ y = IndexAt(launch, t)
      BY <1>3, <1>s
    <3> HIDE DEF s, t
    <3>3. s < t + P /\ t < s + P /\ (s < t \/ t < s)
      BY <1>s, <2>1, <3>1, <3>2, Sizes
    <3>4. IndexAt(launch, s) # y
      BY <1>1, <2>1, <3>2, <3>3, RowsApart
    <3>5. IndexAt(launch, s) \in Rows
      BY <1>1, <2>1, IndexRange
    <3> QED BY <1>2, <3>4, <3>5
  <2> QED BY <2>2 DEF Owed, Missing
<1>9. AfterOk(launch, k, mma, d, tma, gather, C, b, bar.count, bar.left, bar.tx - 1)
  <2>2. PICK u0, u1, v0, v1 :
          /\ u0 = Owed(launch, k, d, tma[0].serial, a[0], b[0][k])
          /\ u1 = Owed(launch, k, d, tma[1].serial, a[1], b[1][k])
          /\ v0 = Owed(launch, k, d, tma[0].serial, C[0], b[0][k])
          /\ v1 = Owed(launch, k, d, tma[1].serial, C[1], b[1][k])
    OBVIOUS
  <2>3. v0 \in Int /\ v1 \in Int /\ u0 + u1 = v0 + v1 + 1 /\ u0 \in Int /\ u1 \in Int
    <3>1. \A e \in CTAs \ {c} :
            /\ Owed(launch, k, d, tma[e].serial, C[e], b[e][k]) = Owed(launch, k, d, tma[e].serial, a[e], b[e][k])
            /\ Owed(launch, k, d, tma[e].serial, a[e], b[e][k]) \in Int
      BY <1>3, <1>7 DEF d, bar
    <3> QED BY <1>6, <2>2, <3>1 DEF CTAs
  <2>4. PICK w : w = IF Here(tma[0].serial, k, d) = 1 THEN 0 ELSE 2 * LoadsOf(launch, d * P + k)
    OBVIOUS
  <2>5. w \in Int /\ bar.tx = u0 + u1 - w
    BY <1>5, <2>2, <2>4 DEF AfterOk, LoadsOf, Bit
  <2>6. bar.tx - 1 = v0 + v1 - w /\ bar.tx - 1 \in Int
    BY <2>3, <2>5
  <2>7. bar.tx - 1 = Owed(launch, k, d, tma[0].serial, C[0], b[0][k])
                     + Owed(launch, k, d, tma[1].serial, C[1], b[1][k])
                     - (IF Here(tma[0].serial, k, d) = 1 THEN 0 ELSE 2 * LoadsOf(launch, d * P + k))
    BY <2>2, <2>4, <2>6
  <2> QED BY <1>5, <2>6, <2>7 DEF AfterOk
<1>10. new = Settle(bar.count, bar.left, bar.tx - 1, d)
  BY <1>4 DEF CompleteTx, d
<1>11. /\ FullOk(launch, k, new, mma, tma, gather, C, b)
       /\ new.done = d \/ \A e \in CTAs : Missing(launch, d * P + k, C[e], b[e][k]) = 0
  BY <1>1, <1>9, <1>10, FullAfter
<1>12. ASSUME NEW i \in Slots PROVE FullOk(launch, i, operand_full'[i], mma, tma, gather, C, b)
  <2>1. CASE i = k
    BY <1>11, <2>1 DEF new
  <2>2. CASE i # k
    <3>1. FullOk(launch, i, operand_full[i], mma, tma, gather, a, b)
      BY DEF OperandInv
    <3>2. operand_full'[i] = operand_full[i]
      BY <1>4, <2>2
    <3>3. \A e \in CTAs : Owed(launch, i, operand_full[i].done, tma[e].serial, C[e], b[e][i])
                          = Owed(launch, i, operand_full[i].done, tma[e].serial, a[e], b[e][i])
      BY <1>7, <1>8, <2>2
    <3> QED BY <1>1, <3>1, <3>2, <3>3, FullSame
  <2> QED BY <2>1, <2>2
<1>13. ASSUME NEW e \in CTAs, NEW z \in Rows
       PROVE  IsRowA(C[e][z]) /\ PendingOk(launch, C[e][z], z, tma[e].serial, operand_full')
  <2>1. IsRowA(a[e][z]) /\ PendingOk(launch, a[e][z], z, tma[e].serial, operand_full)
    BY DEF OperandInv
  <2>2. CASE e = c /\ z = y
    <3>1. C[e][z] = [tag |-> a[c][y].tag, slot |-> k, landed |-> TRUE]
      BY <1>2, <2>2
    <3> QED BY <3>1 DEF IsRowA, PendingOk
  <2>3. CASE ~(e = c /\ z = y)
    <3>1. C[e][z] = a[e][z]
      BY <1>2, <2>3
    <3>2. \A i \in Slots : i # k => operand_full'[i].done = operand_full[i].done
      BY <1>4
    <3>3. \/ operand_full'[k].done = operand_full[k].done
          \/ \E rows, r : /\ Missing(launch, operand_full[k].done * P + k, rows, r) = 0
                          /\ z = IndexAt(launch, operand_full[k].done * P + k)
                             => rows[z].landed = C[e][z].landed
      BY <1>11 DEF new, bar, d
    <3>4. IsRowA(C[e][z]) /\ PendingOk(launch, C[e][z], z, tma[e].serial, operand_full)
      BY <2>1, <3>1
    <3> QED BY ONLY <1>1, <1>3, <3>2, <3>3, <3>4, PendingAfter
  <2> QED BY <2>2, <2>3
<1>14. ASSUME NEW e \in CTAs PROVE HoldsA(launch, LoaderA(e), C[e])
  <2>1. HoldsA(launch, LoaderA(e), a[e])
    BY DEF OperandInv
  <2>2. \A z \in Rows : C[e][z].tag = a[e][z].tag
    BY <1>2
  <2>3. \A s \in 0 .. LoaderA(e) - 1 : IndexAt(launch, s) \in Rows
    BY <1>1, IndexRange, Where DEF LoaderA
  <2> QED BY <2>1, <2>2, <2>3 DEF HoldsA
<1>15. /\ Retired' = Retired /\ \A e \in CTAs : LoaderA(e)' = LoaderA(e)
  BY <1>1 DEF Retired, LoaderA, packed
<1> QED BY <1>1, <1>2, <1>4, <1>12, <1>13, <1>14, <1>15 DEF OperandInv, C

LEMMA GatherOperand ==
  ASSUME RoleInv, OrderInv, ConsumerInv, OperandInv, NEW c \in CTAs, Gather(c)
  PROVE  OperandInv'
<1> DEFINE p == gather[c]
           x == p.serial
           k == x % P
           y == IndexAt(launch, x)
           d == x \div P
           Takes == LoadsAt(launch, x)
           row == ARow(p, TRUE)
           bar == operand_full[k]
           new == operand_full'[k]
           H == gather'
           C == a'
<1>1. /\ launch \in Launches /\ mma.serial \in Nat /\ ~launch.packed
      /\ x \in Nat /\ k \in Slots /\ P \in Nat \ {0} /\ y \in Rows /\ IsStep(launch, p)
      /\ d \in Nat /\ Fills(x, k, P) = d
      /\ \A e \in CTAs : tma[e].serial \in Nat /\ gather[e].serial \in Nat
  <2>1. /\ launch \in Launches /\ IsStep(launch, p) /\ ~packed
        /\ x \in Nat /\ mma.serial \in Nat /\ P \in Nat \ {0}
        /\ \A e \in CTAs : tma[e].serial \in Nat /\ gather[e].serial \in Nat
    BY GatherRole, Where, Sizes
  <2>2. k \in Slots /\ Fills(x, k, P) = d /\ d \in Nat /\ y \in Rows
    BY <2>1, FillsAt, IndexRange DEF Slots
  <2> HIDE DEF x, k, d, y
  <2> QED BY <2>1, <2>2 DEF packed
<1>2. /\ RowAt(launch, x) = <<p.work, p.group>>
      /\ ASlot(p) = y /\ Slot(p) = k /\ LoadsA(p) = LoadsAt(launch, x)
  BY <1>1, TagOf DEF ASlot, CacheA, Cached, IndexAt, Slot, groups, IsStep, Placed, GroupAt,
                     LoadsA, LoadsAt
<1>3. /\ H[c].serial = x + 1 /\ \A e \in CTAs \ {c} : H[e] = gather[e]
      /\ UNCHANGED <<launch, operand_empty, b, tma, mma, in_flight>>
  BY GatherRole DEF Gather, matrix
<1>4. bar.done = d
  <2>1. bar.done <= Fills(x, k, P)
    BY <1>1 DEF OperandInv, FullOk
  <2>2. x < Retired + P
    BY GatherRole
  <2> QED BY <1>1, <2>1, <2>2, AtSlot
<1>5. \A e \in CTAs, z \in Rows : a[e][z].landed = TRUE
  <2> TAKE e \in CTAs, z \in Rows
  <2>1. IsRowA(a[e][z]) /\ PendingOk(launch, a[e][z], z, tma[e].serial, operand_full)
    BY DEF OperandInv
  <2> QED BY <1>1, <2>1 DEF IsRowA, PendingOk
<1>6. /\ OnGrid(C, CTAs, Rows)
      /\ \A e \in CTAs, i \in Rows :
           C[e][i] = IF Takes /\ e = c /\ i = y THEN row ELSE a[e][i]
  <2>1. OnGrid(a, CTAs, Rows)
    BY DEF OperandInv
  <2>2. CASE Takes
    <3>1. Replaced(C, a, c, y, row)
      BY <1>2, <2>2 DEF Gather, Replaced
    <3> HIDE DEF C, y, row, Takes, x
    <3>2. OnGrid(C, CTAs, Rows) /\ \A e \in CTAs, i \in Rows : C[e][i] = IF e = c /\ i = y THEN row ELSE a[e][i]
      BY ONLY <1>1, <2>1, <3>1, Grid, c \in CTAs
    <3> QED BY <2>2, <3>2
  <2>3. CASE ~Takes
    BY <1>2, <2>1, <2>3 DEF Gather
  <2> QED BY <2>2, <2>3
<1>7. /\ operand_full' = [i \in Slots |-> operand_full'[i]]
      /\ new = Arrive(bar) /\ \A i \in Slots : i # k => operand_full'[i] = operand_full[i]
  <2>1. operand_full' = [operand_full EXCEPT ![k] = Arrive(@)]
    BY <1>2 DEF Gather
  <2> HIDE DEF k
  <2> QED BY <1>1, <2>1 DEF OperandInv
<1>8. d * P + k = x
  BY <1>1, FillsAt
<1>9. AfterOk(launch, k, mma, d, tma, gather, a, b, bar.count, bar.left, bar.tx) /\ bar \in BarrierType
  <2>1. AfterOk(launch, k, mma, bar.done, tma, gather, a, b, bar.count, bar.left, bar.tx) /\ bar \in BarrierType
    <3> HIDE DEF k
    <3> QED BY <1>1, FullNow
  <2> QED BY <1>4, <2>1
<1> HIDE DEF p, x, k, y, d, Takes, bar, new, H, C
<1>10. \A e \in CTAs, i \in Slots : \A u, v : Owed(launch, i, u, v, C[e], b[e][i]) = Owed(launch, i, u, v, a[e], b[e][i])
  BY <1>1 DEF Owed, Missing
<1>11. \A i \in Slots : Fills(H[c].serial, i, P)
                        = IF i = k THEN Fills(gather[c].serial, i, P) + 1 ELSE Fills(gather[c].serial, i, P)
  BY <1>1, <1>3, FillsNext DEF Slots, x, p, k
<1>12. Fills(gather[c].serial, k, P) = d /\ Fills(H[c].serial, k, P) = d + 1
  <2>1. Fills(gather[c].serial, k, P) = d
    BY <1>1 DEF x, p
  <2> QED BY <1>1, <1>11, <2>1
<1>13. AfterOk(launch, k, mma, d, tma, H, C, b, bar.count, bar.left - 1, bar.tx)
  <2>1. Here(gather[0].serial, k, d) + Here(gather[1].serial, k, d) + 1
        = Here(H[0].serial, k, d) + Here(H[1].serial, k, d)
    <3>1. Here(gather[c].serial, k, d) = 0 /\ Here(H[c].serial, k, d) = 1
      BY <1>1, <1>12 DEF Here, Bit
    <3>2. \A e \in CTAs \ {c} : Here(gather[e].serial, k, d) = Here(H[e].serial, k, d)
      BY <1>3
    <3>3. \A e \in CTAs : Here(gather[e].serial, k, d) \in {0, 1}
      BY DEF Here, Bit
    <3> QED BY <3>1, <3>2, <3>3 DEF CTAs
  <2>2. \A e \in CTAs : Fills(H[e].serial, k, P) \in {d, d + 1}
    <3> TAKE e \in CTAs
    <3>1. CASE e = c
      BY <1>12, <3>1
    <3>2. CASE e # c
      <4>1. H[e] = gather[e]
        BY <1>3, <3>2
      <4> QED BY <1>1, <1>9, <4>1 DEF AfterOk
    <3> QED BY <3>1, <3>2
  <2>3. \A e \in CTAs : Owed(launch, k, d, tma[e].serial, C[e], b[e][k]) = Owed(launch, k, d, tma[e].serial, a[e], b[e][k])
    BY <1>1, <1>10
  <2>4. PICK g, h : /\ g = Here(gather[0].serial, k, d) + Here(gather[1].serial, k, d)
                    /\ h = Here(H[0].serial, k, d) + Here(H[1].serial, k, d)
    OBVIOUS
  <2>5. g \in Int /\ h = g + 1
    <3>1. \A e \in CTAs : Here(gather[e].serial, k, d) \in {0, 1}
      BY DEF Here, Bit
    <3> QED BY <2>1, <2>4, <3>1 DEF CTAs
  <2>6. bar.left = 3 - Here(tma[0].serial, k, d) - g /\ bar.left \in Int
    BY <1>1, <1>9, <2>4 DEF AfterOk
  <2>7. bar.left - 1 = 3 - Here(tma[0].serial, k, d) - h /\ bar.left - 1 \in Int
    <3>1. Here(tma[0].serial, k, d) \in {0, 1}
      BY DEF Here, Bit
    <3> QED BY <2>5, <2>6, <3>1
  <2> QED BY <1>1, <1>9, <2>2, <2>3, <2>4, <2>7 DEF AfterOk, CTAs
<1>14. new = Settle(bar.count, bar.left - 1, bar.tx, d)
  BY <1>4, <1>7 DEF Arrive
<1>15. FullOk(launch, k, new, mma, tma, H, C, b)
  BY <1>1, <1>13, <1>14, FullAfter
<1>16. ASSUME NEW i \in Slots PROVE FullOk(launch, i, operand_full'[i], mma, tma, H, C, b)
  <2>1. CASE i = k
    BY <1>15, <2>1 DEF new
  <2>2. CASE i # k
    <3>1. FullOk(launch, i, operand_full[i], mma, tma, gather, a, b)
      BY DEF OperandInv
    <3>2. operand_full'[i] = operand_full[i]
      BY <1>7, <2>2
    <3>3. \A e \in CTAs : /\ Fills(H[e].serial, i, P) = Fills(gather[e].serial, i, P)
                          /\ Owed(launch, i, operand_full[i].done, tma[e].serial, C[e], b[e][i])
                             = Owed(launch, i, operand_full[i].done, tma[e].serial, a[e], b[e][i])
      BY <1>3, <1>10, <1>11, <2>2
    <3> QED BY ONLY <1>1, <3>1, <3>2, <3>3, FullSame
  <2> QED BY <2>1, <2>2
<1>17. ASSUME NEW e \in CTAs, NEW z \in Rows
       PROVE  IsRowA(C[e][z]) /\ PendingOk(launch, C[e][z], z, tma[e].serial, operand_full')
  <2>1. CASE Takes /\ e = c /\ z = y
    <3>1. C[e][z] = [tag |-> <<p.work, p.group>>, slot |-> k, landed |-> TRUE]
      BY <1>2, <1>6, <2>1 DEF ARow
    <3> QED BY <3>1 DEF IsRowA, PendingOk
  <2>2. CASE ~(Takes /\ e = c /\ z = y)
    <3>1. C[e][z] = a[e][z] /\ IsRowA(a[e][z]) /\ a[e][z].landed = TRUE
      BY <1>5, <1>6, <2>2 DEF OperandInv
    <3> QED BY <3>1 DEF PendingOk
  <2> QED BY <2>1, <2>2
<1>18. ASSUME NEW e \in CTAs
       PROVE  HoldsA(launch, H[e].serial, C[e])
  <2>1. HoldsA(launch, gather[e].serial, a[e])
    BY <1>1 DEF OperandInv, LoaderA, packed
  <2>2. CASE e # c
    <3>1. (\A z \in Rows : C[e][z] = a[e][z]) /\ H[e] = gather[e]
      BY <1>3, <1>6, <2>2
    <3>3. \A s \in 0 .. gather[e].serial - 1 : IndexAt(launch, s) \in Rows
      BY <1>1, IndexRange
    <3> QED BY <2>1, <3>1, <3>3 DEF HoldsA
  <2>3. CASE e = c
    <3> SUFFICES ASSUME NEW s \in 0 .. x, LoadsAt(launch, s), x + 1 <= s + Keep(launch)
                 PROVE  C[c][IndexAt(launch, s)].tag = RowAt(launch, s)
      BY <1>1, <1>3, <2>3 DEF HoldsA
    <3>1. CASE s = x
      BY <1>1, <1>2, <1>6, <2>3, <3>1 DEF Takes, ARow, y
    <3>2. CASE s # x
      <4>1. s \in Nat /\ s < x /\ ~(s + Keep(launch) <= x) /\ s \in 0 .. x - 1 /\ x <= s + Keep(launch)
        BY <1>1, <3>2, IndexRange
      <4>2. LoadsAt(launch, x) => IndexAt(launch, s) # y
        BY <1>1, <4>1, IndexApart DEF y
      <4>3. IndexAt(launch, s) \in Rows
        BY <1>1, <4>1, IndexRange
      <4>4. a[c][IndexAt(launch, s)].tag = RowAt(launch, s)
        BY <2>1, <2>3, <4>1 DEF HoldsA, x, p
      <4> QED BY <1>6, <4>2, <4>3, <4>4 DEF Takes
    <3> QED BY <3>1, <3>2
  <2> QED BY <2>2, <2>3
<1>19. /\ Retired' = Retired
       /\ \A e \in CTAs : LoaderA(e)' = H[e].serial
  BY <1>1, <1>3 DEF Retired, LoaderA, packed, H
<1> QED BY <1>3, <1>6, <1>7, <1>16, <1>17, <1>18, <1>19 DEF OperandInv, H, C

\* The roles that take a slot do not touch what fills it.
LEMMA MmaIssueOperand ==
  ASSUME RoleInv, OrderInv, ConsumerInv, OperandInv, AccumulatorInv, MmaIssue
  PROVE  OperandInv'
<1>1. /\ UNCHANGED <<launch, operand_full, operand_empty, a, b, tma, gather>> /\ Retired' = Retired
      /\ mma' = Advance(mma) /\ Advance(mma).serial = mma.serial + 1
      /\ mma.serial \div P < operand_full[mma.serial % P].done
  BY MmaRole DEF MmaIssue, barriers, producers
<1>2. mma.serial \in Nat /\ P \in Nat \ {0}
  BY Where, Sizes
<1>3. ASSUME NEW k \in Slots PROVE FullOk(launch, k, operand_full[k], mma', tma, gather, a, b)
  <2>1. FullOk(launch, k, operand_full[k], mma, tma, gather, a, b)
    BY DEF OperandInv
  <2>2. Fills(mma.serial + 1, k, P) = IF k = mma.serial % P THEN Fills(mma.serial, k, P) + 1 ELSE Fills(mma.serial, k, P)
    BY <1>2, FillsNext DEF Slots
  <2>3. k = mma.serial % P => Fills(mma.serial, k, P) = mma.serial \div P /\ mma.serial \div P \in Nat
    BY <1>2, FillsAt
  <2>4. operand_full[k].done \in Nat
    BY <2>1 DEF FullOk, BarrierType
  <2>5. Fills(mma'.serial, k, P) <= operand_full[k].done
    <3>1. Fills(mma.serial, k, P) <= operand_full[k].done
      BY <2>1 DEF FullOk
    <3>2. CASE k = mma.serial % P
      <4>1. Fills(mma'.serial, k, P) = mma.serial \div P + 1 /\ mma.serial \div P < operand_full[k].done
        BY <1>1, <2>2, <2>3, <3>2
      <4>2. PICK n, q : n = operand_full[k].done /\ q = mma.serial \div P
        OBVIOUS
      <4>3. n \in Nat /\ q \in Nat /\ q < n /\ Fills(mma'.serial, k, P) = q + 1
        BY <2>3, <2>4, <3>2, <4>1, <4>2
      <4> QED BY <4>2, <4>3
    <3>3. CASE k # mma.serial % P
      BY <1>1, <2>2, <3>1, <3>3
    <3> QED BY <3>2, <3>3
  <2> QED BY <2>1, <2>5 DEF FullOk
<1>4. \A e \in CTAs : LoaderA(e)' = LoaderA(e)
  BY <1>1 DEF LoaderA, packed
<1> QED BY <1>1, <1>3, <1>4 DEF OperandInv

LEMMA RetireOperand ==
  ASSUME RoleInv, OrderInv, ConsumerInv, OperandInv, MmaRetire
  PROVE  OperandInv'
<1> DEFINE x == Retired
           E == operand_empty'
<1>1. /\ Head(in_flight).serial = x /\ Retired' = x + 1 /\ x \in Nat /\ P \in Nat \ {0}
      /\ UNCHANGED <<launch, operand_full, a, b, tma, gather, mma>>
  BY RetireRole, Where, Sizes DEF MmaRetire, producers
<1>2. operand_empty' = [c \in CTAs |-> [operand_empty[c] EXCEPT ![x % P] = Arrive(@)]]
  BY <1>1 DEF MmaRetire, Slot
<1> HIDE DEF x
<1>3. x % P \in Slots
  BY <1>1, FillsAt DEF Slots
<1>4. /\ OnGrid(E, CTAs, Slots)
      /\ \A c \in CTAs, k \in Slots : E[c][k] = IF k = x % P THEN Arrive(operand_empty[c][k]) ELSE operand_empty[c][k]
  <2>1. OnGrid(operand_empty, CTAs, Slots)
    BY DEF OperandInv
  <2>2. PICK j : j = x % P
    OBVIOUS
  <2> QED BY <1>2, <1>3, <2>1, <2>2 DEF OnGrid
<1>5. ASSUME NEW c \in CTAs, NEW k \in Slots PROVE Single(E[c][k], Fills(x + 1, k, P))
  <2>1. Single(operand_empty[c][k], Fills(x, k, P))
    BY DEF OperandInv, x
  <2>2. Fills(x, k, P) \in Nat /\ Fills(x + 1, k, P) = IF k = x % P THEN Fills(x, k, P) + 1 ELSE Fills(x, k, P)
    BY <1>1, FillsNext DEF Slots
  <2> QED BY <1>4, <2>1, <2>2, SingleArrive
<1>6. \A e \in CTAs : LoaderA(e)' = LoaderA(e)
  BY <1>1 DEF LoaderA, packed
<1> QED BY <1>1, <1>4, <1>5, <1>6 DEF OperandInv, E

-----------------------------------------------------------------------------
(* The consumer warps.                                                     *)

LEMMA AppendIs ==
  ASSUME NEW n \in Nat, NEW f, f = [i \in 1 .. n |-> f[i]], NEW e
  PROVE  Append(f, e) = [i \in 1 .. n + 1 |-> IF i = n + 1 THEN e ELSE f[i]]
<1>1. Len(f) = n /\ f \in Seq({f[i] : i \in 1 .. n})
  OBVIOUS
<1>2. Append(f, e) = [i \in 1 .. Len(f) + 1 |-> IF i = Len(f) + 1 THEN e ELSE f[i]]
  BY <1>1
<1> QED BY <1>1, <1>2

Total(f, S) == f = [i \in S |-> f[i]]
Put(g, f, k, v) == g = [f EXCEPT ![k] = v]

LEMMA Replaces ==
  ASSUME NEW S, NEW f, Total(f, S), NEW k \in S, NEW v, NEW g, Put(g, f, k, v)
  PROVE  Total(g, S) /\ \A i \in S : g[i] = IF i = k THEN v ELSE f[i]
BY DEF Total, Put

LEMMA SumNext ==
  ASSUME NEW w, NEW h, NEW n \in Nat
  PROVE  /\ Append(SumOf(w, h, n), <<w, h, n>>) = SumOf(w, h, n + 1)
         /\ SumOf(w, h, 0) = <<>>
<1>1. PICK f : f = SumOf(w, h, n)
  OBVIOUS
<1>2. f = [i \in 1 .. n |-> f[i]] /\ \A i \in 1 .. n : f[i] = <<w, h, i - 1>>
  BY <1>1 DEF SumOf
<1>3. PICK e : e = <<w, h, n>>
  OBVIOUS
<1>4. Append(f, e) = [i \in 1 .. n + 1 |-> IF i = n + 1 THEN e ELSE f[i]]
  BY <1>2, AppendIs
<1>5. \A i \in 1 .. n + 1 : (IF i = n + 1 THEN e ELSE f[i]) = <<w, h, i - 1>>
  BY <1>2, <1>3
<1>6. Append(f, e) = [i \in 1 .. n + 1 |-> <<w, h, i - 1>>]
  BY <1>4, <1>5
<1>7. SumOf(w, h, 0) = <<>>
  BY DEF SumOf
<1> QED BY <1>1, <1>3, <1>6, <1>7 DEF SumOf

LEMMA StoredNext ==
  ASSUME NEW l, NEW n \in Nat, NEW e, e = PromisedIn(l, n + 1)
  PROVE  Append([i \in 1 .. n |-> PromisedIn(l, i)], e) = [i \in 1 .. n + 1 |-> PromisedIn(l, i)]
<1>1. PICK f : f = [i \in 1 .. n |-> PromisedIn(l, i)]
  OBVIOUS
<1>2. f = [i \in 1 .. n |-> f[i]] /\ \A i \in 1 .. n : f[i] = PromisedIn(l, i)
  BY <1>1
<1>3. Append(f, e) = [i \in 1 .. n + 1 |-> IF i = n + 1 THEN e ELSE f[i]]
  BY <1>2, AppendIs
<1>4. \A i \in 1 .. n + 1 : (IF i = n + 1 THEN e ELSE f[i]) = PromisedIn(l, i)
  BY <1>2
<1> QED BY <1>1, <1>3, <1>4

\* One warp's step, on its values.
LEMMA PaddingOk ==
  ASSUME launch \in Launches, NEW p, NEW frag, NEW tot, NEW hid, NEW out,
         ConsumerOk(launch, p, "item", frag, tot, hid, out), p.work <= Len(launch.live),
         ~launch.live[p.work], NEW q, q = Place(p.work + 1, 0, 0, p.serial)
  PROVE  /\ ConsumerOk(launch, q, "item", frag, tot, hid, Append(out, Padding))
         /\ LiveBelow(launch, q.work) = LiveBelow(launch, p.work)
<1>1. /\ Len(launch.live) \in Nat /\ launch.groups \in Nat \ {0}
      /\ p.work \in 1 .. Len(launch.live) + 1 /\ p.work \in 1 .. Len(launch.live)
      /\ Placed(launch, p) /\ p.serial \in Nat /\ p.half = 0 /\ p.group = 0
  BY LaunchType DEF ConsumerOk, Placed, PlaceOf
<1>2. /\ q.work = p.work + 1 /\ q.half = 0 /\ q.group = 0 /\ q.serial = p.serial
      /\ q = [work |-> p.work + 1, half |-> 0, group |-> 0, serial |-> p.serial]
  BY DEF Place
<1>3. LiveBelow(launch, q.work) = LiveBelow(launch, p.work)
  BY <1>1, <1>2, LiveBelowNext
<1>4. q \in PlaceOf(launch)
  <2>1. p.work + 1 \in 1 .. Len(launch.live) + 1 /\ 0 \in 0 .. launch.groups - 1 /\ 0 \in Halves
    BY <1>1 DEF Halves
  <2> QED BY <1>1, <1>2, <2>1 DEF PlaceOf
<1>5. Placed(launch, q)
  BY <1>1, <1>2, <1>3, <1>4 DEF Placed
<1>6. tot = SumOf(q.work, q.half, q.group)
  BY <1>1, <1>2, SumNext DEF ConsumerOk
<1>7. Append(out, Padding) = [i \in 1 .. q.work - 1 + Bit("item" = "quantised") |-> PromisedIn(launch, i)]
  <2>1. PICK n : n = p.work - 1
    OBVIOUS
  <2>2. n \in Nat /\ n + 1 = p.work /\ q.work - 1 = n + 1 /\ Bit("item" = "quantised") = 0
    BY <1>1, <1>2, <2>1 DEF Bit
  <2>3. out = [i \in 1 .. n |-> PromisedIn(launch, i)]
    BY <2>1, <2>2 DEF ConsumerOk
  <2>4. Padding = PromisedIn(launch, n + 1)
    BY <2>2 DEF PromisedIn
  <2>5. Append(out, Padding) = [i \in 1 .. n + 1 |-> PromisedIn(launch, i)]
    BY <2>2, <2>3, <2>4, StoredNext
  <2>6. q.work - 1 + 0 = n + 1
    BY <2>2
  <2> QED BY <2>2, <2>5, <2>6
<1>8. hid = [h \in Halves |-> hid[h]]
  BY DEF ConsumerOk
<1>9. PICK o : o = Append(out, Padding)
  OBVIOUS
<1>10. o = [i \in 1 .. q.work - 1 + Bit("item" = "quantised") |-> PromisedIn(launch, i)]
  BY ONLY <1>7, <1>9
<1>11. ConsumerOk(launch, q, "item", frag, tot, hid, o)
  BY ONLY <1>2, <1>5, <1>6, <1>8, <1>10 DEF ConsumerOk, Epilogue
<1> QED BY ONLY <1>3, <1>9, <1>11

LEMMA ReadOk ==
  ASSUME launch \in Launches, NEW p, NEW frag, NEW tot, NEW hid, NEW out,
         ConsumerOk(launch, p, "item", frag, tot, hid, out), p.work <= Len(launch.live),
         launch.live[p.work]
  PROVE  IsStep(launch, p) /\ ConsumerOk(launch, p, "reading", Tag(p), tot, hid, out)
<1>1. Bit("item" = "quantised") = 0 /\ Bit("reading" = "quantised") = 0
  BY DEF Bit
<1> QED BY <1>1 DEF ConsumerOk, IsStep, Epilogue

LEMMA ReleaseOk ==
  ASSUME launch \in Launches, NEW p, NEW frag, NEW tot, NEW hid, NEW out,
         ConsumerOk(launch, p, "reading", frag, tot, hid, out)
  PROVE  /\ LastGroup(p) => ConsumerOk(launch, p, "hidden", frag, Append(tot, Tag(p)), hid, out)
         /\ ~LastGroup(p) =>
              ConsumerOk(launch, NextGroup(p), "item", frag, Append(tot, Tag(p)), hid, out)
         /\ NextGroup(p).work = p.work
<1>0. /\ Bit("item" = "quantised") = 0 /\ Bit("reading" = "quantised") = 0
      /\ Bit("hidden" = "quantised") = 0
  BY DEF Bit
<1>1. IsStep(launch, p) /\ p.group \in Nat /\ tot = SumOf(p.work, p.half, p.group)
      /\ out = [i \in 1 .. p.work - 1 + 0 |-> PromisedIn(launch, i)]
  BY <1>0, LaunchType DEF ConsumerOk, Placed, PlaceOf
<1>2. Append(tot, Tag(p)) = SumOf(p.work, p.half, p.group + 1)
  BY <1>1, SumNext DEF Tag
<1>3. CASE LastGroup(p)
  BY <1>0, <1>1, <1>2, <1>3 DEF ConsumerOk, LastGroup, groups, Epilogue, NextGroup, Place, IsStep
<1>4. CASE ~LastGroup(p)
  <2> DEFINE q == NextGroup(p)
  <2>1. /\ IsStep(launch, q) /\ q.work = p.work /\ q.half = p.half /\ q.group = p.group + 1
    BY <1>1, <1>4, NextGroupStep DEF NextGroup, Place
  <2>2. out = [i \in 1 .. q.work - 1 + 0 |-> PromisedIn(launch, i)]
    BY <1>1, <2>1
  <2> HIDE DEF q
  <2>3. ConsumerOk(launch, q, "item", frag, Append(tot, Tag(p)), hid, out)
    BY <1>0, <1>2, <2>1, <2>2 DEF ConsumerOk, Epilogue, IsStep
  <2> QED BY <1>4, <2>1, <2>3 DEF q
<1> QED BY <1>3, <1>4

LEMMA HiddenOk ==
  ASSUME launch \in Launches, NEW p, NEW frag, NEW tot, NEW hid, NEW out,
         ConsumerOk(launch, p, "hidden", frag, tot, hid, out), NEW h, h = [hid EXCEPT ![p.half] = tot]
  PROVE  /\ p.half = 0 => /\ ConsumerOk(launch, NextGroup(p), "item", frag, <<>>, h, out)
                          /\ NextGroup(p).work = p.work /\ NextGroup(p).serial = p.serial + 1
         /\ p.half # 0 => ConsumerOk(launch, p, "written", frag, <<>>, h, out)
<1>0. /\ Bit("item" = "quantised") = 0 /\ Bit("written" = "quantised") = 0
      /\ Bit("hidden" = "quantised") = 0
  BY DEF Bit
<1>1. /\ IsStep(launch, p) /\ p.half \in {0, 1} /\ tot = SumOf(p.work, p.half, launch.groups)
      /\ out = [i \in 1 .. p.work - 1 + 0 |-> PromisedIn(launch, i)]
      /\ hid = [i \in Halves |-> hid[i]]
      /\ p.half = 1 => hid[0] = SumOf(p.work, 0, launch.groups)
      /\ p.group + 1 = launch.groups
  BY <1>0 DEF ConsumerOk, Placed, PlaceOf, Halves
<1>2. /\ h = [i \in Halves |-> h[i]]
      /\ \A i \in Halves : h[i] = IF i = p.half THEN tot ELSE hid[i]
  <2>1. PICK k : k = p.half
    OBVIOUS
  <2>2. k \in Halves
    BY <1>1, <2>1 DEF Halves
  <2>3. Total(hid, Halves) /\ Put(h, hid, k, tot)
    BY <1>1, <2>1 DEF Total, Put
  <2>4. Total(h, Halves) /\ \A i \in Halves : h[i] = IF i = k THEN tot ELSE hid[i]
    BY ONLY <2>2, <2>3, Replaces
  <2> QED BY <2>1, <2>4 DEF Total
<1>3. CASE p.half = 0
  <2> DEFINE q == NextGroup(p)
  <2>1. /\ IsStep(launch, q) /\ q.work = p.work /\ q.half = 1 /\ q.group = 0 /\ q.serial = p.serial + 1
    <3>1. IsStep(launch, q)
      BY <1>1, <1>3, NextGroupStep
    <3>2. q = Place(p.work, 1, 0, p.serial + 1)
      BY <1>1, <1>3 DEF NextGroup, LastGroup, groups
    <3> QED BY <3>1, <3>2 DEF Place
  <2>2. out = [i \in 1 .. q.work - 1 + 0 |-> PromisedIn(launch, i)]
    BY <1>1, <2>1
  <2>3. h[0] = SumOf(q.work, 0, launch.groups)
    BY <1>1, <1>2, <1>3, <2>1 DEF Halves
  <2>4. SumOf(q.work, q.half, q.group) = <<>>
    BY <2>1, SumNext
  <2> HIDE DEF q
  <2>5. ConsumerOk(launch, q, "item", frag, <<>>, h, out)
    BY <1>0, <1>2, <2>1, <2>2, <2>3, <2>4 DEF ConsumerOk, Epilogue, IsStep
  <2> QED BY <1>3, <2>1, <2>5 DEF q
<1>4. CASE p.half # 0
  <2>1. p.half = 1 /\ h[0] = SumOf(p.work, 0, launch.groups) /\ h[1] = SumOf(p.work, 1, launch.groups)
    BY <1>1, <1>2, <1>4 DEF Halves
  <2>2. SumOf(p.work, p.half, 0) = <<>>
    BY SumNext
  <2> QED BY <1>0, <1>1, <1>2, <1>4, <2>1, <2>2 DEF ConsumerOk, Epilogue, IsStep
<1> QED BY <1>3, <1>4

LEMMA WrittenOk ==
  ASSUME NEW p, NEW frag, NEW tot, NEW hid, NEW out,
         ConsumerOk(launch, p, "written", frag, tot, hid, out)
  PROVE  ConsumerOk(launch, p, "quantise", frag, tot, hid, out)
<1>1. Bit("written" = "quantised") = 0 /\ Bit("quantise" = "quantised") = 0
  BY DEF Bit
<1> QED BY <1>1 DEF ConsumerOk, Epilogue

LEMMA QuantiseOk ==
  ASSUME launch \in Launches, NEW p, NEW frag, NEW tot, NEW hid, NEW out,
         ConsumerOk(launch, p, "quantise", frag, tot, hid, out), NEW e, e = PromisedIn(launch, p.work)
  PROVE  ConsumerOk(launch, p, "quantised", frag, tot, hid, Append(out, e))
<1>1. PICK n : n = p.work - 1
  OBVIOUS
<1>2. n \in Nat /\ n + 1 = p.work
  BY <1>1, LaunchType DEF ConsumerOk, Placed, PlaceOf
<1>3. out = [i \in 1 .. n |-> PromisedIn(launch, i)]
  <2>1. p.work - 1 + Bit("quantise" = "quantised") = n
    BY <1>1, <1>2 DEF Bit
  <2> QED BY <2>1 DEF ConsumerOk
<1>4. p.work - 1 + Bit("quantised" = "quantised") = n + 1
  BY <1>1, <1>2 DEF Bit
<1>5. Append(out, e) = [i \in 1 .. p.work - 1 + Bit("quantised" = "quantised") |-> PromisedIn(launch, i)]
  BY <1>2, <1>3, <1>4, StoredNext
<1> QED BY <1>5 DEF ConsumerOk, Epilogue

LEMMA ItemOk ==
  ASSUME launch \in Launches, NEW p, NEW frag, NEW tot, NEW hid, NEW out,
         ConsumerOk(launch, p, "quantised", frag, tot, hid, out),
         NEW q, q = Place(p.work + 1, 0, 0, p.serial + 1)
  PROVE  /\ ConsumerOk(launch, q, "item", frag, tot, hid, out)
         /\ LiveBelow(launch, q.work) = LiveBelow(launch, p.work) + 1
<1>1. /\ Len(launch.live) \in Nat /\ launch.groups \in Nat \ {0}
      /\ p.work \in 1 .. Len(launch.live) /\ IsStep(launch, p) /\ Placed(launch, p)
      /\ p.serial \in Nat /\ p.half = 1 /\ p.group + 1 = launch.groups
  BY LaunchType DEF ConsumerOk, IsStep, Placed, PlaceOf, Epilogue
<1>2. /\ q.work = p.work + 1 /\ q.half = 0 /\ q.group = 0 /\ q.serial = p.serial + 1
      /\ q = [work |-> p.work + 1, half |-> 0, group |-> 0, serial |-> p.serial + 1]
  BY DEF Place
<1>3. LiveBelow(launch, q.work) = LiveBelow(launch, p.work) + 1
  BY <1>1, <1>2, LiveBelowNext DEF IsStep
<1>4. q \in PlaceOf(launch)
  <2>1. p.work + 1 \in 1 .. Len(launch.live) + 1 /\ 0 \in 0 .. launch.groups - 1 /\ 0 \in Halves
        /\ p.serial + 1 \in Nat
    BY <1>1 DEF Halves
  <2> QED BY <1>1, <1>2, <2>1 DEF PlaceOf
<1>5. Placed(launch, q)
  <2>1. /\ GroupAt(launch, p.serial) + 1 = launch.groups /\ HalfAt(launch, p.serial) = 1
        /\ ItemAt(launch, p.serial) = LiveBelow(launch, p.work)
    BY <1>1 DEF Placed
  <2>2. /\ GroupAt(launch, p.serial + 1) = 0 /\ HalfAt(launch, p.serial + 1) = 1 - 1
        /\ ItemAt(launch, p.serial + 1) = ItemAt(launch, p.serial) + 1
    <3>1. PICK x : x = p.serial
      OBVIOUS
    <3>2. x \in Nat /\ GroupAt(launch, x) + 1 = launch.groups /\ HalfAt(launch, x) = 1
      BY <1>1, <2>1, <3>1
    <3>3. /\ GroupAt(launch, x + 1) = 0 /\ HalfAt(launch, x + 1) = 1 - HalfAt(launch, x)
          /\ ItemAt(launch, x + 1) = ItemAt(launch, x) + HalfAt(launch, x)
      BY <3>2, SerialNext
    <3> QED BY <3>1, <3>2, <3>3
  <2> QED BY <1>2, <1>3, <1>4, <2>1, <2>2 DEF Placed
<1>6. tot = SumOf(q.work, q.half, q.group)
  <2>1. tot = SumOf(p.work, p.half, 0)
    BY DEF ConsumerOk
  <2> QED BY <1>2, <2>1, SumNext
<1>7. out = [i \in 1 .. q.work - 1 + Bit("item" = "quantised") |-> PromisedIn(launch, i)]
  <2>1. q.work - 1 + Bit("item" = "quantised") = p.work - 1 + Bit("quantised" = "quantised")
    BY <1>1, <1>2 DEF Bit
  <2> QED BY <2>1 DEF ConsumerOk
<1>8. hid = [h \in Halves |-> hid[h]]
  BY DEF ConsumerOk
<1> QED BY <1>2, <1>3, <1>5, <1>6, <1>7, <1>8 DEF ConsumerOk, Epilogue

\* G is F but for warp w of CTA c, where it holds v.
AtWarp(G, F, c, w, v) ==
  /\ OnGrid(G, CTAs, Warps)
  /\ \A d \in CTAs, u \in Warps : G[d][u] = IF d = c /\ u = w THEN v ELSE F[d][u]

LEMMA SetWarp ==
  ASSUME NEW F, OnGrid(F, CTAs, Warps), NEW c \in CTAs, NEW w \in Warps, NEW v, NEW G
  PROVE  /\ Replaced(G, F, c, w, v) => AtWarp(G, F, c, w, v)
         /\ G = F => AtWarp(G, F, c, w, F[c][w])
<1>1. Replaced(G, F, c, w, v) => AtWarp(G, F, c, w, v)
  BY Grid DEF AtWarp
<1> QED BY <1>1 DEF AtWarp

LEMMA OneWarp ==
  ASSUME ConsumerInv, UNCHANGED <<launch, freed>>, NEW c \in CTAs, NEW w \in Warps,
         step[c][w] # "item" \/ InItem(consumer[c][w]),
         NEW p, NEW st, NEW frag, NEW tot, NEW hid, NEW out,
         AtWarp(consumer', consumer, c, w, p), AtWarp(step', step, c, w, st),
         AtWarp(fragment', fragment, c, w, frag), AtWarp(total', total, c, w, tot),
         AtWarp(hidden', hidden, c, w, hid), AtWarp(output', output, c, w, out),
         ConsumerOk(launch, p, st, frag, tot, hid, out),
         LiveBelow(launch, p.work) = LiveBelow(launch, consumer[c][w].work),
         st \in Quantising <=> step[c][w] \in Quantising
  PROVE  ConsumerInv'
<1>2. launch' = launch /\ Warps' = Warps /\ freed' = freed /\ ~freed
  BY DEF ConsumerInv, Warps
<1>3. ASSUME NEW d \in CTAs, NEW u \in Warps
      PROVE  /\ ConsumerOk(launch, consumer'[d][u], step'[d][u], fragment'[d][u], total'[d][u],
                           hidden'[d][u], output'[d][u])
             /\ LiveBelow(launch, consumer'[d][u].work) = LiveBelow(launch, consumer[d][u].work)
             /\ step'[d][u] \in Quantising <=> step[d][u] \in Quantising
  <2>1. CASE d = c /\ u = w
    BY <2>1 DEF AtWarp
  <2>2. CASE ~(d = c /\ u = w)
    <3>1. /\ consumer'[d][u] = consumer[d][u] /\ step'[d][u] = step[d][u]
          /\ fragment'[d][u] = fragment[d][u] /\ total'[d][u] = total[d][u]
          /\ hidden'[d][u] = hidden[d][u] /\ output'[d][u] = output[d][u]
      BY <2>2 DEF AtWarp
    <3>2. ConsumerOk(launch, consumer[d][u], step[d][u], fragment[d][u], total[d][u],
                     hidden[d][u], output[d][u])
      BY DEF ConsumerInv
    <3> QED BY <3>1, <3>2
  <2> QED BY <2>1, <2>2
<1>4. ASSUME NEW d \in CTAs, NEW u \in Warps, NEW v \in Warps
      PROVE  /\ LiveBelow(launch, consumer'[d][u].work) = LiveBelow(launch, consumer'[d][v].work)
             /\ step'[d][u] \in Quantising => step'[d][v] \in Quantising
  <2>1. /\ LiveBelow(launch, consumer[d][u].work) = LiveBelow(launch, consumer[d][v].work)
        /\ step[d][u] \in Quantising => step[d][v] \in Quantising
    BY DEF ConsumerInv
  <2> QED BY <1>3, <2>1
<1>5. /\ OnGrid(consumer', CTAs, Warps) /\ OnGrid(step', CTAs, Warps) /\ OnGrid(fragment', CTAs, Warps)
      /\ OnGrid(total', CTAs, Warps) /\ OnGrid(hidden', CTAs, Warps) /\ OnGrid(output', CTAs, Warps)
  BY DEF AtWarp
<1> QED BY <1>2, <1>3, <1>4, <1>5 DEF ConsumerInv

LEMMA PaddingConsumer ==
  ASSUME RoleInv, ConsumerInv, NEW c \in CTAs, NEW w \in Warps, WritePadding(c, w)
  PROVE  /\ ConsumerInv'
         /\ \A d \in CTAs, u \in Warps : Done(d, u)' = Done(d, u) /\ Read(d, u)' = Read(d, u)
<1> DEFINE p == consumer[c][w]
           q == Place(p.work + 1, 0, 0, p.serial)
<1>1. /\ step[c][w] = "item" /\ p.work <= Len(launch.live) /\ ~launch.live[p.work] /\ launch \in Launches
      /\ UNCHANGED <<launch, freed, step, fragment, total, hidden>>
      /\ Replaced(output', output, c, w, Append(output[c][w], Padding))
      /\ Replaced(consumer', consumer, c, w, q)
  BY DEF WritePadding, InItem, live, RoleInv, Replaced
<1>2. /\ AtWarp(consumer', consumer, c, w, q) /\ AtWarp(step', step, c, w, "item")
      /\ AtWarp(fragment', fragment, c, w, fragment[c][w]) /\ AtWarp(total', total, c, w, total[c][w])
      /\ AtWarp(hidden', hidden, c, w, hidden[c][w])
      /\ AtWarp(output', output, c, w, Append(output[c][w], Padding))
  BY <1>1, SetWarp DEF ConsumerInv
<1>3. ConsumerOk(launch, p, "item", fragment[c][w], total[c][w], hidden[c][w], output[c][w])
  BY <1>1 DEF ConsumerInv
<1> HIDE DEF p, q
<1>4. /\ ConsumerOk(launch, q, "item", fragment[c][w], total[c][w], hidden[c][w],
                    Append(output[c][w], Padding))
      /\ LiveBelow(launch, q.work) = LiveBelow(launch, p.work)
  BY <1>1, <1>3, PaddingOk DEF q
<1>5. ConsumerInv'
  BY <1>1, <1>2, <1>4, OneWarp DEF p, InItem, live, Quantising
<1>6. ASSUME NEW d \in CTAs, NEW u \in Warps
      PROVE  Done(d, u)' = Done(d, u) /\ Read(d, u)' = Read(d, u)
  <2>1. step'[d][u] = step[d][u] /\ consumer'[d][u].serial = consumer[d][u].serial
    BY <1>1, <1>2 DEF AtWarp, q, p, Place
  <2> QED BY <2>1 DEF Done, Read, DoneBy, ReadBy
<1> QED BY <1>5, <1>6

LEMMA ReadConsumer ==
  ASSUME RoleInv, OrderInv, ConsumerInv, AccumulatorInv, ScaleInv,
         NEW c \in CTAs, NEW w \in Warps, ConsumerRead(c, w)
  PROVE  /\ ConsumerInv' /\ OrderInv'
         /\ \A d \in CTAs, u \in Warps : Done(d, u)' = Done(d, u)
<1> DEFINE p == consumer[c][w]
           x == p.serial
<1>1. /\ step[c][w] = "item" /\ p.work <= Len(launch.live) /\ launch.live[p.work] /\ launch \in Launches
      /\ Passes(accumulator_full[c][x % Buffers], (x \div Buffers) % 2)
      /\ Passes(scale_full[c][x % P], (x \div P) % 2)
      /\ UNCHANGED <<launch, freed, consumer, total, hidden, output, tma, gather, scaler, mma, in_flight>>
      /\ Replaced(fragment', fragment, c, w, tmem[c][x % Buffers])
      /\ Replaced(step', step, c, w, "reading")
  BY DEF ConsumerRead, HasRows, InItem, live, RoleInv, Replaced, Goes, Buffer, Slot, ThisLap,
         producers, matrix
<1>2. ConsumerOk(launch, p, "item", fragment[c][w], total[c][w], hidden[c][w], output[c][w])
  BY <1>1 DEF ConsumerInv
<1>3. /\ x \in Nat /\ Retired \in Nat /\ scaler[c].serial \in Nat /\ mma.serial \in Nat
      /\ P \in Nat \ {0} /\ Buffers \in Nat \ {0} /\ x <= Retired /\ x <= scaler[c].serial
      /\ mma.serial <= x + Buffers
  <2>1. Read(c, w) = x + 0 /\ Done(c, w) = x + 0
    BY <1>1 DEF Read, Done, ReadBy, DoneBy, Bit
  <2>2. /\ x \in Nat /\ Retired \in Nat /\ scaler[c].serial \in Nat /\ mma.serial \in Nat
        /\ P \in Nat \ {0} /\ Buffers \in Nat \ {0}
    BY Where, Sizes
  <2>3. x + 0 <= Retired /\ x + 0 <= scaler[c].serial /\ mma.serial <= x + 0 + Buffers
    BY <2>1 DEF OrderInv
  <2> HIDE DEF x
  <2> QED BY <2>2, <2>3
<1>4. x % Buffers \in Accumulators /\ x % P \in Slots
  BY <1>3, FillsAt DEF Accumulators, Slots
<1>5. x < Retired
  <2>1. Single(accumulator_full[c][x % Buffers], Fills(Retired, x % Buffers, Buffers))
    BY <1>4 DEF AccumulatorInv
  <2>2. accumulator_full[c][x % Buffers].done = Fills(Retired, x % Buffers, Buffers)
    BY <2>1 DEF Single
  <2> HIDE DEF x
  <2> QED BY <1>1, <1>3, <2>2, FullWait
<1>6. x < scaler[c].serial
  <2>1. Single(scale_full[c][x % P], Fills(scaler[c].serial, x % P, P))
    BY <1>4 DEF ScaleInv
  <2>2. scale_full[c][x % P].done = Fills(scaler[c].serial, x % P, P)
    BY <2>1 DEF Single
  <2> HIDE DEF x
  <2> QED BY <1>1, <1>3, <2>2, FullWait
<1>7. IsStep(launch, p) /\ ConsumerOk(launch, p, "reading", Tag(p), total[c][w], hidden[c][w], output[c][w])
  BY <1>1, <1>2, ReadOk
<1>8. tmem[c][x % Buffers] = Tag(p)
  <2>1. Holds(launch, Buffers, Retired, mma.serial, tmem[c])
    BY DEF AccumulatorInv
  <2>2. TagAt(launch, x) = Tag(p)
    BY <1>1, <1>7, TagOf
  <2> HIDE DEF x
  <2>3. x \in 0 .. Retired - 1
    BY <1>3, <1>5
  <2> QED BY <1>3, <2>1, <2>2, <2>3 DEF Holds
<1>9. /\ AtWarp(consumer', consumer, c, w, p) /\ AtWarp(step', step, c, w, "reading")
      /\ AtWarp(fragment', fragment, c, w, Tag(p)) /\ AtWarp(total', total, c, w, total[c][w])
      /\ AtWarp(hidden', hidden, c, w, hidden[c][w]) /\ AtWarp(output', output, c, w, output[c][w])
  BY <1>1, <1>8, SetWarp DEF ConsumerInv
<1>10. ConsumerInv'
  <2>1. InItem(consumer[c][w])
    BY <1>1 DEF InItem, live
  <2> HIDE DEF x
  <2> QED BY <1>1, <1>7, <1>9, <2>1, OneWarp DEF Quantising
<1>11. ASSUME NEW d \in CTAs, NEW u \in Warps
       PROVE  /\ Done(d, u)' = Done(d, u)
              /\ Read(d, u)' = IF d = c /\ u = w THEN x + 1 ELSE Read(d, u)
  <2>1. consumer' = consumer /\ step'[d][u] = IF d = c /\ u = w THEN "reading" ELSE step[d][u]
    BY <1>1, <1>9 DEF AtWarp
  <2> QED BY <1>1, <2>1 DEF Done, Read, DoneBy, ReadBy, Bit
<1>12. OrderInv'
  <2> HIDE DEF x
  <2>1. Retired' = Retired /\ Warps' = Warps /\ packed' = packed
    BY <1>1 DEF Retired, Warps, packed
  <2>2. \A d \in CTAs, u \in Warps : Read(d, u)' <= Retired /\ Read(d, u)' <= scaler[d].serial
    BY <1>3, <1>5, <1>6, <1>11 DEF OrderInv
  <2> QED BY <1>1, <1>11, <2>1, <2>2 DEF OrderInv
<1> QED BY <1>10, <1>11, <1>12

LEMMA ReleaseConsumer ==
  ASSUME RoleInv, OrderInv, ConsumerInv, AccumulatorInv, ScaleInv,
         NEW c \in CTAs, NEW w \in Warps, ConsumerRelease(c, w)
  PROVE  ConsumerInv'
<1> DEFINE p == consumer[c][w]
           x == p.serial
           t == Append(total[c][w], Tag(p))
<1>1. /\ step[c][w] = "reading" /\ launch \in Launches
      /\ UNCHANGED <<launch, freed, fragment, hidden, output>>
      /\ Replaced(total', total, c, w, Append(total[c][w], Promoted(c, w, x % P)))
      /\ IF LastGroup(p) THEN Replaced(step', step, c, w, "hidden") /\ UNCHANGED consumer
         ELSE Replaced(step', step, c, w, "item") /\ Replaced(consumer', consumer, c, w, NextGroup(p))
  BY DEF ConsumerRelease, RoleInv, Replaced, Goes, Slot
<1>2. ConsumerOk(launch, p, "reading", fragment[c][w], total[c][w], hidden[c][w], output[c][w])
  BY <1>1 DEF ConsumerInv
<1>3. Promoted(c, w, x % P) = Tag(p)
  <2>1. IsStep(launch, p) /\ fragment[c][w] = Tag(p)
    BY <1>2 DEF ConsumerOk
  <2>2. TagAt(launch, x) = Tag(p)
    BY <1>1, <2>1, TagOf
  <2>3. /\ x \in Nat /\ scaler[c].serial \in Nat /\ P \in Nat \ {0}
        /\ x < scaler[c].serial /\ scaler[c].serial <= x + P
    <3>1. Read(c, w) = x + 1 /\ Done(c, w) = x + 0
      BY <1>1 DEF Read, Done, ReadBy, DoneBy, Bit
    <3>2. x \in Nat /\ scaler[c].serial \in Nat /\ P \in Nat \ {0}
      BY Where, Sizes
    <3>3. x + 1 <= scaler[c].serial /\ scaler[c].serial <= x + 0 + P
      BY <3>1 DEF OrderInv
    <3> HIDE DEF x
    <3> QED BY <3>2, <3>3
  <2>4. Holds(launch, P, scaler[c].serial, scaler[c].serial, scale[c])
    BY DEF ScaleInv
  <2>5. scale[c][x % P] = Tag(p)
    <3> HIDE DEF x
    <3>1. x \in 0 .. scaler[c].serial - 1
      BY <2>3
    <3> QED BY <2>2, <2>3, <2>4, <3>1 DEF Holds
  <2> QED BY <2>1, <2>5 DEF Promoted
<1>4. /\ AtWarp(fragment', fragment, c, w, fragment[c][w]) /\ AtWarp(total', total, c, w, t)
      /\ AtWarp(hidden', hidden, c, w, hidden[c][w]) /\ AtWarp(output', output, c, w, output[c][w])
  BY <1>1, <1>3, SetWarp DEF ConsumerInv
<1>5. CASE LastGroup(p)
  <2>1. AtWarp(consumer', consumer, c, w, p) /\ AtWarp(step', step, c, w, "hidden")
    BY <1>1, <1>5, SetWarp DEF ConsumerInv
  <2>2. ConsumerOk(launch, p, "hidden", fragment[c][w], t, hidden[c][w], output[c][w])
    BY <1>1, <1>2, <1>5, ReleaseOk
  <2> HIDE DEF t, x
  <2> QED BY <1>1, <1>4, <2>1, <2>2, OneWarp DEF Quantising
<1>6. CASE ~LastGroup(p)
  <2> DEFINE q == NextGroup(p)
  <2>1. AtWarp(consumer', consumer, c, w, q) /\ AtWarp(step', step, c, w, "item")
    BY <1>1, <1>6, SetWarp DEF ConsumerInv
  <2>2. ConsumerOk(launch, q, "item", fragment[c][w], t, hidden[c][w], output[c][w]) /\ q.work = p.work
    BY <1>1, <1>2, <1>6, ReleaseOk
  <2> HIDE DEF t, x, q
  <2> QED BY <1>1, <1>4, <2>1, <2>2, OneWarp DEF Quantising
<1> QED BY <1>5, <1>6

LEMMA HiddenConsumer ==
  ASSUME RoleInv, ConsumerInv, NEW c \in CTAs, NEW w \in Warps, WriteHidden(c, w)
  PROVE  /\ ConsumerInv'
         /\ \A d \in CTAs, u \in Warps : Done(d, u)' = Done(d, u) /\ Read(d, u)' = Read(d, u)
<1> DEFINE p == consumer[c][w]
           h == [hidden[c][w] EXCEPT ![p.half] = total[c][w]]
<1>1. /\ step[c][w] = "hidden" /\ launch \in Launches
      /\ UNCHANGED <<launch, freed, fragment, output>>
      /\ Replaced(total', total, c, w, <<>>) /\ Replaced(hidden', hidden, c, w, h)
      /\ IF p.half = 0
           THEN Replaced(step', step, c, w, "item") /\ Replaced(consumer', consumer, c, w, NextGroup(p))
           ELSE Replaced(step', step, c, w, "written") /\ UNCHANGED consumer
  BY DEF WriteHidden, RoleInv, Replaced, Goes
<1>2. ConsumerOk(launch, p, "hidden", fragment[c][w], total[c][w], hidden[c][w], output[c][w])
  BY <1>1 DEF ConsumerInv
<1>3. /\ p.half = 0 => /\ ConsumerOk(launch, NextGroup(p), "item", fragment[c][w], <<>>, h, output[c][w])
                       /\ NextGroup(p).work = p.work /\ NextGroup(p).serial = p.serial + 1
      /\ p.half # 0 => ConsumerOk(launch, p, "written", fragment[c][w], <<>>, h, output[c][w])
  BY <1>1, <1>2, HiddenOk
<1>4. /\ AtWarp(fragment', fragment, c, w, fragment[c][w]) /\ AtWarp(total', total, c, w, <<>>)
      /\ AtWarp(hidden', hidden, c, w, h) /\ AtWarp(output', output, c, w, output[c][w])
  BY <1>1, SetWarp DEF ConsumerInv
<1>5. p.serial \in Nat
  BY <1>2 DEF ConsumerOk, Placed, PlaceOf
<1> HIDE DEF h
<1>6. CASE p.half = 0
  <2> DEFINE q == NextGroup(p)
  <2>1. AtWarp(consumer', consumer, c, w, q) /\ AtWarp(step', step, c, w, "item")
    BY <1>1, <1>6, SetWarp DEF ConsumerInv
  <2>2. ConsumerOk(launch, q, "item", fragment[c][w], <<>>, h, output[c][w]) /\ q.work = p.work
        /\ q.serial = p.serial + 1
    BY <1>3, <1>6
  <2> HIDE DEF q
  <2>3. ConsumerInv'
    BY <1>1, <1>4, <2>1, <2>2, OneWarp DEF Quantising
  <2>4. ASSUME NEW d \in CTAs, NEW u \in Warps
        PROVE  Done(d, u)' = Done(d, u) /\ Read(d, u)' = Read(d, u)
    <3>1. CASE d = c /\ u = w
      <4>1. step'[d][u] = "item" /\ consumer'[d][u].serial = p.serial + 1 /\ step[d][u] = "hidden"
            /\ consumer[d][u].serial = p.serial
        BY <1>1, <2>1, <2>2, <3>1 DEF AtWarp
      <4> HIDE DEF p
      <4> QED BY <1>5, <4>1 DEF Done, Read, DoneBy, ReadBy, Bit
    <3>2. CASE ~(d = c /\ u = w)
      BY <2>1, <3>2 DEF AtWarp, Done, Read
    <3> QED BY <3>1, <3>2
  <2> QED BY <2>3, <2>4
<1>7. CASE p.half # 0
  <2>1. AtWarp(consumer', consumer, c, w, p) /\ AtWarp(step', step, c, w, "written")
    BY <1>1, <1>7, SetWarp DEF ConsumerInv
  <2>3. ConsumerInv'
    BY <1>1, <1>3, <1>4, <1>7, <2>1, OneWarp DEF Quantising
  <2>4. ASSUME NEW d \in CTAs, NEW u \in Warps
        PROVE  Done(d, u)' = Done(d, u) /\ Read(d, u)' = Read(d, u)
    BY <1>1, <2>1 DEF AtWarp, Done, Read, DoneBy, ReadBy, Bit
  <2> QED BY <2>3, <2>4
<1> QED BY <1>6, <1>7

\* All warps of one CTA are given what g says.
LEMMA RowGrid ==
  ASSUME NEW S, NEW T, NEW F, OnGrid(F, S, T), NEW c \in S, NEW g, Total(g, T), NEW G, Put(G, F, c, g)
  PROVE  /\ OnGrid(G, S, T)
         /\ \A w \in T : G[c][w] = g[w]
         /\ \A d \in S \ {c}, w \in T : G[d][w] = F[d][w]
<1>1. Total(F, S)
  BY DEF OnGrid, Total
<1>2. Total(G, S) /\ \A d \in S : G[d] = IF d = c THEN g ELSE F[d]
  BY <1>1, Replaces
<1>3. \A d \in S : F[d] = [w \in T |-> F[d][w]]
  BY DEF OnGrid
<1>4. \A d \in S : G[d] = [w \in T |-> G[d][w]]
  BY <1>2, <1>3 DEF Total
<1>5. [d \in S |-> G[d]] = [d \in S |-> [w \in T |-> G[d][w]]]
  BY <1>4
<1> QED BY <1>2, <1>5 DEF OnGrid, Total

\* The barriers of one CTA: every warp of it moves at once.
LEMMA AllWarps ==
  ASSUME ConsumerInv, UNCHANGED <<launch, freed, fragment, total, hidden, output>>,
         NEW c \in CTAs, \A w \in Warps : step[c][w] # "item",
         OnGrid(consumer', CTAs, Warps), OnGrid(step', CTAs, Warps),
         \A d \in CTAs \ {c}, w \in Warps : consumer'[d][w] = consumer[d][w] /\ step'[d][w] = step[d][w],
         NEW n \in {0, 1}, NEW st, \A w \in Warps : step'[c][w] = st,
         \A w \in Warps :
           /\ ConsumerOk(launch, consumer'[c][w], st, fragment[c][w], total[c][w], hidden[c][w], output[c][w])
           /\ LiveBelow(launch, consumer'[c][w].work) = LiveBelow(launch, consumer[c][w].work) + n
  PROVE  ConsumerInv'
<1>1. launch' = launch /\ Warps' = Warps /\ freed' = freed /\ (freed => Warps = {})
  BY DEF ConsumerInv, Warps
<1>2. ASSUME NEW d \in CTAs, NEW w \in Warps
      PROVE  ConsumerOk(launch, consumer'[d][w], step'[d][w], fragment'[d][w], total'[d][w],
                        hidden'[d][w], output'[d][w])
  <2>1. CASE d = c
    BY <2>1
  <2>2. CASE d # c
    <3>1. ConsumerOk(launch, consumer[d][w], step[d][w], fragment[d][w], total[d][w],
                     hidden[d][w], output[d][w])
      BY DEF ConsumerInv
    <3> QED BY <2>2, <3>1
  <2> QED BY <2>1, <2>2
<1>3. ASSUME NEW d \in CTAs, NEW u \in Warps, NEW v \in Warps
      PROVE  /\ LiveBelow(launch, consumer'[d][u].work) = LiveBelow(launch, consumer'[d][v].work)
             /\ step'[d][u] \in Quantising => step'[d][v] \in Quantising
  <2>1. /\ LiveBelow(launch, consumer[d][u].work) = LiveBelow(launch, consumer[d][v].work)
        /\ step[d][u] \in Quantising => step[d][v] \in Quantising
    BY DEF ConsumerInv
  <2> QED BY <2>1
<1> QED BY <1>1, <1>2, <1>3 DEF ConsumerInv

LEMMA SyncWrittenConsumer ==
  ASSUME RoleInv, ConsumerInv, NEW c \in CTAs, SyncWritten(c)
  PROVE  /\ ConsumerInv'
         /\ \A d \in CTAs, u \in Warps : Done(d, u)' = Done(d, u) /\ Read(d, u)' = Read(d, u)
<1>1. /\ \A w \in Warps : step[c][w] = "written"
      /\ UNCHANGED <<launch, freed, consumer, fragment, total, hidden, output>>
      /\ step' = [step EXCEPT ![c] = [w \in Warps |-> "quantise"]]
  BY DEF SyncWritten, AllAt
<1>2. /\ OnGrid(step', CTAs, Warps) /\ \A w \in Warps : step'[c][w] = "quantise"
      /\ \A d \in CTAs \ {c}, w \in Warps : step'[d][w] = step[d][w]
  <2> DEFINE g == [w \in Warps |-> "quantise"]
  <2>1. OnGrid(step, CTAs, Warps) /\ Total(g, Warps) /\ Put(step', step, c, g)
    BY <1>1 DEF ConsumerInv, Total, Put
  <2>2. \A w \in Warps : g[w] = "quantise"
    OBVIOUS
  <2> HIDE DEF g
  <2> QED BY <2>1, <2>2, RowGrid
<1>3. ASSUME NEW w \in Warps
      PROVE  /\ ConsumerOk(launch, consumer'[c][w], "quantise", fragment[c][w], total[c][w],
                           hidden[c][w], output[c][w])
             /\ LiveBelow(launch, consumer'[c][w].work) = LiveBelow(launch, consumer[c][w].work) + 0
  <2>1. ConsumerOk(launch, consumer[c][w], "written", fragment[c][w], total[c][w],
                   hidden[c][w], output[c][w])
    BY <1>1 DEF ConsumerInv
  <2>2. launch \in Launches
    BY DEF RoleInv
  <2>3. LiveBelow(launch, consumer[c][w].work) \in Nat
    BY <2>2, LiveSetFinite
  <2> QED BY <1>1, <2>1, <2>3, WrittenOk
<1>4. OnGrid(consumer', CTAs, Warps)
  BY <1>1 DEF ConsumerInv
<1>5. ConsumerInv'
  BY <1>1, <1>2, <1>3, <1>4, AllWarps
<1>6. ASSUME NEW d \in CTAs, NEW u \in Warps
      PROVE  Done(d, u)' = Done(d, u) /\ Read(d, u)' = Read(d, u)
  <2>1. CASE d = c
    BY <1>1, <1>2, <2>1 DEF Done, Read, DoneBy, ReadBy, Bit
  <2>2. CASE d # c
    BY <1>1, <1>2, <2>2 DEF Done, Read
  <2> QED BY <2>1, <2>2
<1> QED BY <1>5, <1>6

LEMMA QuantiseConsumer ==
  ASSUME RoleInv, ConsumerInv, NEW c \in CTAs, NEW w \in Warps, Quantise(c, w)
  PROVE  /\ ConsumerInv'
         /\ \A d \in CTAs, u \in Warps : Done(d, u)' = Done(d, u) /\ Read(d, u)' = Read(d, u)
<1> DEFINE p == consumer[c][w]
           o == Append(output[c][w], hidden[c])
<1>1. /\ step[c][w] = "quantise" /\ launch \in Launches
      /\ UNCHANGED <<launch, freed, consumer, fragment, total, hidden>>
      /\ Replaced(output', output, c, w, o) /\ Replaced(step', step, c, w, "quantised")
  BY DEF Quantise, RoleInv, Replaced, Goes
<1>2. ASSUME NEW v \in Warps
      PROVE  hidden[c][v] = [h \in Halves |-> SumOf(p.work, h, launch.groups)]
  <2> DEFINE q == consumer[c][v]
             hid == hidden[c][v]
  <2>1. step[c][v] \in Quantising /\ LiveBelow(launch, q.work) = LiveBelow(launch, p.work)
    BY <1>1 DEF ConsumerInv, Quantising
  <2>2. ConsumerOk(launch, q, step[c][v], fragment[c][v], total[c][v], hid, output[c][v])
    BY DEF ConsumerInv
  <2>3. ConsumerOk(launch, p, step[c][w], fragment[c][w], total[c][w], hidden[c][w], output[c][w])
    BY DEF ConsumerInv
  <2> HIDE DEF q, p, hid
  <2>4. IsStep(launch, p) /\ IsStep(launch, q)
    BY <1>1, <2>1, <2>2, <2>3 DEF ConsumerOk, Quantising
  <2>5. p.work = q.work
    <3>1. /\ p.work \in 1 .. Len(launch.live) /\ q.work \in 1 .. Len(launch.live)
          /\ launch.live[p.work] /\ launch.live[q.work]
      BY <1>1, <2>4, LaunchType DEF IsStep, Placed, PlaceOf
    <3> QED BY <1>1, <2>1, <3>1, LiveUnique
  <2>6. hid = [h \in Halves |-> hid[h]] /\ hid[0] = SumOf(q.work, 0, launch.groups)
        /\ hid[1] = SumOf(q.work, 1, launch.groups)
    BY <2>1, <2>2 DEF ConsumerOk, Quantising, Epilogue
  <2>7. \A h \in Halves : hid[h] = SumOf(p.work, h, launch.groups)
    BY <2>5, <2>6 DEF Halves
  <2>8. [h \in Halves |-> hid[h]] = [h \in Halves |-> SumOf(p.work, h, launch.groups)]
    BY <2>7
  <2> QED BY <2>6, <2>8 DEF hid
<1>3. hidden[c] = PromisedIn(launch, p.work)
  <2>1. ConsumerOk(launch, p, step[c][w], fragment[c][w], total[c][w], hidden[c][w], output[c][w])
    BY DEF ConsumerInv
  <2>2. launch.live[p.work]
    BY <1>1, <2>1 DEF ConsumerOk, IsStep
  <2>3. hidden[c] = [v \in Warps |-> hidden[c][v]]
    BY DEF ConsumerInv, OnGrid
  <2>4. [v \in Warps |-> hidden[c][v]] = [v \in Warps |-> [h \in Halves |-> SumOf(p.work, h, launch.groups)]]
    BY <1>2
  <2> HIDE DEF p
  <2> QED BY <2>2, <2>3, <2>4 DEF PromisedIn, Warps
<1>4. ConsumerOk(launch, p, "quantised", fragment[c][w], total[c][w], hidden[c][w], o)
  <2>1. ConsumerOk(launch, p, "quantise", fragment[c][w], total[c][w], hidden[c][w], output[c][w])
    BY <1>1 DEF ConsumerInv
  <2> HIDE DEF p
  <2> QED BY <1>1, <1>3, <2>1, QuantiseOk
<1>5. /\ AtWarp(consumer', consumer, c, w, p) /\ AtWarp(step', step, c, w, "quantised")
      /\ AtWarp(fragment', fragment, c, w, fragment[c][w]) /\ AtWarp(total', total, c, w, total[c][w])
      /\ AtWarp(hidden', hidden, c, w, hidden[c][w]) /\ AtWarp(output', output, c, w, o)
  BY <1>1, SetWarp DEF ConsumerInv
<1>6. ConsumerInv'
  <2> HIDE DEF o
  <2> QED BY <1>1, <1>4, <1>5, OneWarp DEF Quantising
<1>7. ASSUME NEW d \in CTAs, NEW u \in Warps
      PROVE  Done(d, u)' = Done(d, u) /\ Read(d, u)' = Read(d, u)
  BY <1>1, <1>5 DEF AtWarp, Done, Read, DoneBy, ReadBy, Bit
<1> QED BY <1>6, <1>7

LEMMA SyncQuantisedConsumer ==
  ASSUME RoleInv, ConsumerInv, NEW c \in CTAs, SyncQuantised(c)
  PROVE  /\ ConsumerInv'
         /\ \A d \in CTAs, u \in Warps : Done(d, u)' = Done(d, u) /\ Read(d, u)' = Read(d, u)
<1>1. /\ \A w \in Warps : step[c][w] = "quantised"
      /\ UNCHANGED <<launch, freed, fragment, total, hidden, output>>
      /\ step' = [step EXCEPT ![c] =
           [w \in Warps |-> IF step[c][w] = "quantised" THEN "item" ELSE step[c][w]]]
      /\ consumer' = [consumer EXCEPT ![c] = [w \in Warps |->
           IF step[c][w] # "quantised" THEN consumer[c][w]
           ELSE Place(consumer[c][w].work + 1, 0, 0, consumer[c][w].serial + 1)]]
      /\ launch \in Launches
  BY DEF SyncQuantised, AllAt, RoleInv
<1>2. /\ OnGrid(step', CTAs, Warps) /\ \A w \in Warps : step'[c][w] = "item"
      /\ \A d \in CTAs \ {c}, w \in Warps : step'[d][w] = step[d][w]
  <2> DEFINE g == [w \in Warps |-> IF step[c][w] = "quantised" THEN "item" ELSE step[c][w]]
  <2>1. OnGrid(step, CTAs, Warps) /\ Total(g, Warps) /\ Put(step', step, c, g)
    BY <1>1 DEF ConsumerInv, Total, Put
  <2>2. \A w \in Warps : g[w] = "item"
    BY <1>1
  <2> HIDE DEF g
  <2> QED BY <2>1, <2>2, RowGrid
<1>3. /\ OnGrid(consumer', CTAs, Warps)
      /\ \A w \in Warps : consumer'[c][w] = Place(consumer[c][w].work + 1, 0, 0, consumer[c][w].serial + 1)
      /\ \A d \in CTAs \ {c}, w \in Warps : consumer'[d][w] = consumer[d][w]
  <2> DEFINE g == [w \in Warps |->
                     IF step[c][w] # "quantised" THEN consumer[c][w]
                     ELSE Place(consumer[c][w].work + 1, 0, 0, consumer[c][w].serial + 1)]
  <2>1. OnGrid(consumer, CTAs, Warps) /\ Total(g, Warps) /\ Put(consumer', consumer, c, g)
    BY <1>1 DEF ConsumerInv, Total, Put
  <2>2. \A w \in Warps : g[w] = Place(consumer[c][w].work + 1, 0, 0, consumer[c][w].serial + 1)
    BY <1>1
  <2> HIDE DEF g
  <2> QED BY <2>1, <2>2, RowGrid
<1>4. ASSUME NEW w \in Warps
      PROVE  /\ ConsumerOk(launch, consumer'[c][w], "item", fragment[c][w], total[c][w],
                           hidden[c][w], output[c][w])
             /\ LiveBelow(launch, consumer'[c][w].work) = LiveBelow(launch, consumer[c][w].work) + 1
  <2>1. ConsumerOk(launch, consumer[c][w], "quantised", fragment[c][w], total[c][w],
                   hidden[c][w], output[c][w])
    BY <1>1 DEF ConsumerInv
  <2> QED BY <1>1, <1>3, <2>1, ItemOk
<1>5. ConsumerInv'
  BY <1>1, <1>2, <1>3, <1>4, AllWarps
<1>6. ASSUME NEW d \in CTAs, NEW u \in Warps
      PROVE  Done(d, u)' = Done(d, u) /\ Read(d, u)' = Read(d, u)
  <2>1. CASE d = c
    <3>0. consumer'[d][u] = Place(consumer[d][u].work + 1, 0, 0, consumer[d][u].serial + 1)
      BY <1>3, <2>1
    <3>1. step'[d][u] = "item" /\ step[d][u] = "quantised"
          /\ consumer'[d][u].serial = consumer[d][u].serial + 1
      BY <1>1, <1>2, <3>0, <2>1 DEF Place
    <3>2. consumer[d][u].serial \in Nat
      BY DEF ConsumerInv, ConsumerOk, Placed, PlaceOf
    <3> QED BY <3>1, <3>2 DEF Done, Read, DoneBy, ReadBy, Bit
  <2>2. CASE d # c
    BY <1>2, <1>3, <2>2 DEF Done, Read
  <2> QED BY <2>1, <2>2
<1> QED BY <1>5, <1>6

LEMMA FreeConsumer ==
  ASSUME ConsumerInv, FreeTmem
  PROVE  ConsumerInv'
<1>1. /\ UNCHANGED <<launch, consumer, step, fragment, total, hidden, output>>
      /\ \A c \in CTAs, w \in Warps : step[c][w] = "item" /\ ~InItem(consumer[c][w])
  BY DEF FreeTmem, RolesJoined, consumers
<1> QED BY <1>1 DEF ConsumerInv, Warps, InItem, live

-----------------------------------------------------------------------------
(* The invariant.                                                          *)

LEMMA AtStart ==
  ASSUME NEW l \in Launches, NEW n \in Nat \ {0}, NEW k \in 0 .. n - 1
  PROVE  /\ Fills(0, k, n) = 0
         /\ GroupAt(l, 0) = 0 /\ HalfAt(l, 0) = 0 /\ ItemAt(l, 0) = 0 /\ LiveBelow(l, 1) = 0
<1>1. Split(0, n, 0, 0)
  BY DEF Split
<1>2. Fills(0, k, n) = 0
  <2>1. Fills(0, k, n) = IF k < 0 THEN 0 + 1 ELSE 0
    BY <1>1, FillsIs
  <2> QED BY <2>1
<1>3. \A d \in Nat \ {0} : 0 \div d = 0 /\ 0 % d = 0
  <2> TAKE d \in Nat \ {0}
  <2>1. 0 \in 0 .. d - 1 /\ 0 \in Nat /\ 0 = 0 * d + 0
    OBVIOUS
  <2>2. PICK s, q : s = 0 /\ q = 0
    OBVIOUS
  <2>3. s \div d = q /\ s % d = q
    <3>1. q \in Nat /\ q \in 0 .. d - 1 /\ s = q * d + q
      BY <2>1, <2>2
    <3> QED BY ONLY <3>1, Division, d \in Nat \ {0}
  <2> QED BY <2>2, <2>3
<1>4. GroupAt(l, 0) = 0 /\ HalfAt(l, 0) = 0 /\ ItemAt(l, 0) = 0
  <2>1. l.groups \in Nat \ {0} /\ 2 \in Nat \ {0}
    BY LaunchType
  <2>2. 0 \div l.groups = 0 /\ 0 % l.groups = 0 /\ 0 \div 2 = 0 /\ 0 % 2 = 0
    BY <1>3, <2>1
  <2> QED BY <2>2 DEF GroupAt, HalfAt, ItemAt
<1>5. LiveBelow(l, 1) = 0
  <2>1. LiveBelow(l, 1) = Cardinality(LiveSet(l, 1))
    BY LiveSetFinite
  <2>2. LiveSet(l, 1) = {}
    BY LaunchType DEF LiveSet
  <2>3. Cardinality({}) = 0
    BY FS_EmptySet
  <2> QED BY <2>1, <2>2, <2>3
<1> QED BY <1>2, <1>4, <1>5

\* No member of S has arrived.
LEMMA CountedNew ==
  ASSUME NEW S, IsFiniteSet(S), S # {}, NEW r, \A x \in S : r[x] = 0
  PROVE  Counted(NewBarrier(Cardinality(S)), S, r)
<1>1. PICK n : n = Cardinality(S)
  OBVIOUS
<1>2. n \in Nat /\ n >= 1
  <2>1. Cardinality(S) \in Nat /\ Cardinality(S) # 0
    BY FS_CardinalityType, FS_EmptySet
  <2> QED BY <1>1, <2>1
<1>3. NewBarrier(n) = [count |-> n, left |-> n, tx |-> 0, done |-> 0]
  BY DEF NewBarrier, Barrier
<1>4. PICK bar : bar = NewBarrier(n)
  OBVIOUS
<1>5. Settled(bar, n) /\ bar.done = 0 /\ bar.left = n
  BY <1>2, <1>3, <1>4 DEF Settled, BarrierType
<1>6. {x \in S : r[x] = bar.done} = S
  BY <1>5
<1>7. Counted(bar, S, r)
  BY <1>1, <1>2, <1>5, <1>6 DEF Counted
<1> QED BY <1>1, <1>4, <1>7

LEMMA SingleNew == Single(NewBarrier(1), 0)
BY DEF Single, Settled, NewBarrier, Barrier, BarrierType

LEMMA InitRoles ==
  ASSUME Init
  PROVE  RoleInv
<1> DEFINE f == FirstLive(1, 0)
<1>1. launch \in Launches /\ P \in Nat \ {0} /\ Len(live) \in Nat /\ 0 \in 0 .. P - 1
  <2>1. launch \in Launches /\ P \in Nat \ {0}
    BY Sizes DEF Init
  <2> QED BY <2>1, LaunchType DEF live
<1>2. Placed(launch, f) /\ Rowed(launch, f) /\ f.serial = 0
  <2>1. /\ 1 \in 1 .. Len(live) + 1 /\ 0 \in Nat /\ HalfAt(launch, 0) = 0 /\ GroupAt(launch, 0) = 0
        /\ ItemAt(launch, 0) = LiveBelow(launch, 1)
    BY <1>1, AtStart
  <2> QED BY <1>1, <2>1, FirstLiveStep
<1> HIDE DEF f
<1>3. /\ tma = [c \in CTAs |-> f] /\ scaler = tma /\ mma = f /\ in_flight = <<>>
      /\ gather = IF packed THEN [c \in CTAs |-> Place(Len(live) + 1, 0, 0, 0)] ELSE tma
  BY DEF Init, f
<1>4. gather = [c \in CTAs |-> gather[c]]
  BY <1>3
<1>5. ASSUME NEW c \in CTAs
      PROVE  IF packed THEN ~InItem(gather[c]) ELSE Placed(launch, gather[c]) /\ Rowed(launch, gather[c])
  <2>1. CASE packed
    <3>1. gather[c] = Place(Len(live) + 1, 0, 0, 0)
      BY <1>3, <2>1
    <3>2. gather[c].work = Len(live) + 1
      BY <3>1 DEF Place
    <3> QED BY <1>1, <2>1, <3>2 DEF InItem
  <2>2. CASE ~packed
    BY <1>2, <1>3, <2>2
  <2> QED BY <2>1, <2>2
<1>6. in_flight \in Seq(PlaceOf(launch)) /\ Len(in_flight) = 0
  BY <1>3
<1> QED BY <1>1, <1>2, <1>3, <1>4, <1>5, <1>6 DEF RoleInv

LEMMA InitConsumers ==
  ASSUME Init
  PROVE  ConsumerInv
<1>1. /\ launch \in Launches /\ ~freed
      /\ consumer = [c \in CTAs |-> [w \in Warps |-> Place(1, 0, 0, 0)]]
      /\ step = [c \in CTAs |-> [w \in Warps |-> "item"]]
      /\ fragment = [c \in CTAs |-> [w \in Warps |-> Garbage]]
      /\ total = [c \in CTAs |-> [w \in Warps |-> <<>>]]
      /\ hidden = [c \in CTAs |-> [w \in Warps |-> [h \in Halves |-> <<>>]]]
      /\ output = [c \in CTAs |-> [w \in Warps |-> <<>>]]
  BY DEF Init
<1>2. ASSUME NEW p, p = Place(1, 0, 0, 0), NEW hid, hid = [h \in Halves |-> <<>>]
      PROVE  ConsumerOk(launch, p, "item", Garbage, <<>>, hid, <<>>)
  <2>1. Len(launch.live) \in Nat /\ launch.groups \in Nat \ {0} /\ P \in Nat \ {0} /\ 0 \in 0 .. P - 1
    BY <1>1, LaunchType, Sizes
  <2>2. p = [work |-> 1, half |-> 0, group |-> 0, serial |-> 0] /\ p.work = 1 /\ p.half = 0 /\ p.group = 0
        /\ p.serial = 0
    BY <1>2 DEF Place
  <2>3. p \in PlaceOf(launch)
    <3>1. 1 \in 1 .. Len(launch.live) + 1 /\ 0 \in 0 .. launch.groups - 1 /\ 0 \in Halves /\ 0 \in Nat
      BY <2>1 DEF Halves
    <3> QED BY <2>2, <3>1 DEF PlaceOf
  <2>4. Placed(launch, p)
    <3>1. GroupAt(launch, 0) = 0 /\ HalfAt(launch, 0) = 0 /\ ItemAt(launch, 0) = 0 /\ LiveBelow(launch, 1) = 0
      BY <1>1, <2>1, AtStart
    <3> QED BY <2>2, <2>3, <3>1 DEF Placed
  <2>5. SumOf(p.work, p.half, p.group) = <<>>
    BY <2>2, SumNext
  <2>6. p.work - 1 + Bit("item" = "quantised") = 0
    BY <2>2 DEF Bit
  <2>7. <<>> = [i \in 1 .. 0 |-> PromisedIn(launch, i)]
    OBVIOUS
  <2>8. hid = [h \in Halves |-> hid[h]]
    BY <1>2
  <2>9. PICK e : e = <<>>
    OBVIOUS
  <2>10. ConsumerOk(launch, p, "item", Garbage, e, hid, e)
    <3>1. e = [i \in 1 .. p.work - 1 + Bit("item" = "quantised") |-> PromisedIn(launch, i)]
      BY <2>6, <2>7, <2>9
    <3>2. e = SumOf(p.work, p.half, p.group)
      BY <2>5, <2>9
    <3> QED BY ONLY <2>2, <2>4, <2>8, <3>1, <3>2 DEF ConsumerOk, Epilogue
  <2> QED BY <2>9, <2>10
<1>3. /\ OnGrid(consumer, CTAs, Warps) /\ OnGrid(step, CTAs, Warps) /\ OnGrid(fragment, CTAs, Warps)
      /\ OnGrid(total, CTAs, Warps) /\ OnGrid(hidden, CTAs, Warps) /\ OnGrid(output, CTAs, Warps)
  BY <1>1 DEF OnGrid
<1>4. ASSUME NEW c \in CTAs, NEW w \in Warps
      PROVE  /\ consumer[c][w] = Place(1, 0, 0, 0) /\ step[c][w] = "item" /\ fragment[c][w] = Garbage
             /\ total[c][w] = <<>> /\ hidden[c][w] = [h \in Halves |-> <<>>] /\ output[c][w] = <<>>
  BY <1>1
<1>5. ASSUME NEW c \in CTAs, NEW w \in Warps
      PROVE  ConsumerOk(launch, consumer[c][w], step[c][w], fragment[c][w], total[c][w],
                        hidden[c][w], output[c][w])
  BY <1>2, <1>4
<1>6. \A c \in CTAs, v, w \in Warps :
        /\ LiveBelow(launch, consumer[c][v].work) = LiveBelow(launch, consumer[c][w].work)
        /\ step[c][v] \in Quantising => step[c][w] \in Quantising
  BY <1>4 DEF Quantising
<1> QED BY <1>1, <1>3, <1>5, <1>6 DEF ConsumerInv

LEMMA InitSerials ==
  ASSUME Init
  PROVE  /\ mma.serial = 0 /\ Retired = 0
         /\ \A c \in CTAs :
              /\ tma[c].serial = 0 /\ scaler[c].serial = 0
              /\ ~packed => gather[c].serial = 0
              /\ \A w \in Warps : Done(c, w) = 0 /\ Read(c, w) = 0
<1>1. FirstLive(1, 0).serial = 0 /\ Place(1, 0, 0, 0).serial = 0
  BY DEF FirstLive, Place
<1>2. \A c \in CTAs, w \in Warps : Done(c, w) = 0 /\ Read(c, w) = 0
  BY <1>1 DEF Init, Done, Read, DoneBy, ReadBy, Bit
<1>3. mma.serial = 0 /\ Len(in_flight) = 0
  BY <1>1 DEF Init
<1>4. \A c \in CTAs : /\ tma[c].serial = 0 /\ scaler[c].serial = 0
                      /\ ~packed => gather[c].serial = 0
  BY <1>1 DEF Init
<1> QED BY <1>2, <1>3, <1>4 DEF Retired

LEMMA InitRings ==
  ASSUME Init
  PROVE  OrderInv /\ AccumulatorInv /\ ScaleInv
<1>1. /\ launch \in Launches /\ P \in Nat \ {0} /\ Buffers \in Nat \ {0}
      /\ IsFiniteSet(Warps) /\ Warps # {}
  <2>1. launch \in Launches
    BY DEF Init
  <2> QED BY <2>1, LaunchType, Sizes DEF Warps
<1>2. /\ mma.serial = 0 /\ Retired = 0
      /\ \A c \in CTAs :
           /\ tma[c].serial = 0 /\ scaler[c].serial = 0
           /\ ~packed => gather[c].serial = 0
           /\ \A w \in Warps : Done(c, w) = 0 /\ Read(c, w) = 0
  BY InitSerials
<1>3. \A n \in Nat \ {0} : \A k : k \in 0 .. n - 1 => Fills(0, k, n) = 0
  BY <1>1, AtStart
<1>4. OrderInv
  BY <1>1, <1>2 DEF OrderInv
<1>5. AccumulatorInv
  <2>1. /\ accumulator_full = [c \in CTAs |-> [j \in Accumulators |-> NewBarrier(1)]]
        /\ accumulator_empty = [j \in Accumulators |-> NewBarrier(Cardinality(CTAs \X Warps))]
        /\ tmem = [c \in CTAs |-> [j \in Accumulators |-> Garbage]]
    BY DEF Init, AccumulatorEmptyArrivals
  <2>2. /\ OnGrid(accumulator_full, CTAs, Accumulators) /\ OnGrid(tmem, CTAs, Accumulators)
        /\ accumulator_empty = [j \in Accumulators |-> accumulator_empty[j]]
    BY <2>1 DEF OnGrid
  <2>3. ASSUME NEW j \in Accumulators
        PROVE  Counted(accumulator_empty[j], CTAs \X Warps,
                       [x \in CTAs \X Warps |-> Fills(Done(x[1], x[2]), j, Buffers)])
    <3> DEFINE S == CTAs \X Warps
               r == [x \in S |-> Fills(Done(x[1], x[2]), j, Buffers)]
    <3>1. IsFiniteSet(S) /\ S # {}
      <4>1. CTAs = 0 .. 1
        BY DEF CTAs
      <4>2. IsFiniteSet(0 .. 1)
        BY ONLY 0 \in Int, 1 \in Int, FS_Interval
      <4>3. IsFiniteSet(CTAs) /\ CTAs # {}
        BY <4>1, <4>2
      <4>4. IsFiniteSet(S)
        BY <1>1, <4>3, FS_Product
      <4>5. PICK w : w \in Warps
        BY <1>1
      <4>6. <<0, w>> \in S
        BY <4>5 DEF CTAs
      <4> QED BY <4>4, <4>6
    <3>2. \A x \in S : r[x] = 0
      <4> TAKE x \in S
      <4>1. x[1] \in CTAs /\ x[2] \in Warps
        OBVIOUS
      <4>2. Fills(0, j, Buffers) = 0
        BY <1>1, <1>3 DEF Accumulators
      <4>3. Done(x[1], x[2]) = 0
        BY <1>2, <4>1
      <4> QED BY <4>2, <4>3
    <3>3. accumulator_empty[j] = NewBarrier(Cardinality(S))
      BY <2>1
    <3> HIDE DEF S, r
    <3>4. Counted(NewBarrier(Cardinality(S)), S, r)
      BY <3>1, <3>2, CountedNew
    <3> QED BY <3>3, <3>4 DEF S, r
  <2>4. ASSUME NEW c \in CTAs, NEW j \in Accumulators
        PROVE  Single(accumulator_full[c][j], Fills(Retired, j, Buffers))
    <3>1. Fills(0, j, Buffers) = 0
      BY <1>1, <1>3 DEF Accumulators
    <3> QED BY <1>2, <2>1, <3>1, SingleNew
  <2>5. \A c \in CTAs : Holds(launch, Buffers, Retired, mma.serial, tmem[c])
    BY <1>2 DEF Holds
  <2> QED BY <2>2, <2>3, <2>4, <2>5 DEF AccumulatorInv
<1>6. ScaleInv
  <2>1. /\ scale_full = [c \in CTAs |-> [k \in Slots |-> NewBarrier(1)]]
        /\ scale_empty = [c \in CTAs |-> [k \in Slots |-> NewBarrier(Cardinality(Warps))]]
        /\ scale = [c \in CTAs |-> [k \in Slots |-> Garbage]]
    BY DEF Init, ScaleEmptyArrivals
  <2>2. OnGrid(scale_full, CTAs, Slots) /\ OnGrid(scale_empty, CTAs, Slots) /\ OnGrid(scale, CTAs, Slots)
    BY <2>1 DEF OnGrid
  <2>3. ASSUME NEW c \in CTAs, NEW k \in Slots
        PROVE  /\ Single(scale_full[c][k], Fills(scaler[c].serial, k, P))
               /\ Counted(scale_empty[c][k], Warps, [w \in Warps |-> Fills(Done(c, w), k, P)])
    <3>1. Fills(0, k, P) = 0
      BY <1>1, <1>3 DEF Slots
    <3> DEFINE r == [w \in Warps |-> Fills(Done(c, w), k, P)]
    <3>2. \A w \in Warps : r[w] = 0
      BY <1>2, <3>1
    <3>3. Single(scale_full[c][k], Fills(scaler[c].serial, k, P))
      BY <1>2, <2>1, <3>1, SingleNew
    <3>4. scale_empty[c][k] = NewBarrier(Cardinality(Warps))
      BY <2>1
    <3> HIDE DEF r
    <3>5. Counted(NewBarrier(Cardinality(Warps)), Warps, r)
      BY <1>1, <3>2, CountedNew
    <3> QED BY <3>3, <3>4, <3>5 DEF r
  <2>4. \A c \in CTAs : Holds(launch, P, scaler[c].serial, scaler[c].serial, scale[c])
    BY <1>2 DEF Holds
  <2> QED BY <2>2, <2>3, <2>4 DEF ScaleInv
<1> QED BY <1>4, <1>5, <1>6

LEMMA InitOperand ==
  ASSUME Init
  PROVE  OperandInv
<1>1. launch \in Launches /\ P \in Nat \ {0} /\ launch.packed \in BOOLEAN
  <2>1. launch \in Launches
    BY DEF Init
  <2> QED BY <2>1, LaunchType, Sizes
<1>2. /\ mma.serial = 0 /\ Retired = 0
      /\ \A c \in CTAs : tma[c].serial = 0 /\ (~launch.packed => gather[c].serial = 0)
  BY InitSerials DEF packed
<1>3. /\ operand_full = [k \in Slots |-> NewBarrier(IF launch.packed THEN 1 ELSE 3)]
      /\ operand_empty = [c \in CTAs |-> [k \in Slots |-> NewBarrier(1)]]
      /\ a = [c \in CTAs |-> [k \in Rows |-> [tag |-> Garbage, slot |-> 0, landed |-> TRUE]]]
      /\ b = [c \in CTAs |-> [k \in Slots |-> [tag |-> Garbage, landed |-> TRUE]]]
  BY DEF Init, OperandFullArrivals, packed, Rows
<1>4. \A k \in Slots : Fills(0, k, P) = 0
  BY <1>1, AtStart DEF Slots
<1>5. ASSUME NEW k \in Slots PROVE FullOk(launch, k, operand_full[k], mma, tma, gather, a, b)
  <2>1. PICK bar, n : bar = operand_full[k] /\ n = IF launch.packed THEN 1 ELSE 3
    OBVIOUS
  <2>2. bar = [count |-> n, left |-> n, tx |-> 0, done |-> 0] /\ n \in {1, 3}
    BY <1>3, <2>1 DEF NewBarrier, Barrier
  <2>3. bar \in BarrierType /\ bar.count = n /\ bar.left = n /\ bar.tx = 0 /\ bar.done = 0
    BY <2>2 DEF BarrierType
  <2>4. \A c \in CTAs : b[c][k].landed
    BY <1>3
  <2>5. \A c \in CTAs : /\ Fills(tma[c].serial, k, P) = 0
                        /\ ~launch.packed => Fills(gather[c].serial, k, P) = 0
    BY <1>2, <1>4
  <2>6. /\ Here(tma[0].serial, k, 0) = 0
        /\ ~launch.packed => Here(gather[0].serial, k, 0) = 0 /\ Here(gather[1].serial, k, 0) = 0
    BY <2>5 DEF Here, Bit, CTAs
  <2>7. LoadsOf(launch, 0 * P + k) \in {1, 2}
    BY DEF LoadsOf, Bit
  <2>8. \A c \in CTAs : Owed(launch, k, 0, tma[c].serial, a[c], b[c][k]) = LoadsOf(launch, 0 * P + k)
    BY <2>5 DEF Owed
  <2>9. 0 = Owed(launch, k, 0, tma[0].serial, a[0], b[0][k]) + Owed(launch, k, 0, tma[1].serial, a[1], b[1][k])
            - 2 * LoadsOf(launch, 0 * P + k)
    <3>1. PICK x : x = LoadsOf(launch, 0 * P + k)
      OBVIOUS
    <3>2. /\ x \in Int /\ Owed(launch, k, 0, tma[0].serial, a[0], b[0][k]) = x
          /\ Owed(launch, k, 0, tma[1].serial, a[1], b[1][k]) = x
      BY <2>7, <2>8, <3>1 DEF CTAs
    <3> QED BY <3>1, <3>2
  <2>10. FullOk(launch, k, bar, mma, tma, gather, a, b)
    BY <1>1, <1>2, <1>4, <2>1, <2>2, <2>3, <2>4, <2>5, <2>6, <2>9 DEF FullOk, Leader
  <2> QED BY <2>1, <2>10
<1>6. /\ operand_full = [k \in Slots |-> operand_full[k]]
      /\ OnGrid(operand_empty, CTAs, Slots) /\ OnGrid(a, CTAs, Rows) /\ OnGrid(b, CTAs, Slots)
  BY <1>3 DEF OnGrid
<1>7. ASSUME NEW c \in CTAs
      PROVE  /\ \A k \in Slots : Single(operand_empty[c][k], Fills(Retired, k, P)) /\ IsRowB(b[c][k])
             /\ \A x \in Rows : /\ IsRowA(a[c][x])
                                /\ PendingOk(launch, a[c][x], x, tma[c].serial, operand_full)
             /\ HoldsB(launch, tma[c].serial, b[c])
             /\ HoldsA(launch, LoaderA(c), a[c])
  <2>1. \A k \in Slots : Single(operand_empty[c][k], Fills(Retired, k, P)) /\ IsRowB(b[c][k])
    BY <1>2, <1>3, <1>4, SingleNew DEF IsRowB
  <2>2. ASSUME NEW x \in Rows PROVE IsRowA(a[c][x]) /\ PendingOk(launch, a[c][x], x, tma[c].serial, operand_full)
    <3>1. a[c][x] = [tag |-> Garbage, slot |-> 0, landed |-> TRUE]
      BY <1>3
    <3> QED BY <3>1 DEF IsRowA, PendingOk
  <2>3. LoaderA(c) = 0 /\ tma[c].serial = 0
    BY <1>2 DEF LoaderA, packed
  <2>4. HoldsB(launch, tma[c].serial, b[c]) /\ HoldsA(launch, LoaderA(c), a[c])
    BY <2>3 DEF HoldsA, HoldsB
  <2> QED BY <2>1, <2>2, <2>4
<1> QED BY <1>5, <1>6, <1>7 DEF OperandInv

LEMMA IInvInit == Init => IInv
BY InitRoles, InitConsumers, InitRings, InitOperand DEF IInv

\* What a consumer's step leaves alone.
LEMMA ConsumerStepFrame ==
  ASSUME IInv, UNCHANGED <<launch, barriers, buffers, producers, matrix>>,
         \A d \in CTAs, u \in Warps : Done(d, u)' = Done(d, u)
  PROVE  RoleInv' /\ OperandInv' /\ AccumulatorInv' /\ ScaleInv'
         /\ ((\A d \in CTAs, u \in Warps : Read(d, u)' = Read(d, u)) => OrderInv')
<1>1. UNCHANGED <<launch, operand_full, operand_empty, accumulator_full, accumulator_empty, scale_full,
                  scale_empty, a, b, scale, tmem, tma, gather, scaler, mma, in_flight>>
  BY DEF barriers, buffers, producers, matrix
<1>2. RoleInv' /\ OperandInv'
  BY <1>1, RoleFrame, OperandFrame DEF IInv
<1>3. AccumulatorInv' /\ ScaleInv'
  BY <1>1, AccumulatorFrame, ScaleFrame DEF IInv
<1>4. (\A d \in CTAs, u \in Warps : Read(d, u)' = Read(d, u)) => OrderInv'
  BY <1>1, OrderFrame DEF IInv
<1> QED BY <1>2, <1>3, <1>4

LEMMA SameConsumers ==
  ASSUME UNCHANGED <<launch, consumers, freed>>
  PROVE  \A d \in CTAs, u \in Warps : Done(d, u)' = Done(d, u) /\ Read(d, u)' = Read(d, u)
BY DEF consumers, Done, Read

LEMMA IInvNext == IInv /\ [Next]_vars => IInv'
<1> SUFFICES ASSUME IInv, [Next]_vars PROVE IInv'
  OBVIOUS
<1> USE DEF IInv
<1>1. ASSUME NEW c \in CTAs, TmaIssue(c) PROVE IInv'
  <2>1. UNCHANGED <<launch, consumers, freed, accumulator_full, accumulator_empty, scale_full, scale_empty,
                    scale, tmem, scaler, mma, in_flight>>
    BY <1>1 DEF TmaIssue, matrix
  <2> QED BY <1>1, <2>1, SameConsumers, TmaRole, TmaIssueOperand, AccumulatorFrame, ScaleFrame, ConsumerFrame
<1>2. ASSUME NEW c \in CTAs, NEW k \in Slots, TmaLand(c, k) PROVE IInv'
  <2>1. UNCHANGED <<launch, consumers, freed, accumulator_full, accumulator_empty, scale_full, scale_empty,
                    scale, tmem, tma, gather, scaler, mma, in_flight>>
    BY <1>2 DEF TmaLand, producers, matrix
  <2> QED BY <1>2, <2>1, SameConsumers, RoleFrame, OrderFrame, TmaLandOperand, AccumulatorFrame, ScaleFrame,
             ConsumerFrame
<1>3. ASSUME NEW c \in CTAs, NEW k \in Rows, TmaLandA(c, k) PROVE IInv'
  <2>1. UNCHANGED <<launch, consumers, freed, accumulator_full, accumulator_empty, scale_full, scale_empty,
                    scale, tmem, tma, gather, scaler, mma, in_flight>>
    BY <1>3 DEF TmaLandA, producers, matrix
  <2> QED BY <1>3, <2>1, SameConsumers, RoleFrame, OrderFrame, TmaLandAOperand, AccumulatorFrame, ScaleFrame,
             ConsumerFrame
<1>4. ASSUME NEW c \in CTAs, Gather(c) PROVE IInv'
  <2>1. UNCHANGED <<launch, consumers, freed, accumulator_full, accumulator_empty, scale_full, scale_empty,
                    scale, tmem, scaler, mma, in_flight>>
    BY <1>4 DEF Gather, matrix
  <2> QED BY <1>4, <2>1, SameConsumers, GatherRole, GatherOperand, AccumulatorFrame, ScaleFrame, ConsumerFrame
<1>5. ASSUME NEW c \in CTAs, ScaleStore(c) PROVE IInv'
  <2>1. UNCHANGED <<launch, consumers, freed, operand_full, operand_empty, accumulator_full,
                    accumulator_empty, a, b, tmem, tma, gather, mma, in_flight>>
    BY <1>5 DEF ScaleStore, matrix
  <2> QED BY <1>5, <2>1, SameConsumers, ScaleRole, ScaleStoreScale, AccumulatorFrame, OperandFrame, ConsumerFrame
<1>6. ASSUME MmaIssue PROVE IInv'
  <2>1. UNCHANGED <<launch, consumers, freed, scale_full, scale_empty, scale, scaler>>
    BY <1>6 DEF MmaIssue, barriers, producers
  <2> QED BY <1>6, <2>1, SameConsumers, MmaRole, MmaIssueOperand, MmaIssueAccumulator, ScaleFrame, ConsumerFrame
<1>7. ASSUME MmaRetire PROVE IInv'
  <2>1. UNCHANGED <<launch, consumers, freed, scale_full, scale_empty, scale, scaler>>
    BY <1>7 DEF MmaRetire, producers
  <2>2. ReadsOwn(Head(in_flight))
    <3>1. in_flight \in Seq(PlaceOf(launch)) /\ in_flight # <<>>
      BY <1>7 DEF MmaRetire, RoleInv
    <3>2. 1 \in 1 .. Len(in_flight) /\ Head(in_flight) = in_flight[1]
      BY <3>1
    <3> QED BY <3>2, InFlightReads
  <2> QED BY <1>7, <2>1, <2>2, SameConsumers, RetireRole, RetireOperand, RetireAccumulator, ScaleFrame, ConsumerFrame
<1>8. ASSUME NEW c \in CTAs, NEW w \in Warps, WritePadding(c, w) PROVE IInv'
  <2>1. UNCHANGED <<launch, barriers, buffers, producers, matrix>>
    BY <1>8 DEF WritePadding
  <2> QED BY <1>8, <2>1, PaddingConsumer, ConsumerStepFrame
<1>9. ASSUME NEW c \in CTAs, NEW w \in Warps, ConsumerRead(c, w) PROVE IInv'
  <2>1. UNCHANGED <<launch, barriers, buffers, producers, matrix>>
    BY <1>9 DEF ConsumerRead
  <2> QED BY <1>9, <2>1, ReadConsumer, ConsumerStepFrame
<1>10. ASSUME NEW c \in CTAs, NEW w \in Warps, ConsumerRelease(c, w) PROVE IInv'
  <2>1. UNCHANGED <<launch, operand_full, operand_empty, a, b, tma, gather, scaler, mma, in_flight>>
    BY <1>10 DEF ConsumerRelease, buffers, producers, matrix
  <2> QED BY <1>10, <2>1, ReleaseConsumer, ReleaseRings, RoleFrame, OperandFrame
<1>11. ASSUME NEW c \in CTAs, NEW w \in Warps, WriteHidden(c, w) PROVE IInv'
  <2>1. UNCHANGED <<launch, barriers, buffers, producers, matrix>>
    BY <1>11 DEF WriteHidden
  <2> QED BY <1>11, <2>1, HiddenConsumer, ConsumerStepFrame
<1>12. ASSUME NEW c \in CTAs, SyncWritten(c) PROVE IInv'
  <2>1. UNCHANGED <<launch, barriers, buffers, producers, matrix>>
    BY <1>12 DEF SyncWritten
  <2> QED BY <1>12, <2>1, SyncWrittenConsumer, ConsumerStepFrame
<1>13. ASSUME NEW c \in CTAs, NEW w \in Warps, Quantise(c, w) PROVE IInv'
  <2>1. UNCHANGED <<launch, barriers, buffers, producers, matrix>>
    BY <1>13 DEF Quantise
  <2> QED BY <1>13, <2>1, QuantiseConsumer, ConsumerStepFrame
<1>14. ASSUME NEW c \in CTAs, SyncQuantised(c) PROVE IInv'
  <2>1. UNCHANGED <<launch, barriers, buffers, producers, matrix>>
    BY <1>14 DEF SyncQuantised
  <2> QED BY <1>14, <2>1, SyncQuantisedConsumer, ConsumerStepFrame
<1>15. CASE FreeTmem
  <2>1. UNCHANGED <<launch, barriers, buffers, producers, matrix, consumers>>
    BY <1>15 DEF FreeTmem
  <2>2. \A d \in CTAs, u \in Warps : Done(d, u)' = Done(d, u) /\ Read(d, u)' = Read(d, u)
    BY <2>1 DEF consumers, Done, Read
  <2> QED BY <1>15, <2>1, <2>2, FreeConsumer, ConsumerStepFrame
<1>16. CASE UNCHANGED vars
  <2>1. UNCHANGED <<launch, barriers, buffers, producers, matrix, consumers, freed>>
    BY <1>16 DEF vars
  <2> QED BY <2>1, SameConsumers, ConsumerFrame, ConsumerStepFrame
<1> QED
  BY <1>1, <1>2, <1>3, <1>4, <1>5, <1>6, <1>7, <1>8, <1>9, <1>10, <1>11, <1>12, <1>13, <1>14, <1>15, <1>16
     DEF Next, Terminated, Rows

\* Every reachable state of the cluster, whatever the launch, satisfies IInv.
THEOREM IInvHolds == Spec => []IInv
BY IInvInit, IInvNext, PTL DEF Spec

-----------------------------------------------------------------------------
(* The properties of the runs.                                             *)

LEMMA InRangeOf ==
  ASSUME NEW bar, NEW n
  PROVE  /\ Single(bar, n) => InRange(bar)
         /\ \A S, r : IsFiniteSet(S) /\ Counted(bar, S, r) => InRange(bar)
<1>1. Single(bar, n) => InRange(bar)
  BY DEF Single, Settled, InRange
<1>2. ASSUME NEW S, NEW r, IsFiniteSet(S), Counted(bar, S, r) PROVE InRange(bar)
  <2> DEFINE T == {x \in S : r[x] = bar.done}
  <2>1. T \in SUBSET S
    OBVIOUS
  <2>2. bar.left = Cardinality(T) /\ bar.left >= 1 /\ bar.count = Cardinality(S) /\ bar \in BarrierType
    BY <1>2 DEF Counted, Settled
  <2> HIDE DEF T
  <2>3. Cardinality(T) <= Cardinality(S)
    BY <1>2, <2>1, FS_Subset
  <2> QED BY <2>2, <2>3 DEF InRange, BarrierType
<1> QED BY <1>1, <1>2

LEMMA IInvType == IInv => TypeOK
<1> SUFFICES ASSUME IInv PROVE TypeOK
  OBVIOUS
<1> USE DEF IInv
<1>1. launch \in Launches /\ IsFiniteSet(Warps)
  <2>1. launch \in Launches
    BY DEF RoleInv
  <2> QED BY <2>1, LaunchType DEF Warps
<1>2. IsFiniteSet(CTAs \X Warps)
  <2>1. CTAs = 0 .. 1
    BY DEF CTAs
  <2>2. IsFiniteSet(0 .. 1)
    BY ONLY 0 \in Int, 1 \in Int, FS_Interval
  <2> QED BY <1>1, <2>1, <2>2, FS_Product
<1>3. ASSUME NEW k \in Slots
      PROVE  /\ InRange(operand_full[k])
             /\ \A c \in CTAs : InRange(operand_empty[c][k]) /\ InRange(scale_full[c][k])
                                /\ InRange(scale_empty[c][k])
  <2>1. FullOk(launch, k, operand_full[k], mma, tma, gather, a, b)
    BY DEF OperandInv
  <2>2. PICK bar : bar = operand_full[k]
    OBVIOUS
  <2>3. \A t, d : Here(t, k, d) \in {0, 1}
    BY DEF Here, Bit
  <2>4. InRange(bar)
    BY <2>1, <2>2, <2>3 DEF FullOk, InRange, BarrierType
  <2>5. ASSUME NEW c \in CTAs
        PROVE  InRange(operand_empty[c][k]) /\ InRange(scale_full[c][k]) /\ InRange(scale_empty[c][k])
    <3>1. /\ Single(operand_empty[c][k], Fills(Retired, k, P))
          /\ Single(scale_full[c][k], Fills(scaler[c].serial, k, P))
          /\ Counted(scale_empty[c][k], Warps, [w \in Warps |-> Fills(Done(c, w), k, P)])
      BY DEF OperandInv, ScaleInv
    <3> QED BY <1>1, <3>1, InRangeOf
  <2> QED BY <2>2, <2>4, <2>5
<1>4. ASSUME NEW j \in Accumulators
      PROVE  InRange(accumulator_empty[j]) /\ \A c \in CTAs : InRange(accumulator_full[c][j])
  <2>1. /\ Counted(accumulator_empty[j], CTAs \X Warps,
                   [x \in CTAs \X Warps |-> Fills(Done(x[1], x[2]), j, Buffers)])
        /\ \A c \in CTAs : Single(accumulator_full[c][j], Fills(Retired, j, Buffers))
    BY DEF AccumulatorInv
  <2> QED BY <1>2, <2>1, InRangeOf
<1>5. \A c \in CTAs, w \in Warps :
        step[c][w] \in {"item", "reading", "hidden", "written", "quantise", "quantised"}
  <2> TAKE c \in CTAs, w \in Warps
  <2>1. step[c][w] \in {"item", "reading", "hidden"} \cup Epilogue
    BY DEF ConsumerInv, ConsumerOk
  <2> QED BY <2>1 DEF Epilogue
<1>6. Len(in_flight) <= P
  <2>1. /\ mma.serial \in Nat /\ Retired \in Nat /\ tma[0].serial \in Nat /\ P \in Nat
        /\ Retired = mma.serial - Len(in_flight) /\ 0 \in CTAs
    BY Where, Sizes
  <2>2. mma.serial <= tma[0].serial /\ tma[0].serial <= Retired + P
    BY <2>1 DEF OrderInv
  <2>3. Len(in_flight) \in Nat
    BY DEF RoleInv
  <2> QED BY <2>1, <2>2, <2>3
<1> QED BY <1>1, <1>3, <1>4, <1>5, <1>6 DEF TypeOK

\* No MMA reads a row or a weight that is not its own, or not there yet, in
\* either CTA, and no barrier is passed or arrived at more often than it counts.
THEOREM OperandSafe == Spec => []OperandStable
<1>1. IInv => OperandStable
  <2> SUFFICES ASSUME IInv PROVE OperandStable
    OBVIOUS
  <2>1. TypeOK
    BY IInvType
  <2>2. DOMAIN in_flight = 1 .. Len(in_flight)
    BY DEF IInv, RoleInv
  <2> QED BY <2>1, <2>2, InFlightReads DEF OperandStable, IInv
<1> QED BY <1>1, IInvHolds, PTL

\* A warp between its reads and its release finds its own step's product and
\* scales: neither is overwritten before every warp that needs it is done.
THEOREM FragmentSafe == Spec => []FragmentStable
<1>1. IInv => FragmentStable
  <2> SUFFICES ASSUME IInv, NEW c \in CTAs, NEW w \in Warps, step[c][w] = "reading"
               PROVE  /\ tmem[c][Buffer(consumer[c][w])] = Tag(consumer[c][w])
                      /\ scale[c][Slot(consumer[c][w])] = Tag(consumer[c][w])
    BY DEF FragmentStable
  <2> USE DEF IInv
  <2>1. PICK p, x : p = consumer[c][w] /\ x = p.serial
    OBVIOUS
  <2>2. /\ x \in Nat /\ Retired \in Nat /\ mma.serial \in Nat /\ scaler[c].serial \in Nat
        /\ P \in Nat \ {0} /\ Buffers \in Nat \ {0} /\ launch \in Launches
    BY <2>1, Where, Sizes
  <2>3. Read(c, w) = x + 1 /\ Done(c, w) = x + 0
    BY <2>1 DEF Read, Done, ReadBy, DoneBy, Bit
  <2>4. /\ x + 1 <= Retired /\ mma.serial <= x + 0 + Buffers
        /\ x + 1 <= scaler[c].serial /\ scaler[c].serial <= x + 0 + P
    BY <2>3 DEF OrderInv
  <2>5. TagAt(launch, x) = Tag(p)
    <3>1. IsStep(launch, p)
      BY <2>1 DEF ConsumerInv, ConsumerOk
    <3> QED BY <2>1, <2>2, <3>1, TagOf
  <2>6. /\ Holds(launch, Buffers, Retired, mma.serial, tmem[c])
        /\ Holds(launch, P, scaler[c].serial, scaler[c].serial, scale[c])
    BY DEF AccumulatorInv, ScaleInv
  <2>7. x \in 0 .. Retired - 1 /\ x \in 0 .. scaler[c].serial - 1
    BY <2>2, <2>4
  <2>8. mma.serial <= x + Buffers /\ scaler[c].serial <= x + P
    BY <2>2, <2>4
  <2>9. tmem[c][x % Buffers] = Tag(p) /\ scale[c][x % P] = Tag(p)
    BY <2>5, <2>6, <2>7, <2>8 DEF Holds
  <2> QED BY <2>1, <2>9 DEF Buffer, Slot
<1> QED BY <1>1, IInvHolds, PTL

\* Every warp's stores are, item by item, zeros for padding or the rows of that
\* very item from every warp with both halves complete; all are there when the
\* kernel frees its tensor memory.
THEOREM OutputSafe == Spec => []OutputComplete
<1>1. IInv => OutputComplete
  <2> SUFFICES ASSUME IInv, NEW c \in CTAs, NEW w \in Warps
               PROVE  /\ \A i \in DOMAIN output[c][w] : output[c][w][i] = Promised(i)
                      /\ freed => Len(output[c][w]) = Len(live)
    BY DEF OutputComplete
  <2> USE DEF IInv
  <2>1. PICK p, n : p = consumer[c][w] /\ n = p.work - 1 + Bit(step[c][w] = "quantised")
    OBVIOUS
  <2>2. /\ output[c][w] = [i \in 1 .. n |-> PromisedIn(launch, i)] /\ launch \in Launches
        /\ Placed(launch, p)
    BY <2>1 DEF ConsumerInv, ConsumerOk, RoleInv
  <2>3. \A i \in DOMAIN output[c][w] : output[c][w][i] = PromisedIn(launch, i)
    BY <2>2
  <2>4. \A i : PromisedIn(launch, i) = Promised(i)
    BY DEF PromisedIn, Promised, SumOf, Half, Warps, live, groups
  <2>5. ASSUME freed PROVE Len(output[c][w]) = Len(live)
    <3>1. step[c][w] = "item" /\ ~(p.work <= Len(live))
      BY <2>1, <2>5 DEF ConsumerInv, InItem
    <3>2. p.work \in 1 .. Len(live) + 1 /\ Len(live) \in Nat
      BY <2>2, LaunchType DEF Placed, PlaceOf, live
    <3>3. n = Len(live)
      BY <2>1, <3>1, <3>2 DEF Bit
    <3> QED BY <2>2, <3>2, <3>3
  <2> QED BY <2>3, <2>4, <2>5
<1> QED BY <1>1, IInvHolds, PTL

=============================================================================
