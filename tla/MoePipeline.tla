----------------------------- MODULE MoePipeline -----------------------------
(***************************************************************************)
(* One cluster of the Thor MoE first projection (int8_g256_moe_gather.cu,  *)
(* int8_g256_moe_interleaved.cu and int8_g256_moe_fused.cu): gate and up   *)
(* projection of tokens, SwiGLU and quantisation.  The first two gather    *)
(* the tokens' rows by a warp of their own, the fused kernel loads packed  *)
(* rows by TMA; otherwise they run one protocol.  Two CTAs walk the same   *)
(* work items.                                                             *)
(* An item past its expert's rows is padding: consumers store zeros, the   *)
(* other roles pass over it.  The others take two column halves of Groups  *)
(* steps, counted by one serial that picks slots and buffers.              *)
(*                                                                         *)
(* Data are tags: <<work, half, group>>, or Garbage.  The input operand A  *)
(* is the same for both halves: <<work, group>>.                           *)
(***************************************************************************)
EXTENDS Mbarrier, FiniteSets, Sequences

CONSTANTS
  P,            \* slots of B and of the scales
  Buffers,      \* TMEM accumulators (4)
  CachedGroups, \* the K groups for which A stays in shared memory (6)
  Launches      \* [packed, groups, live, warps]: whether A is packed (the
                \* fused kernel); K groups; the cluster's work items, TRUE
                \* with rows, FALSE padding; consumer warps of a CTA

ASSUME ShapeAssumption ==
  /\ P \in Nat \ {0} /\ Buffers \in Nat \ {0}
  /\ CachedGroups \in Nat /\ CachedGroups >= P
  /\ \A l \in Launches :
       /\ l.packed \in BOOLEAN
       /\ l.groups \in Nat \ {0} /\ l.live \in Seq(BOOLEAN)
       /\ IsFiniteSet(l.warps) /\ l.warps # {}

VARIABLES
  launch,
  operand_full, operand_empty, accumulator_full, accumulator_empty,
  scale_full, scale_empty,
  a, b, scale, tmem,                    \* what the buffers hold
  tma, gather, scaler,                  \* where each producer of a CTA is
  mma, in_flight,                       \* where the issuer is; MMAs running
  consumer, step, fragment, total,      \* consumer warps
  hidden, output,                       \* hidden rows per warp and half; rows stored
  freed

barriers == <<operand_full, operand_empty, accumulator_full, accumulator_empty,
              scale_full, scale_empty>>
buffers == <<a, b, scale, tmem>>
producers == <<tma, gather, scaler>>
matrix == <<mma, in_flight>>
consumers == <<consumer, step, fragment, total, hidden, output>>
vars == <<launch, barriers, buffers, producers, matrix, consumers, freed>>

packed == launch.packed
groups == launch.groups
live == launch.live
Warps == launch.warps
CTAs == {0, 1}
Leader == 0
Slots == 0 .. P - 1
Accumulators == 0 .. Buffers - 1
Halves == {0, 1}
Garbage == <<>>
Padding == <<>>
ThisLap(p, n) == (p.serial \div n) % 2
LastLap(p, n) == ((p.serial \div n) - 1) % 2

\* A role's place: work item, column half, K group, and the serial it keeps.
Place(work, half, group, serial) ==
  [work |-> work, half |-> half, group |-> group, serial |-> serial]
InItem(p) == p.work <= Len(live)
Tag(p) == <<p.work, p.half, p.group>>
Slot(p) == p.serial % P
Buffer(p) == p.serial % Buffers
LastGroup(p) == p.group + 1 = groups

\* The next group or half; the serial goes on across items.
NextGroup(p) ==
  IF LastGroup(p) THEN Place(p.work, p.half + 1, 0, p.serial + 1)
                  ELSE Place(p.work, p.half, p.group + 1, p.serial + 1)
\* Producers and the issuer pass over padding without counting it.
FirstLive(work, serial) ==
  LET later == {w \in work .. Len(live) : live[w]}
  IN Place(IF later = {} THEN Len(live) + 1
           ELSE CHOOSE w \in later : \A v \in later : w <= v, 0, 0, serial)
Advance(p) ==
  IF LastGroup(p) /\ p.half = 1 THEN FirstLive(p.work + 1, p.serial + 1) ELSE NextGroup(p)

\* A is kept per group when the call's K allows it, and loaded once.
CacheA == groups = CachedGroups
ASlot(p) == IF CacheA THEN p.group ELSE Slot(p)
LoadsA(p) == ~CacheA \/ p.half = 0
\* The loads the leader announces: B of both CTAs, and a packed A that is due.
AnnouncedB(p) == 2
Announced(p) == IF packed /\ LoadsA(p) THEN 4 ELSE 2

\* Arrivals: the leader's announcement and the gather warps of both CTAs;
\* lane 0 of every consumer warp.
OperandFullArrivals == IF packed THEN 1 ELSE 3
AccumulatorEmptyArrivals == Cardinality(CTAs \X Warps)
ScaleEmptyArrivals == Cardinality(Warps)

Init ==
  /\ launch \in Launches
  /\ operand_full = [k \in Slots |-> NewBarrier(OperandFullArrivals)]
  /\ operand_empty = [c \in CTAs |-> [k \in Slots |-> NewBarrier(1)]]
  /\ scale_full = [c \in CTAs |-> [k \in Slots |-> NewBarrier(1)]]
  /\ scale_empty = [c \in CTAs |-> [k \in Slots |-> NewBarrier(ScaleEmptyArrivals)]]
  /\ accumulator_full = [c \in CTAs |-> [j \in Accumulators |-> NewBarrier(1)]]
  /\ accumulator_empty = [j \in Accumulators |-> NewBarrier(AccumulatorEmptyArrivals)]
  /\ a = [c \in CTAs |-> [k \in 0 .. CachedGroups - 1 |->
             [tag |-> Garbage, slot |-> 0, landed |-> TRUE]]]
  /\ b = [c \in CTAs |-> [k \in Slots |-> [tag |-> Garbage, landed |-> TRUE]]]
  /\ scale = [c \in CTAs |-> [k \in Slots |-> Garbage]]
  /\ tmem = [c \in CTAs |-> [j \in Accumulators |-> Garbage]]
  /\ tma = [c \in CTAs |-> FirstLive(1, 0)] /\ scaler = tma
  /\ gather = IF packed THEN [c \in CTAs |-> Place(Len(live) + 1, 0, 0, 0)] ELSE tma
  /\ mma = FirstLive(1, 0) /\ in_flight = <<>>
  /\ consumer = [c \in CTAs |-> [w \in Warps |-> Place(1, 0, 0, 0)]]
  /\ step = [c \in CTAs |-> [w \in Warps |-> "item"]]
  /\ fragment = [c \in CTAs |-> [w \in Warps |-> Garbage]]
  /\ total = [c \in CTAs |-> [w \in Warps |-> <<>>]]
  /\ hidden = [c \in CTAs |-> [w \in Warps |-> [h \in Halves |-> <<>>]]]
  /\ output = [c \in CTAs |-> [w \in Warps |-> <<>>]]
  /\ freed = FALSE

-----------------------------------------------------------------------------
(* The producers of each CTA.                                              *)

OperandSlotFree(c, p) == p.serial >= P => Passes(operand_empty[c][Slot(p)], LastLap(p, P))

ARow(p, done) == [tag |-> <<p.work, p.group>>, slot |-> Slot(p), landed |-> done]

\* Warp 1: both CTAs load, the leader announces the bytes of both.
TmaIssue(c) ==
  LET p == tma[c]
      k == Slot(p)
  IN /\ InItem(p) /\ OperandSlotFree(c, p)
     /\ operand_full' = IF c = Leader
          THEN [operand_full EXCEPT ![k] = ArriveExpectTx(@, Announced(p))] ELSE operand_full
     /\ a' = IF packed /\ LoadsA(p) THEN [a EXCEPT ![c][ASlot(p)] = ARow(p, FALSE)] ELSE a
     /\ b' = [b EXCEPT ![c][k] = [tag |-> Tag(p), landed |-> FALSE]]
     /\ tma' = [tma EXCEPT ![c] = Advance(p)]
     /\ UNCHANGED <<launch, operand_empty, accumulator_full, accumulator_empty, scale_full,
                    scale_empty, scale, tmem, gather, scaler, matrix, consumers, freed>>

\* A load's bytes land in any order, B's and A's apart.
TmaLand(c, k) ==
  /\ ~b[c][k].landed
  /\ b' = [b EXCEPT ![c][k].landed = TRUE]
  /\ operand_full' = [operand_full EXCEPT ![k] = CompleteTx(@, 1)]
  /\ UNCHANGED <<launch, operand_empty, accumulator_full, accumulator_empty, scale_full,
                 scale_empty, a, scale, tmem, producers, matrix, consumers, freed>>

TmaLandA(c, k) ==
  /\ ~a[c][k].landed
  /\ a' = [a EXCEPT ![c][k].landed = TRUE]
  /\ operand_full' = [operand_full EXCEPT ![a[c][k].slot] = CompleteTx(@, 1)]
  /\ UNCHANGED <<launch, operand_empty, accumulator_full, accumulator_empty, scale_full,
                 scale_empty, b, scale, tmem, producers, matrix, consumers, freed>>

\* Warp 3: copies the tokens' rows and waits for the copies before lane 0
\* arrives on the leader, also for a half whose A is already there.
Gather(c) ==
  LET p == gather[c]
  IN /\ InItem(p) /\ OperandSlotFree(c, p)
     /\ a' = IF LoadsA(p) THEN [a EXCEPT ![c][ASlot(p)] = ARow(p, TRUE)] ELSE a
     /\ operand_full' = [operand_full EXCEPT ![Slot(p)] = Arrive(@)]
     /\ gather' = [gather EXCEPT ![c] = Advance(p)]
     /\ UNCHANGED <<launch, operand_empty, accumulator_full, accumulator_empty, scale_full,
                    scale_empty, b, scale, tmem, tma, scaler, matrix, consumers, freed>>

ScaleSlotFree(c, p) == p.serial >= P => Passes(scale_empty[c][Slot(p)], LastLap(p, P))

\* Warp 2: plain stores, __syncwarp, then lane 0 arrives.
ScaleStore(c) ==
  LET p == scaler[c]
  IN /\ InItem(p) /\ ScaleSlotFree(c, p)
     /\ scale' = [scale EXCEPT ![c][Slot(p)] = Tag(p)]
     /\ scale_full' = [scale_full EXCEPT ![c][Slot(p)] = Arrive(@)]
     /\ scaler' = [scaler EXCEPT ![c] = Advance(p)]
     /\ UNCHANGED <<launch, operand_full, operand_empty, accumulator_full, accumulator_empty,
                    scale_empty, a, b, tmem, tma, gather, matrix, consumers, freed>>

-----------------------------------------------------------------------------
(* Warp 0 of the leader, and the tensor core behind it.                    *)

AccumulatorFreeThisLap(p) == p.serial >= Buffers =>
  Passes(accumulator_empty[Buffer(p)], ThisLap(p, Buffers))
AccumulatorFree(p) == p.serial >= Buffers =>
  Passes(accumulator_empty[Buffer(p)], LastLap(p, Buffers))

MmaIssue ==
  LET p == mma
  IN /\ InItem(p) /\ AccumulatorFree(p)
     /\ Passes(operand_full[Slot(p)], ThisLap(p, P))
     /\ tmem' = [c \in CTAs |-> [tmem[c] EXCEPT ![Buffer(p)] = Garbage]]
     /\ in_flight' = Append(in_flight, p)
     /\ mma' = Advance(p)
     /\ UNCHANGED <<launch, barriers, a, b, scale, producers, consumers, freed>>

ReadsOwn(p) == \A c \in CTAs :
  /\ a[c][ASlot(p)].tag = <<p.work, p.group>> /\ a[c][ASlot(p)].landed
  /\ b[c][Slot(p)] = [tag |-> Tag(p), landed |-> TRUE]
Product(p) == IF ReadsOwn(p) THEN Tag(p) ELSE Garbage

\* MMAs complete in order; both multicast commits arrive in both CTAs.  An
\* arrival that is under way longer looks like a waiter that polls later.
MmaRetire ==
  LET p == Head(in_flight)
  IN /\ in_flight # <<>>
     /\ tmem' = [c \in CTAs |-> [tmem[c] EXCEPT ![Buffer(p)] = Product(p)]]
     /\ operand_empty' = [c \in CTAs |-> [operand_empty[c] EXCEPT ![Slot(p)] = Arrive(@)]]
     /\ accumulator_full' = [c \in CTAs |->
          [accumulator_full[c] EXCEPT ![Buffer(p)] = Arrive(@)]]
     /\ in_flight' = Tail(in_flight)
     /\ UNCHANGED <<launch, operand_full, accumulator_empty, scale_full, scale_empty, a, b,
                    scale, producers, mma, consumers, freed>>

-----------------------------------------------------------------------------
(* The consumer warps.                                                     *)

HasRows(c, w) == InItem(consumer[c][w]) /\ live[consumer[c][w].work]
Goes(c, w, next) == step' = [step EXCEPT ![c][w] = next]

\* Its share of the zero rows of a padding item; no other warp is involved.
WritePadding(c, w) ==
  LET p == consumer[c][w]
  IN /\ step[c][w] = "item" /\ InItem(p) /\ ~live[p.work]
     /\ output' = [output EXCEPT ![c][w] = Append(@, Padding)]
     /\ consumer' = [consumer EXCEPT ![c][w] = Place(p.work + 1, 0, 0, p.serial)]
     /\ UNCHANGED <<launch, barriers, buffers, producers, matrix, step, fragment, total,
                    hidden, freed>>

ConsumerRead(c, w) ==
  LET p == consumer[c][w]
  IN /\ step[c][w] = "item" /\ HasRows(c, w)
     /\ Passes(accumulator_full[c][Buffer(p)], ThisLap(p, Buffers))
     /\ Passes(scale_full[c][Slot(p)], ThisLap(p, P))
     /\ fragment' = [fragment EXCEPT ![c][w] = tmem[c][Buffer(p)]]
     /\ Goes(c, w, "reading")
     /\ UNCHANGED <<launch, barriers, buffers, producers, matrix, consumer, total, hidden,
                    output, freed>>

Promoted(c, w, k) == IF scale[c][k] = fragment[c][w] THEN fragment[c][w] ELSE Garbage

\* Lane 0 releases the accumulator on the leader and its own CTA's scales.
ConsumerRelease(c, w) ==
  LET p == consumer[c][w]
  IN /\ step[c][w] = "reading"
     /\ total' = [total EXCEPT ![c][w] = Append(@, Promoted(c, w, Slot(p)))]
     /\ accumulator_empty' = [accumulator_empty EXCEPT ![Buffer(p)] = Arrive(@)]
     /\ scale_empty' = [scale_empty EXCEPT ![c][Slot(p)] = Arrive(@)]
     /\ IF LastGroup(p)
          THEN Goes(c, w, "hidden") /\ UNCHANGED consumer
          ELSE Goes(c, w, "item") /\ consumer' = [consumer EXCEPT ![c][w] = NextGroup(p)]
     /\ UNCHANGED <<launch, operand_full, operand_empty, accumulator_full, scale_full,
                    buffers, producers, matrix, fragment, hidden, output, freed>>

\* The half's activations go to shared memory; the sums start again.
WriteHidden(c, w) ==
  LET p == consumer[c][w]
  IN /\ step[c][w] = "hidden"
     /\ hidden' = [hidden EXCEPT ![c][w][p.half] = total[c][w]]
     /\ total' = [total EXCEPT ![c][w] = <<>>]
     /\ IF p.half = 0
          THEN Goes(c, w, "item") /\ consumer' = [consumer EXCEPT ![c][w] = NextGroup(p)]
          ELSE Goes(c, w, "written") /\ UNCHANGED consumer
     /\ UNCHANGED <<launch, barriers, buffers, producers, matrix, fragment, output, freed>>

\* The two named barriers around the quantisation.
AnyAt(c, s) == \E w \in Warps : step[c][w] = s
AllAt(c, s) == \A w \in Warps : step[c][w] = s

SyncWritten(c) ==
  /\ AllAt(c, "written")
  /\ step' = [step EXCEPT ![c] = [w \in Warps |-> "quantise"]]
  /\ UNCHANGED <<launch, barriers, buffers, producers, matrix, consumer, fragment, total,
                 hidden, output, freed>>

\* A warp quantises whole rows, whose columns any warp has written.
Quantise(c, w) ==
  /\ step[c][w] = "quantise"
  /\ output' = [output EXCEPT ![c][w] = Append(@, hidden[c])]
  /\ Goes(c, w, "quantised")
  /\ UNCHANGED <<launch, barriers, buffers, producers, matrix, consumer, fragment, total,
                 hidden, freed>>

SyncQuantised(c) ==
  /\ AllAt(c, "quantised")
  /\ step' = [step EXCEPT ![c] =
       [w \in Warps |-> IF step[c][w] = "quantised" THEN "item" ELSE step[c][w]]]
  /\ consumer' = [consumer EXCEPT ![c] = [w \in Warps |->
       IF step[c][w] # "quantised" THEN consumer[c][w]
       ELSE Place(consumer[c][w].work + 1, 0, 0, consumer[c][w].serial + 1)]]
  /\ UNCHANGED <<launch, barriers, buffers, producers, matrix, fragment, total, hidden,
                 output, freed>>

-----------------------------------------------------------------------------
RolesJoined ==
  /\ ~InItem(mma)
  /\ \A c \in CTAs :
       /\ ~InItem(tma[c]) /\ ~InItem(gather[c]) /\ ~InItem(scaler[c])
       /\ \A w \in Warps : step[c][w] = "item" /\ ~InItem(consumer[c][w])

FreeTmem ==
  /\ ~freed /\ RolesJoined
  /\ freed' = TRUE
  /\ UNCHANGED <<launch, barriers, buffers, producers, matrix, consumers>>

Terminated == freed /\ UNCHANGED vars

Next ==
  \/ MmaIssue \/ MmaRetire \/ FreeTmem \/ Terminated
  \/ \E c \in CTAs :
       \/ TmaIssue(c) \/ Gather(c) \/ ScaleStore(c) \/ SyncWritten(c) \/ SyncQuantised(c)
       \/ \E k \in Slots : TmaLand(c, k)
       \/ \E k \in 0 .. CachedGroups - 1 : TmaLandA(c, k)
       \/ \E w \in Warps :
            \/ WritePadding(c, w) \/ ConsumerRead(c, w) \/ ConsumerRelease(c, w)
            \/ WriteHidden(c, w) \/ Quantise(c, w)

Spec == Init /\ [][Next]_vars

-----------------------------------------------------------------------------
(* Correctness.                                                            *)

InRange(barrier) == barrier \in BarrierType /\ barrier.left \in 0 .. barrier.count
TypeOK ==
  /\ launch \in Launches
  /\ \A k \in Slots :
       /\ InRange(operand_full[k])
       /\ \A c \in CTAs : InRange(operand_empty[c][k]) /\ InRange(scale_full[c][k])
                          /\ InRange(scale_empty[c][k])
  /\ \A j \in Accumulators :
       /\ InRange(accumulator_empty[j])
       /\ \A c \in CTAs : InRange(accumulator_full[c][j])
  /\ \A c \in CTAs, w \in Warps :
       step[c][w] \in {"item", "reading", "hidden", "written", "quantise", "quantised"}
  /\ Len(in_flight) <= P

\* An MMA in flight reads the rows of its own item and group, and B of its own
\* half, in both CTAs: an A kept for the second half is not replaced by the
\* next item's, whatever lies between them.  No barrier is passed or arrived at
\* more often than it counts (TypeOK).
OperandStable == TypeOK /\ \A i \in DOMAIN in_flight : ReadsOwn(in_flight[i])

\* A warp that still reads finds the product and the scales of its own step.
FragmentStable ==
  \A c \in CTAs, w \in Warps : step[c][w] = "reading" =>
    LET p == consumer[c][w]
    IN tmem[c][Buffer(p)] = Tag(p) /\ scale[c][Slot(p)] = Tag(p)

\* Every warp stores, item by item, zeros for padding and otherwise rows made
\* of both halves of that very item from every warp, each half the complete
\* sum of its groups.
Half(work, h) == [g \in 1 .. groups |-> <<work, h, g - 1>>]
Promised(work) ==
  IF live[work] THEN [w \in Warps |-> [h \in Halves |-> Half(work, h)]] ELSE Padding
OutputComplete ==
  \A c \in CTAs, w \in Warps :
    /\ \A i \in DOMAIN output[c][w] : output[c][w][i] = Promised(i)
    /\ freed => Len(output[c][w]) = Len(live)
=============================================================================
