---------------------------- MODULE TwoSmPipeline ----------------------------
(***************************************************************************)
(* One cluster of the warp-specialised two-SM G256 kernel (thor_ws2).  Two *)
(* CTAs walk the same tiles; every (tile, K group) is one step of a global *)
(* sequence.  A sequence number picks an operand/scale slot (modulo P) and *)
(* a TMEM stage (modulo 2).  The roles below meet only on mbarriers.       *)
(*                                                                         *)
(* Data are tags: a buffer holds the sequence number it was filled for, or *)
(* Garbage while a copy or an MMA is writing it.                           *)
(***************************************************************************)
EXTENDS Mbarrier, FiniteSets, Sequences

CONSTANTS
  P,          \* operand slots, the template parameter of the kernel
  Tiles,      \* tiles this cluster walks
  Groups,     \* K groups of a tile
  Parts,      \* the 128-thread promotion groups of a CTA
  PartWarps,  \* the warps of one promotion group
  ScaleLanes, \* the lanes of the scale producer warp
  Lanes,      \* the lanes of a consumer warp
  Lane0,      \* the lane that speaks for a consumer warp
  Subs        \* epilogue sub-tiles of a tile

ASSUME PAssumption == P \in {2, 3}
ASSUME SizeAssumption == Tiles \in Nat /\ Groups \in Nat \ {0} /\ Subs \in Nat \ {0}
ASSUME ThreadAssumption ==
  /\ IsFiniteSet(Parts) /\ Parts # {}
  /\ IsFiniteSet(PartWarps) /\ PartWarps # {}
  /\ IsFiniteSet(ScaleLanes) /\ ScaleLanes # {}
  /\ IsFiniteSet(Lanes) /\ Lane0 \in Lanes

VARIABLES
  ab_full, ab_empty,     \* operand ring: leader's full, each CTA's empty
  sf_full, sf_empty,     \* scale ring of each CTA
  acc_full, acc_empty,   \* TMEM ring: each CTA's full, leader's empty
  operand, scale, tmem,  \* what the buffers hold
  tma,                   \* next sequence each CTA's TMA warp issues
  sf, copying,           \* next sequence of each scale lane; lanes mid-copy
  mma, retired,          \* MMAs issued and MMAs completed
  owed_empty, owed_full, \* commit arrivals not yet delivered
  sequence, held,        \* consumer warps: next sequence; lanes still reading
  partial, total,        \* registers: the TMEM fragment; the running sum
  pc, sub,               \* consumer warps: where in the tile; epilogue sub-tile
  exchange, output,      \* epilogue staging buffer; rows stored to C
  freed                  \* TMEM returned after the final join

barriers == <<ab_full, ab_empty, sf_full, sf_empty, acc_full, acc_empty>>
producers == <<tma, sf, copying>>
matrix == <<mma, retired, owed_empty, owed_full>>
consumers == <<sequence, held, partial, total>>
epilogue == <<sub, exchange, output>>
vars == <<barriers, operand, scale, tmem, producers, matrix, consumers, pc,
          epilogue, freed>>

CTAs == {0, 1}
Leader == 0
Slots == 0 .. P - 1
Stages == 0 .. 1
Steps == Tiles * Groups
ConsumerWarps == CTAs \X (Parts \X PartWarps)
Cta(w) == w[1]
WarpsOf(c) == {w \in ConsumerWarps : Cta(w) = c}
PartOf(c, p) == {w \in ConsumerWarps : w[1] = c /\ w[2][1] = p}
PartMates(w) == PartOf(w[1], w[2][1])

Slot(s) == s % P
Stage(s) == s % 2
Garbage == -1

\* The parity of the phase that the use of a ring of n entries at sequence s
\* completes, and of the phase its previous use completed.
ThisLap(s, n) == (s \div n) % 2
LastLapSameParity(s, n) == (s \div n) % 2
LastLap(s, n) == ((s \div n) - 1) % 2

\* An MMA mixes both CTAs' operands; a promotion mixes a fragment with every
\* scale of its slot.  Mixing different sequences makes garbage.
Product(k) ==
  IF operand[0][k] = operand[1][k] /\ operand[0][k].landed
    THEN operand[0][k].seq ELSE Garbage
Promoted(w, k) ==
  IF \A l \in ScaleLanes : scale[Cta(w)][k][l] = partial[w] THEN partial[w] ELSE Garbage

\* The arrivals that complete a phase of the barriers with many writers.
SfFullArrivals(c) == Cardinality(ScaleLanes)
SfEmptyOncePerWarp(c) == Cardinality(WarpsOf(c))
SfEmptyArrivals(c) == Cardinality(WarpsOf(c) \X Lanes)
AccEmptyLeaderOnly == Cardinality(WarpsOf(Leader))
AccEmptyArrivals == Cardinality(ConsumerWarps)

Init ==
  /\ ab_full = [k \in Slots |-> NewBarrier(1)]
  /\ ab_empty = [c \in CTAs |-> [k \in Slots |-> NewBarrier(1)]]
  /\ sf_full = [c \in CTAs |-> [k \in Slots |-> NewBarrier(SfFullArrivals(c))]]
  /\ sf_empty = [c \in CTAs |-> [k \in Slots |-> NewBarrier(SfEmptyArrivals(c))]]
  /\ acc_full = [c \in CTAs |-> [j \in Stages |-> NewBarrier(1)]]
  /\ acc_empty = [j \in Stages |-> NewBarrier(AccEmptyArrivals)]
  /\ operand = [c \in CTAs |-> [k \in Slots |-> [seq |-> Garbage, landed |-> TRUE]]]
  /\ scale = [c \in CTAs |-> [k \in Slots |-> [l \in ScaleLanes |-> Garbage]]]
  /\ tmem = [c \in CTAs |-> [j \in Stages |-> Garbage]]
  /\ tma = [c \in CTAs |-> 0]
  /\ sf = [c \in CTAs |-> [l \in ScaleLanes |-> 0]]
  /\ copying = [c \in CTAs |-> {}]
  /\ mma = 0 /\ retired = 0
  /\ owed_empty = [c \in CTAs |-> [k \in Slots |-> 0]]
  /\ owed_full = [c \in CTAs |-> [j \in Stages |-> 0]]
  /\ sequence = [w \in ConsumerWarps |-> 0]
  /\ held = [w \in ConsumerWarps |-> {}]
  /\ partial = [w \in ConsumerWarps |-> Garbage]
  /\ total = [w \in ConsumerWarps |-> [l \in Lanes |-> <<>>]]
  /\ pc = [w \in ConsumerWarps |-> "groups"]
  /\ sub = [w \in ConsumerWarps |-> 0]
  /\ exchange = [w \in ConsumerWarps |-> <<>>]
  /\ output = [w \in ConsumerWarps |-> <<>>]
  /\ freed = FALSE

-----------------------------------------------------------------------------
(* Warp 2 of each CTA: TMA operand producer.                               *)

OperandSlotFreeAlways(c, s) == TRUE
OperandSlotFree(c, s) == s >= P => Passes(ab_empty[c][Slot(s)], LastLap(s, P))

\* Both CTAs load, only the leader counts itself in and announces the bytes.
AnnouncesEveryCta(c) == TRUE
Announces(c) == c = Leader

\* The slot is overwritten from here on; both CTAs' bytes are counted on the
\* leader's barrier, which only the leader announces.
TmaIssue(c) ==
  LET s == tma[c]
      k == Slot(s)
  IN /\ s < Steps
     /\ OperandSlotFree(c, s)
     /\ ab_full' = IF Announces(c)
                     THEN [ab_full EXCEPT ![k] = ArriveExpectTx(@, 2)]
                     ELSE ab_full
     /\ operand' = [operand EXCEPT ![c][k] = [seq |-> s, landed |-> FALSE]]
     /\ tma' = [tma EXCEPT ![c] = s + 1]
     /\ UNCHANGED <<ab_empty, sf_full, sf_empty, acc_full, acc_empty, scale, tmem,
                    sf, copying, matrix, consumers, pc, epilogue, freed>>

\* The TMA engine completes a CTA's copies at any later time, in any order.
TmaLand(c, k) ==
  /\ ~operand[c][k].landed
  /\ operand' = [operand EXCEPT ![c][k] = [seq |-> @.seq, landed |-> TRUE]]
  /\ ab_full' = [ab_full EXCEPT ![k] = CompleteTx(@, 1)]
  /\ UNCHANGED <<ab_empty, sf_full, sf_empty, acc_full, acc_empty, scale, tmem,
                 producers, matrix, consumers, pc, epilogue, freed>>

-----------------------------------------------------------------------------
(* Warp 3 of each CTA: scale producer, one cp.async stream per lane.       *)

ScaleSlotFree(c, s) == s >= P => Passes(sf_empty[c][Slot(s)], LastLap(s, P))

\* __syncwarp ends every iteration: no lane starts s before all did s - 1.
ScaleIssue(c, l) ==
  LET s == sf[c][l]
      k == Slot(s)
  IN /\ s < Steps
     /\ l \notin copying[c]
     /\ \A m \in ScaleLanes : sf[c][m] >= s
     /\ ScaleSlotFree(c, s)
     /\ copying' = [copying EXCEPT ![c] = @ \cup {l}]
     /\ scale' = [scale EXCEPT ![c][k][l] = Garbage]
     /\ UNCHANGED <<barriers, operand, tmem, tma, sf, matrix, consumers, pc,
                    epilogue, freed>>

\* cp.async.wait_all, then the lane's own arrival.
ScalePublish(c, l) ==
  LET s == sf[c][l]
      k == Slot(s)
  IN /\ l \in copying[c]
     /\ copying' = [copying EXCEPT ![c] = @ \ {l}]
     /\ scale' = [scale EXCEPT ![c][k][l] = s]
     /\ sf_full' = [sf_full EXCEPT ![c][k] = Arrive(@)]
     /\ sf' = [sf EXCEPT ![c][l] = s + 1]
     /\ UNCHANGED <<ab_full, ab_empty, sf_empty, acc_full, acc_empty, operand, tmem,
                    tma, matrix, consumers, pc, epilogue, freed>>

-----------------------------------------------------------------------------
(* Warp 0 of the leader: the MMA issuer, and the tensor core behind it.    *)

StageFreeAlways(s) == TRUE
StageFree(s) == s >= 2 => Passes(acc_empty[Stage(s)], LastLap(s, 2))

MmaIssue ==
  LET s == mma
  IN /\ s < Steps
     /\ StageFree(s)
     /\ Passes(ab_full[Slot(s)], ThisLap(s, P))
     /\ tmem' = [c \in CTAs |-> [tmem[c] EXCEPT ![Stage(s)] = Garbage]]
     /\ mma' = s + 1
     /\ UNCHANGED <<barriers, operand, scale, producers, retired, owed_empty,
                    owed_full, consumers, pc, epilogue, freed>>

\* MMAs complete in issue order; each leaves its two multicast commits owing
\* one arrival to ab_empty and one to acc_full of both CTAs.
MmaRetire ==
  LET s == retired
  IN /\ s < mma
     /\ tmem' = [c \in CTAs |-> [tmem[c] EXCEPT ![Stage(s)] = Product(Slot(s))]]
     /\ retired' = s + 1
     /\ owed_empty' = [c \in CTAs |-> [owed_empty[c] EXCEPT ![Slot(s)] = @ + 1]]
     /\ owed_full' = [c \in CTAs |-> [owed_full[c] EXCEPT ![Stage(s)] = @ + 1]]
     /\ UNCHANGED <<barriers, operand, scale, producers, mma, consumers, pc,
                    epilogue, freed>>

\* The arrivals of a commit reach the two CTAs independently.
CommitEmpty(c, k) ==
  /\ owed_empty[c][k] > 0
  /\ owed_empty' = [owed_empty EXCEPT ![c][k] = @ - 1]
  /\ ab_empty' = [ab_empty EXCEPT ![c][k] = Arrive(@)]
  /\ UNCHANGED <<ab_full, sf_full, sf_empty, acc_full, acc_empty, operand, scale,
                 tmem, producers, mma, retired, owed_full, consumers, pc,
                 epilogue, freed>>

CommitFull(c, j) ==
  /\ owed_full[c][j] > 0
  /\ owed_full' = [owed_full EXCEPT ![c][j] = @ - 1]
  /\ acc_full' = [acc_full EXCEPT ![c][j] = Arrive(@)]
  /\ UNCHANGED <<ab_full, ab_empty, sf_full, sf_empty, acc_empty, operand, scale,
                 tmem, producers, mma, retired, owed_empty, consumers, pc,
                 epilogue, freed>>

-----------------------------------------------------------------------------
(* Warps 4 to 11 of both CTAs: promotion of the groups, then the epilogue. *)

\* The TMEM load is warp-collective, so a warp starts a group as one.
ConsumerRead(w) ==
  LET s == sequence[w]
  IN /\ pc[w] = "groups"
     /\ s < Steps
     /\ held[w] = {}
     /\ Passes(acc_full[Cta(w)][Stage(s)], ThisLap(s, 2))
     /\ Passes(sf_full[Cta(w)][Slot(s)], ThisLap(s, P))
     /\ held' = [held EXCEPT ![w] = Lanes]
     /\ partial' = [partial EXCEPT ![w] = tmem[Cta(w)][Stage(s)]]
     /\ UNCHANGED <<barriers, operand, scale, tmem, producers, matrix, sequence,
                    total, pc, epilogue, freed>>

\* Each lane promotes with the slot's scales and releases the slot itself;
\* lane 0 also releases the TMEM stage on the leader, for the whole warp.
ConsumerRelease(w, l) ==
  LET s == sequence[w]
      c == Cta(w)
      k == Slot(s)
      last == held[w] = {l}
  IN /\ l \in held[w]
     /\ held' = [held EXCEPT ![w] = @ \ {l}]
     /\ total' = [total EXCEPT ![w][l] = Append(@, Promoted(w, k))]
     /\ sf_empty' = [sf_empty EXCEPT ![c][k] = Arrive(@)]
     /\ acc_empty' = IF l = Lane0
                       THEN [acc_empty EXCEPT ![Stage(s)] = Arrive(@)]
                       ELSE acc_empty
     /\ sequence' = IF last THEN [sequence EXCEPT ![w] = s + 1] ELSE sequence
     /\ pc' = IF last /\ (s + 1) % Groups = 0
                THEN [pc EXCEPT ![w] = "write"] ELSE pc
     /\ UNCHANGED <<ab_full, ab_empty, sf_full, acc_full, operand, scale, tmem,
                    producers, matrix, partial, epilogue, freed>>

\* A named barrier opens when every warp of the promotion group is at it.
AnyWarpAt(c, p, at) == \E w \in PartOf(c, p) : pc[w] = at
AllWarpsAt(c, p, at) == \A w \in PartOf(c, p) : pc[w] = at

\* The sum starts from zero on every tile.
SumAfter(w, last) == IF last THEN [l \in Lanes |-> <<>>] ELSE total[w]

WriteExchange(w) ==
  /\ pc[w] = "write"
  /\ exchange' = [exchange EXCEPT ![w] = [sub |-> sub[w], rows |-> total[w]]]
  /\ pc' = [pc EXCEPT ![w] = "written"]
  /\ UNCHANGED <<barriers, operand, scale, tmem, producers, matrix, consumers, sub,
                 output, freed>>

\* The first named barrier of a promotion group.
SyncWritten(c, p) ==
  /\ AllWarpsAt(c, p, "written")
  /\ pc' = [w \in ConsumerWarps |-> IF w \in PartOf(c, p) THEN "store" ELSE pc[w]]
  /\ UNCHANGED <<barriers, operand, scale, tmem, producers, matrix, consumers,
                 epilogue, freed>>

\* A warp stores its share of the rows of every warp of its group.
StoreRows(w) ==
  /\ pc[w] = "store"
  /\ output' = [output EXCEPT ![w] =
                  Append(@, [v \in PartMates(w) |-> exchange[v]])]
  /\ pc' = [pc EXCEPT ![w] = "stored"]
  /\ UNCHANGED <<barriers, operand, scale, tmem, producers, matrix, consumers, sub,
                 exchange, freed>>

\* The second named barrier: the next sub-tile, or the next tile from zero.
SyncStored(c, p) ==
  LET last(w) == sub[w] + 1 = Subs
  IN /\ AllWarpsAt(c, p, "stored")
     /\ pc' = [w \in ConsumerWarps |->
                 IF w \notin PartOf(c, p) THEN pc[w]
                 ELSE IF last(w) THEN "groups" ELSE "write"]
     /\ sub' = [w \in ConsumerWarps |->
                  IF w \notin PartOf(c, p) THEN sub[w]
                  ELSE IF last(w) THEN 0 ELSE sub[w] + 1]
     /\ total' = [w \in ConsumerWarps |->
                    IF w \in PartOf(c, p) THEN SumAfter(w, last(w)) ELSE total[w]]
     /\ UNCHANGED <<barriers, operand, scale, tmem, producers, matrix, sequence, held,
                    partial, exchange, output, freed>>

-----------------------------------------------------------------------------
JoinedWithoutConsumers ==
  /\ mma = Steps
  /\ \A c \in CTAs : tma[c] = Steps

\* A role that left its loop waits at the final __syncthreads.
RolesJoined ==
  /\ mma = Steps
  /\ \A c \in CTAs : tma[c] = Steps
  /\ \A c \in CTAs, l \in ScaleLanes : sf[c][l] = Steps
  /\ \A w \in ConsumerWarps : sequence[w] = Steps /\ pc[w] = "groups"

\* The final __syncthreads and cluster_sync, then both CTAs free their TMEM.
FreeTmem ==
  /\ ~freed
  /\ RolesJoined
  /\ freed' = TRUE
  /\ UNCHANGED <<barriers, operand, scale, tmem, producers, matrix, consumers, pc,
                 epilogue>>

\* The kernel has returned.
Terminated == freed /\ UNCHANGED vars

Next ==
  \/ \E c \in CTAs : TmaIssue(c)
  \/ \E c \in CTAs, k \in Slots : TmaLand(c, k)
  \/ \E c \in CTAs, l \in ScaleLanes : ScaleIssue(c, l)
  \/ \E c \in CTAs, l \in ScaleLanes : ScalePublish(c, l)
  \/ MmaIssue
  \/ MmaRetire
  \/ \E c \in CTAs, k \in Slots : CommitEmpty(c, k)
  \/ \E c \in CTAs, j \in Stages : CommitFull(c, j)
  \/ \E w \in ConsumerWarps : ConsumerRead(w)
  \/ \E w \in ConsumerWarps, l \in Lanes : ConsumerRelease(w, l)
  \/ \E w \in ConsumerWarps : WriteExchange(w)
  \/ \E c \in CTAs, p \in Parts : SyncWritten(c, p)
  \/ \E w \in ConsumerWarps : StoreRows(w)
  \/ \E c \in CTAs, p \in Parts : SyncStored(c, p)
  \/ FreeTmem
  \/ Terminated

Spec == Init /\ [][Next]_vars

\* Resident warps and the copy and tensor engines do not all stop while one
\* of them can move; every step but Terminated advances some cursor.
FairSpec == Spec /\ WF_vars(Next)

-----------------------------------------------------------------------------
(* Correctness.                                                            *)

OperandTypes ==
  /\ ab_full \in [Slots -> BarrierType]
  /\ ab_empty \in [CTAs -> [Slots -> BarrierType]]
  /\ operand \in [CTAs -> [Slots -> [seq : Nat \cup {Garbage}, landed : BOOLEAN]]]
  /\ tma \in [CTAs -> 0 .. Steps]
  /\ mma \in 0 .. Steps /\ retired \in 0 .. mma
  /\ owed_empty \in [CTAs -> [Slots -> Nat]]

ScaleTypes ==
  /\ sf_full \in [CTAs -> [Slots -> BarrierType]]
  /\ sf_empty \in [CTAs -> [Slots -> BarrierType]]
  /\ scale \in [CTAs -> [Slots -> [ScaleLanes -> Nat \cup {Garbage}]]]
  /\ sf \in [CTAs -> [ScaleLanes -> 0 .. Steps]]
  /\ copying \in [CTAs -> SUBSET ScaleLanes]
  /\ \A c \in CTAs : \A l \in copying[c] : sf[c][l] < Steps

StageTypes ==
  /\ acc_full \in [CTAs -> [Stages -> BarrierType]]
  /\ acc_empty \in [Stages -> BarrierType]
  /\ tmem \in [CTAs -> [Stages -> Nat \cup {Garbage}]]
  /\ owed_full \in [CTAs -> [Stages -> Nat]]

ConsumerTypes ==
  /\ sequence \in [ConsumerWarps -> 0 .. Steps]
  /\ held \in [ConsumerWarps -> SUBSET Lanes]
  /\ \A w \in ConsumerWarps : held[w] # {} => sequence[w] < Steps
  /\ pc \in [ConsumerWarps -> {"groups", "write", "written", "store", "stored"}]
  /\ sub \in [ConsumerWarps -> 0 .. Subs - 1]
  /\ freed \in BOOLEAN

\* No barrier ever receives more arrivals in a phase than it was set up for.
ArrivalsInRange ==
  LET InRange(b) == b.left \in 0 .. b.count
  IN /\ \A k \in Slots : InRange(ab_full[k])
     /\ \A c \in CTAs, k \in Slots :
          InRange(ab_empty[c][k]) /\ InRange(sf_full[c][k]) /\ InRange(sf_empty[c][k])
     /\ \A j \in Stages : InRange(acc_empty[j]) /\ \A c \in CTAs : InRange(acc_full[c][j])

\* Every variable has its type, and every barrier its announced arrivals.
TypeOK == OperandTypes /\ ScaleTypes /\ StageTypes /\ ConsumerTypes /\ ArrivalsInRange

\* While an MMA is in flight, both CTAs' operand slots hold exactly the data
\* of its sequence: the TMA producers, which run up to P ahead, have landed
\* it and have not begun to overwrite it.
OperandStable ==
  \A s \in retired .. mma - 1, c \in CTAs :
    operand[c][Slot(s)] = [seq |-> s, landed |-> TRUE]

\* Until lane 0 gives the TMEM stage back, the stage holds the finished
\* product of the warp's own sequence: the next MMA of the stage has not
\* begun although all sixteen warps share one "empty" barrier on the leader.
AccumulatorStable ==
  \A w \in ConsumerWarps :
    Lane0 \in held[w] => tmem[Cta(w)][Stage(sequence[w])] = sequence[w]

\* As long as any lane of a warp still reads the scale slot, every scale in
\* it belongs to the warp's sequence, whichever lanes have released it.
ScaleStable ==
  \A w \in ConsumerWarps, l \in ScaleLanes :
    held[w] # {} => scale[Cta(w)][Slot(sequence[w])][l] = sequence[w]

\* A parity wait cannot be fooled: the phase each role is about to wait for
\* is the current one or the one just completed, never two phases away.
PhasesTrackLaps ==
  /\ \A c \in CTAs : tma[c] >= P =>
       ab_empty[c][Slot(tma[c])].done - tma[c] \div P \in {-1, 0}
  /\ \A c \in CTAs, l \in ScaleLanes : sf[c][l] >= P =>
       sf_empty[c][Slot(sf[c][l])].done - sf[c][l] \div P \in {-1, 0}
  /\ mma >= 2 => acc_empty[Stage(mma)].done - mma \div 2 \in {-1, 0}
  /\ ab_full[Slot(mma)].done - mma \div P \in {0, 1}
  /\ \A w \in ConsumerWarps : held[w] = {} =>
       /\ acc_full[Cta(w)][Stage(sequence[w])].done - sequence[w] \div 2 \in {0, 1}
       /\ sf_full[Cta(w)][Slot(sequence[w])].done - sequence[w] \div P \in {0, 1}

\* The groups of tile t, in the order the kernel accumulates them.
TileSum(t) == [i \in 1 .. Groups |-> t * Groups + i - 1]
Block(w, n) ==
  [v \in PartMates(w) |->
     [sub |-> n % Subs, rows |-> [l \in Lanes |-> TileSum(n \div Subs)]]]

BlocksOf == [w \in ConsumerWarps |-> [n \in 1 .. Tiles * Subs |-> Block(w, n - 1)]]

\* The final join looks at the roles only, yet at that point every group has
\* been multiplied and promoted, no copy, MMA or TMEM read is outstanding, and
\* every commit has reached acc_full.  A commit's arrival at ab_empty may be
\* late, the last of its slot: no producer is left to wait for it.
DrainedWhenFreed ==
  freed =>
    /\ \A c \in CTAs, k \in Slots : operand[c][k].landed /\ owed_empty[c][k] <= 1
    /\ \A c \in CTAs : copying[c] = {}
    /\ mma = Steps /\ retired = Steps
    /\ \A c \in CTAs, j \in Stages : owed_full[c][j] = 0
    /\ \A w \in ConsumerWarps : held[w] = {} /\ sequence[w] = Steps

\* The pipeline implements the promise of a tiled kernel: each consumer warp
\* stores the blocks of its tiles in order, each the sum of all its groups,
\* and the kernel returns only when all are stored.
Stream ==
  INSTANCE TileStream WITH
    Writers <- ConsumerWarps, Blocks <- Tiles * Subs, returned <- freed,
    Expected <- BlocksOf
ImplementsTileStream == Stream!Spec

\* No interleaving of the roles deadlocks: the kernel always returns.
KernelReturns == <>freed

-----------------------------------------------------------------------------
(* The inductive invariant behind the first three properties.              *)

\* How many of the sequences below x use entry k of a ring of n entries.
Fills(x, k, n) == (x + n - 1 - k) \div n
Bit(b) == IF b THEN 1 ELSE 0
Settled(b, n) == b.count = n /\ b.tx = 0

Issued(c, k) == Fills(tma[c], k, P)
Landed(c, k) == Issued(c, k) - Bit(~operand[c][k].landed)

\* retired <= issued MMAs <= completed fills <= landed copies, and a copy is
\* issued at most one lap after the slot was last released.
OperandRing(c, k) ==
  /\ Settled(ab_empty[c][k], 1) /\ ab_empty[c][k].left = 1
  /\ owed_empty[c][k] = Fills(retired, k, P) - ab_empty[c][k].done
  /\ Issued(c, k) <= ab_empty[c][k].done + 1
  /\ Fills(mma, k, P) <= ab_full[k].done
  /\ ab_full[k].done <= Landed(c, k)
  /\ Issued(c, k) > 0 => operand[c][k].seq = (Issued(c, k) - 1) * P + k

\* The leader's barrier: one announcement, two CTAs' worth of transactions.
OperandBarrier(k) ==
  /\ ab_full[k].count = 1
  /\ ab_full[k].left = 1 - (Issued(Leader, k) - ab_full[k].done)
  /\ ab_full[k].left \in {0, 1}
  /\ ab_full[k].tx = 2 * Issued(Leader, k) - Landed(0, k) - Landed(1, k)
  /\ ab_full[k].left = 0 => ab_full[k].tx # 0

\* Uses of a TMEM stage a warp has given back; uses of a slot a lane has.
StageReleases(w, j) ==
  Fills(sequence[w], j, 2)
    + Bit(held[w] # {} /\ Lane0 \notin held[w] /\ Stage(sequence[w]) = j)
SlotReleases(w, l, k) ==
  Fills(sequence[w], k, P)
    + Bit(held[w] # {} /\ l \notin held[w] /\ Slot(sequence[w]) = k)
StageReads(w, j) ==
  Fills(sequence[w], j, 2) + Bit(held[w] # {} /\ Stage(sequence[w]) = j)
SlotReads(w, k) ==
  Fills(sequence[w], k, P) + Bit(held[w] # {} /\ Slot(sequence[w]) = k)
ScaleWrites(c, l, k) ==
  Fills(sf[c][l], k, P) + Bit(l \in copying[c] /\ Slot(sf[c][l]) = k)

\* A barrier that members of S arrive on once per phase: r[x] counts the
\* arrivals of x, and whoever is one behind is still missing.
Counted(b, S, r) ==
  /\ Settled(b, Cardinality(S))
  /\ \A x \in S : r[x] \in {b.done, b.done + 1}
  /\ b.left = Cardinality({x \in S : r[x] = b.done})
  /\ b.left >= 1

StageRing(j) ==
  /\ Counted(acc_empty[j], ConsumerWarps,
             [w \in ConsumerWarps |-> StageReleases(w, j)])
  /\ Fills(mma, j, 2) <= acc_empty[j].done + 1
  /\ \A c \in CTAs :
       /\ Settled(acc_full[c][j], 1) /\ acc_full[c][j].left = 1
       /\ owed_full[c][j] = Fills(retired, j, 2) - acc_full[c][j].done
       /\ Fills(retired, j, 2) = Fills(mma, j, 2) /\ Fills(mma, j, 2) > 0 =>
            tmem[c][j] = (Fills(mma, j, 2) - 1) * 2 + j
       /\ \A w \in WarpsOf(c) : StageReads(w, j) <= acc_full[c][j].done

ScaleRing(c, k) ==
  /\ Counted(sf_full[c][k], ScaleLanes,
             [l \in ScaleLanes |-> Fills(sf[c][l], k, P)])
  /\ Counted(sf_empty[c][k], WarpsOf(c) \X Lanes,
             [t \in WarpsOf(c) \X Lanes |-> SlotReleases(t[1], t[2], k)])
  /\ \A l \in ScaleLanes :
       /\ ScaleWrites(c, l, k) <= sf_empty[c][k].done + 1
       /\ (ScaleWrites(c, l, k) = Fills(sf[c][l], k, P) /\ ScaleWrites(c, l, k) > 0) =>
            scale[c][k][l] = (ScaleWrites(c, l, k) - 1) * P + k
  /\ \A w \in WarpsOf(c) : SlotReads(w, k) <= sf_full[c][k].done

OperandInv ==
  /\ OperandTypes
  /\ \A c \in CTAs, k \in Slots : OperandRing(c, k)
  /\ \A k \in Slots : OperandBarrier(k)
ScaleInv == ScaleTypes /\ \A c \in CTAs, k \in Slots : ScaleRing(c, k)
StageInv == StageTypes /\ \A j \in Stages : StageRing(j)
RingInv == OperandInv /\ ConsumerTypes /\ ScaleInv /\ StageInv
=============================================================================
