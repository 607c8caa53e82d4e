------------------------ MODULE TwoSmPipelineProofs ------------------------
(***************************************************************************)
(* Proofs about the two-SM pipeline, for any number of tiles, groups,      *)
(* warps and lanes: how laps of a ring are counted and what an arrival     *)
(* does to a barrier; the operand ring; the scale ring, whose slots are    *)
(* read after all producer lanes published them and rewritten after every  *)
(* consumer lane released them; the TMEM ring, which rests on both; the    *)
(* safety properties that follow from RingInv; and that the pipeline       *)
(* implements the promise of a tiled kernel.                               *)
(***************************************************************************)
EXTENDS TwoSmPipeline, FiniteSetTheorems, TLAPS

-----------------------------------------------------------------------------
(* Laps of a ring.                                                         *)

\* A parity wait lets a role pass only after the phase it means: the two
\* phases it could be in differ in parity.
LEMMA ParityWait ==
  ASSUME NEW b, NEW x \in Int, b.done \in {x, x + 1}, Passes(b, x % 2)
  PROVE  b.done = x + 1
BY DEF Passes

-----------------------------------------------------------------------------
(* Barriers.                                                               *)

LEMMA ArriveCases ==
  ASSUME NEW b \in BarrierType, b.tx = 0, b.left >= 1
  PROVE  /\ b.left = 1 => Arrive(b) = Barrier(b.count, b.count, 0, b.done + 1)
         /\ b.left # 1 => Arrive(b) = Barrier(b.count, b.left - 1, 0, b.done)
         /\ Arrive(b) \in BarrierType
BY DEF BarrierType, Barrier, Settle, Arrive

LEMMA SingleArrive ==
  ASSUME NEW b \in BarrierType, Settled(b, 1), b.left = 1
  PROVE  /\ Arrive(b) \in BarrierType
         /\ Settled(Arrive(b), 1)
         /\ Arrive(b).left = 1
         /\ Arrive(b).done = b.done + 1
BY ArriveCases DEF BarrierType, Barrier, Settled

\* One member of S, still missing in the current phase, arrives.
LEMMA CountedArrive ==
  ASSUME NEW S, IsFiniteSet(S), NEW b \in BarrierType, NEW r, NEW q, NEW x \in S,
         Counted(b, S, r), r[x] = b.done, q[x] = b.done + 1,
         \A y \in S \ {x} : q[y] = r[y]
  PROVE  /\ Arrive(b) \in BarrierType
         /\ Counted(Arrive(b), S, q)
         /\ Arrive(b).done \in {b.done, b.done + 1}
         /\ Arrive(b).done = b.done + 1 => \A y \in S : q[y] = b.done + 1
<1> DEFINE T == {y \in S : r[y] = b.done}
           U == {y \in S : q[y] = b.done}
<1>1. U = T \ {x} /\ x \in T
  BY DEF BarrierType
<1>2. IsFiniteSet(T) /\ IsFiniteSet(U) /\ Cardinality(U) = b.left - 1
  <2>1. IsFiniteSet(T)
    BY FS_Subset
  <2>2. Cardinality(T) = b.left
    BY DEF Counted
  <2> QED BY <1>1, <2>1, <2>2, FS_RemoveElement
<1>3. Cardinality(S) \in Nat /\ Cardinality(U) \in Nat
  BY <1>2, FS_CardinalityType
<1>4. b.done \in Nat /\ b.count = Cardinality(S) /\ b.tx = 0 /\ b.left >= 1
  BY DEF Counted, Settled, BarrierType
<1>5. CASE b.left = 1
  <2>1. U = {}
    BY <1>2, <1>5, FS_EmptySet
  <2>2. \A y \in S : q[y] = b.done + 1
    BY <2>1 DEF Counted
  <2>3. Arrive(b) = Barrier(b.count, b.count, 0, b.done + 1)
    BY <1>4, <1>5, ArriveCases
  <2>4. {y \in S : q[y] = b.done + 1} = S
    BY <2>2
  <2>5. Cardinality(S) >= 1
    BY <1>3, FS_EmptySet
  <2> QED BY <2>2, <2>3, <2>4, <2>5, <1>3, <1>4 DEF Counted, Settled, BarrierType, Barrier
<1>6. CASE b.left # 1
  <2>1. Arrive(b) = Barrier(b.count, b.left - 1, 0, b.done)
    BY <1>4, <1>6, ArriveCases
  <2>2. \A y \in S : q[y] \in {b.done, b.done + 1}
    BY DEF Counted
  <2>3. Arrive(b).done = b.done /\ Arrive(b).left = b.left - 1
        /\ Arrive(b).count = b.count /\ Arrive(b).tx = 0 /\ b.left \in Int
    BY <2>1 DEF Barrier, BarrierType
  <2>4. Counted(Arrive(b), S, q)
    BY <2>2, <2>3, <1>2, <1>4, <1>6 DEF Counted, Settled
  <2>5. Arrive(b) \in BarrierType
    BY <1>4, ArriveCases
  <2> QED BY <2>3, <2>4, <2>5, <1>4
<1> QED BY <1>5, <1>6

-----------------------------------------------------------------------------
(* The operand ring.                                                       *)

LEMMA Sizes == P \in {2, 3} /\ Steps \in Nat /\ Leader \in CTAs
BY PAssumption, SizeAssumption DEF Steps, Leader, CTAs

\* The entries of the two rings at sequence s and their use counts.
LEMMA SlotAt ==
  ASSUME NEW s \in Nat
  PROVE  /\ Slot(s) \in Slots
         /\ s \div P \in Nat
         /\ s = (s \div P) * P + Slot(s)
         /\ s < P => s \div P = 0
         /\ Fills(s, Slot(s), P) = s \div P
         /\ \A k \in Slots : Fills(s + 1, k, P) =
                              IF k = Slot(s) THEN s \div P + 1 ELSE Fills(s, k, P)
<1>1. CASE P = 2
  BY <1>1 DEF Slot, Slots, Fills
<1>2. CASE P = 3
  BY <1>2 DEF Slot, Slots, Fills
<1> QED BY <1>1, <1>2, Sizes

LEMMA StageAt ==
  ASSUME NEW s \in Nat
  PROVE  /\ Stage(s) \in Stages
         /\ s \div 2 \in Nat
         /\ s = (s \div 2) * 2 + Stage(s)
         /\ s < 2 => s \div 2 = 0
         /\ Fills(s, Stage(s), 2) = s \div 2
         /\ \A j \in Stages : Fills(s + 1, j, 2) =
                              IF j = Stage(s) THEN s \div 2 + 1 ELSE Fills(s, j, 2)
BY DEF Stage, Stages, Fills

LEMMA SlotFills ==
  ASSUME NEW s \in Nat, NEW t \in Nat, s <= t, NEW k \in Slots
  PROVE  /\ Fills(s, k, P) \in Nat /\ Fills(0, k, P) = 0
         /\ Fills(s, k, P) <= Fills(t, k, P)
<1>1. CASE P = 2
  BY <1>1 DEF Slots, Fills
<1>2. CASE P = 3
  BY <1>2 DEF Slots, Fills
<1> QED BY <1>1, <1>2, Sizes

LEMMA StageFills ==
  ASSUME NEW s \in Nat, NEW t \in Nat, s <= t, NEW j \in Stages
  PROVE  /\ Fills(s, j, 2) \in Nat /\ Fills(0, j, 2) = 0
         /\ Fills(s, j, 2) <= Fills(t, j, 2)
BY DEF Stages, Fills

\* The states of a slot in the order its data take.
Chain(c, k) ==
  /\ ab_empty[c][k].done \in Nat /\ ab_full[k].done \in Nat
  /\ Issued(c, k) \in Nat /\ Fills(mma, k, P) \in Nat /\ Fills(retired, k, P) \in Nat
  /\ operand[c][k].landed \in BOOLEAN
  /\ ab_empty[c][k].done <= Fills(retired, k, P)
  /\ Fills(retired, k, P) <= Fills(mma, k, P)
  /\ Fills(mma, k, P) <= ab_full[k].done
  /\ ab_full[k].done <= Landed(c, k)
  /\ Landed(c, k) = IF operand[c][k].landed THEN Issued(c, k) ELSE Issued(c, k) - 1
  /\ Issued(c, k) <= ab_empty[c][k].done + 1

LEMMA OperandChain ==
  ASSUME OperandInv, NEW c \in CTAs, NEW k \in Slots
  PROVE  Chain(c, k)
<1>1. /\ tma[c] \in Nat /\ mma \in Nat /\ retired \in Nat /\ retired <= mma
      /\ owed_empty[c][k] \in Nat
      /\ ab_empty[c][k] \in BarrierType /\ ab_full[k] \in BarrierType
      /\ operand[c][k].landed \in BOOLEAN
  BY Sizes DEF OperandInv, OperandTypes
<1>3. /\ Issued(c, k) \in Nat /\ Fills(mma, k, P) \in Nat /\ Fills(retired, k, P) \in Nat
      /\ Fills(retired, k, P) <= Fills(mma, k, P)
  BY <1>1, SlotFills DEF Issued
<1>4. Landed(c, k) = IF operand[c][k].landed THEN Issued(c, k) ELSE Issued(c, k) - 1
  BY <1>1, <1>3 DEF Landed, Bit
<1>5. ab_empty[c][k].done \in Nat /\ ab_full[k].done \in Nat
  BY <1>1 DEF BarrierType
<1>6. OperandRing(c, k)
  BY DEF OperandInv
<1> QED BY <1>1, <1>3, <1>4, <1>5, <1>6 DEF OperandRing, Chain

\* A slot of an MMA in flight holds that MMA's data in both CTAs.
LEMMA OperandInFlight ==
  ASSUME OperandInv, NEW s \in retired .. mma - 1, NEW c \in CTAs
  PROVE  operand[c][Slot(s)] = [seq |-> s, landed |-> TRUE]
<1> DEFINE k == Slot(s)
           lap == s \div P
<1>1. s \in Nat /\ retired \in Nat /\ mma \in Nat /\ retired <= s /\ s + 1 <= mma
  BY Sizes DEF OperandInv, OperandTypes
<1>2. k \in Slots /\ lap \in Nat /\ s = lap * P + k
      /\ Fills(s, k, P) = lap /\ Fills(s + 1, k, P) = lap + 1
  BY <1>1, SlotAt
<1>3. Fills(retired, k, P) <= lap /\ lap + 1 <= Fills(mma, k, P)
  BY <1>1, <1>2, SlotFills
<1> HIDE DEF k, lap
<1>4. Issued(c, k) = lap + 1 /\ operand[c][k].landed = TRUE
  <2>1. Chain(c, k)
    BY <1>2, OperandChain
  <2> QED BY <2>1, <1>2, <1>3 DEF Chain
<1>5. operand[c][k].seq = s
  <2>1. Issued(c, k) > 0 /\ Issued(c, k) - 1 = lap
    BY <1>4, <1>2
  <2>2. operand[c][k].seq = (Issued(c, k) - 1) * P + k
    BY <1>2, <2>1 DEF OperandInv, OperandRing
  <2> QED BY <2>1, <2>2, <1>2
<1>6. operand[c][k] \in [seq : Nat \cup {Garbage}, landed : BOOLEAN]
  BY <1>2 DEF OperandInv, OperandTypes
<1> QED BY <1>4, <1>5, <1>6 DEF k

LEMMA TmaIssueOperand ==
  ASSUME OperandInv, NEW c \in CTAs, TmaIssue(c)
  PROVE  OperandInv'
<1> SUFFICES ASSUME NEW s, s = tma[c], NEW k, k = Slot(s) PROVE OperandInv'
  OBVIOUS
<1>1. s \in Nat /\ s < Steps /\ s + 1 \in 0 .. Steps
  BY Sizes DEF OperandInv, OperandTypes, TmaIssue
<1>2. k \in Slots /\ s \div P \in Nat /\ Issued(c, k) = s \div P
      /\ (s < P => s \div P = 0)
  BY <1>1, SlotAt DEF Issued
<1>3. ab_empty[c][k].done = Issued(c, k)
  <2>1. Chain(c, k)
    BY <1>2, OperandChain
  <2>2. CASE s >= P
    <3>1. Passes(ab_empty[c][k], (s \div P - 1) % 2)
      BY <2>2 DEF TmaIssue, OperandSlotFree, LastLap
    <3>2. ab_empty[c][k].done \in {s \div P - 1, s \div P - 1 + 1}
      BY <1>2, <2>1 DEF Chain
    <3>3. ab_empty[c][k].done = s \div P - 1 + 1
      BY <3>1, <3>2, <1>2, ParityWait
    <3> QED BY <3>3, <1>2
  <2>3. CASE s < P
    BY <2>3, <1>2, <2>1 DEF Chain
  <2> QED BY <2>2, <2>3, <1>1, Sizes
<1>4. ab_full[k].done = Issued(c, k) /\ operand[c][k].landed = TRUE
      /\ \A d \in CTAs : Issued(d, k) <= Issued(c, k) + 1 /\ Landed(d, k) \in Nat
                         /\ Landed(d, k) <= Issued(c, k) + 1
  <2>1. \A d \in CTAs : Chain(d, k)
    BY <1>2, OperandChain
  <2> QED BY <1>3, <2>1 DEF Chain
<1>5. \A d \in CTAs, m \in Slots :
        Issued(d, m)' = IF d = c /\ m = k THEN Issued(c, k) + 1 ELSE Issued(d, m)
  <2>1. \A m \in Slots : Fills(s + 1, m, P) = IF m = k THEN Issued(c, k) + 1
                                               ELSE Issued(c, m)
    BY <1>1, <1>2, SlotAt DEF Issued
  <2>2. \A d \in CTAs : tma'[d] = IF d = c THEN s + 1 ELSE tma[d]
    BY DEF TmaIssue, OperandInv, OperandTypes
  <2> QED BY <2>1, <2>2 DEF Issued
<1>6. \A d \in CTAs, m \in Slots :
        operand'[d][m] = IF d = c /\ m = k THEN [seq |-> s, landed |-> FALSE]
                         ELSE operand[d][m]
  BY <1>2 DEF TmaIssue, OperandInv, OperandTypes
<1>7. \A d \in CTAs, m \in Slots : Landed(d, m)' = Landed(d, m)
  <2> SUFFICES ASSUME NEW d \in CTAs, NEW m \in Slots PROVE Landed(d, m)' = Landed(d, m)
    OBVIOUS
  <2>1. Chain(d, m)
    BY OperandChain
  <2> QED BY <2>1, <1>4, <1>5, <1>6 DEF Landed, Bit, Chain
<1>8. OperandRing(c, k) /\ OperandBarrier(k) /\ ab_full \in [Slots -> BarrierType]
  BY <1>2 DEF OperandInv, OperandTypes
<1>9. \A m \in Slots : OperandBarrier(m)' /\ ab_full'[m] \in BarrierType
                       /\ ab_full'[m].done = ab_full[m].done
  <2> SUFFICES ASSUME NEW m \in Slots
               PROVE  OperandBarrier(m)' /\ ab_full'[m] \in BarrierType
                      /\ ab_full'[m].done = ab_full[m].done
    OBVIOUS
  <2>1. OperandBarrier(m) /\ ab_full[m] \in BarrierType /\ 0 \in CTAs /\ 1 \in CTAs
    BY DEF OperandInv, OperandTypes, CTAs
  <2>2. Landed(0, m)' = Landed(0, m) /\ Landed(1, m)' = Landed(1, m)
    BY <1>7, <2>1
  <2>3. CASE m = k /\ c = Leader
    <3>1. ab_full[k].left = 1 /\ ab_full[k].count = 1
          /\ ab_full[k].tx + 2 = 2 * (Issued(c, k) + 1) - Landed(0, k) - Landed(1, k)
      BY <2>1, <2>3, <1>2, <1>4 DEF OperandBarrier
    <3>2. Landed(0, k) = Issued(c, k) /\ Landed(1, k) <= Issued(c, k) + 1
          /\ Landed(1, k) \in Nat
      <4>1. Landed(0, k) = Issued(c, k)
        BY <1>2, <1>4, <2>3 DEF Landed, Bit, Leader
      <4> QED BY <4>1, <2>1, <1>4
    <3>3. ab_full'[k] = Barrier(1, 0, ab_full[k].tx + 2, ab_full[k].done)
      <4>1. ab_full'[k] = ArriveExpectTx(ab_full[k], 2)
        BY <1>2, <1>8, <2>3 DEF TmaIssue, Announces
      <4>2. ab_full[k].tx + 2 # 0
        BY <3>1, <3>2, <1>2
      <4> QED BY <4>1, <4>2, <3>1 DEF ArriveExpectTx, Settle
    <3>4. Issued(Leader, k)' = Issued(c, k) + 1
      BY <1>2, <1>5, <2>3
    <3> QED BY <2>1, <2>2, <2>3, <3>1, <3>2, <3>3, <3>4, <1>2, <1>4
            DEF OperandBarrier, Barrier, BarrierType
  <2>4. CASE ~(m = k /\ c = Leader)
    <3>1. ab_full'[m] = ab_full[m]
      BY <2>4, <1>2, <1>8 DEF TmaIssue, Announces
    <3>2. Issued(Leader, m)' = Issued(Leader, m)
      BY <2>4, <1>5, Sizes
    <3> QED BY <2>1, <2>2, <3>1, <3>2 DEF OperandBarrier
  <2> QED BY <2>3, <2>4
<1>10. OperandTypes'
  <2>1. ab_full' \in [Slots -> BarrierType]
    BY <1>8, <1>9 DEF TmaIssue
  <2> QED BY <2>1, <1>1, <1>2 DEF TmaIssue, OperandTypes, OperandInv, barriers, matrix
<1>11. \A d \in CTAs, m \in Slots : OperandRing(d, m)'
  <2> SUFFICES ASSUME NEW d \in CTAs, NEW m \in Slots PROVE OperandRing(d, m)'
    OBVIOUS
  <2>1. OperandRing(d, m) /\ Chain(d, m)
    BY OperandChain DEF OperandInv
  <2>2. UNCHANGED <<ab_empty, owed_empty, mma, retired>>
    BY DEF TmaIssue, matrix
  <2>3. CASE d = c /\ m = k
    <3>1. Issued(c, k)' = Issued(c, k) + 1 /\ operand'[c][k].seq = s
      BY <1>2, <1>5, <1>6
    <3>2. (Issued(c, k)' - 1) * P + k = s
      BY <3>1, <1>1, <1>2, SlotAt, Sizes
    <3> QED BY <2>1, <2>2, <2>3, <3>1, <3>2, <1>2, <1>3, <1>4, <1>7, <1>9
            DEF OperandRing, Chain
  <2>4. CASE ~(d = c /\ m = k)
    BY <2>1, <2>2, <2>4, <1>5, <1>6, <1>7, <1>9 DEF OperandRing
  <2> QED BY <2>3, <2>4
<1> QED BY <1>9, <1>10, <1>11 DEF OperandInv

LEMMA TmaLandOperand ==
  ASSUME OperandInv, NEW c \in CTAs, NEW k \in Slots, TmaLand(c, k)
  PROVE  OperandInv'
<1>1. /\ ab_full[k] \in BarrierType /\ 0 \in CTAs /\ 1 \in CTAs
      /\ ab_full \in [Slots -> BarrierType]
  BY DEF OperandInv, OperandTypes, CTAs
<1>2. /\ ab_full' = [ab_full EXCEPT ![k] = CompleteTx(@, 1)]
      /\ UNCHANGED <<ab_empty, tma, mma, retired, owed_empty>>
      /\ operand[c][k].landed = FALSE
  BY DEF TmaLand, producers, matrix, OperandInv, OperandTypes
<1>3. \A d \in CTAs, m \in Slots : Issued(d, m)' = Issued(d, m)
  BY <1>2 DEF Issued
<1>4. \A d \in CTAs, m \in Slots :
        /\ operand'[d][m].seq = operand[d][m].seq
        /\ d = c /\ m = k => operand'[d][m].landed = TRUE
        /\ ~(d = c /\ m = k) => operand'[d][m].landed = operand[d][m].landed
  BY DEF TmaLand, OperandInv, OperandTypes
<1>5. \A d \in CTAs, m \in Slots :
        Landed(d, m)' = IF d = c /\ m = k THEN Landed(d, m) + 1 ELSE Landed(d, m)
  <2> SUFFICES ASSUME NEW d \in CTAs, NEW m \in Slots
               PROVE  Landed(d, m)' = IF d = c /\ m = k THEN Landed(d, m) + 1
                                      ELSE Landed(d, m)
    OBVIOUS
  <2>1. Issued(d, m) \in Nat
    BY OperandChain DEF Chain
  <2>2. CASE d = c /\ m = k
    BY <2>1, <2>2, <1>2, <1>3, <1>4 DEF Landed, Bit
  <2>3. CASE ~(d = c /\ m = k)
    BY <2>1, <2>3, <1>3, <1>4 DEF Landed, Bit
  <2> QED BY <2>2, <2>3
<1>6. /\ Chain(0, k) /\ Chain(1, k) /\ OperandBarrier(k) /\ Leader = 0
      /\ Landed(0, k) \in Nat /\ Landed(1, k) \in Nat
      /\ Landed(0, k) <= Issued(Leader, k) /\ Landed(1, k) <= ab_full[k].done + 1
  <2>1. Chain(0, k) /\ Chain(1, k) /\ OperandBarrier(k) /\ Leader = 0
    BY <1>1, OperandChain DEF OperandInv, Leader
  <2> QED BY <2>1 DEF Chain
<1>7. CASE ab_full[k].left = 0 /\ ab_full[k].tx = 1
  <2>1. ab_full'[k] = Barrier(1, 1, 0, ab_full[k].done + 1)
    BY <1>1, <1>2, <1>6, <1>7 DEF CompleteTx, Settle, OperandBarrier, BarrierType
  <2>2. Issued(Leader, k) = ab_full[k].done + 1
    BY <1>1, <1>6, <1>7 DEF OperandBarrier, BarrierType, Chain
  <2>3. Landed(0, k) + Landed(1, k) + 1 = 2 * (ab_full[k].done + 1)
    BY <2>2, <1>1, <1>6, <1>7 DEF OperandBarrier, BarrierType
  <2>4. \A d \in CTAs : Landed(d, k)' = ab_full[k].done + 1
    <3>1. Landed(0, k)' = ab_full[k].done + 1 /\ Landed(1, k)' = ab_full[k].done + 1
      <4>1. Landed(0, k)' + Landed(1, k)' = Landed(0, k) + Landed(1, k) + 1
        BY <1>1, <1>5, <1>6 DEF CTAs
      <4>2. Landed(0, k)' \in Nat /\ Landed(1, k)' \in Nat
            /\ Landed(0, k)' <= ab_full[k].done + 1 /\ Landed(1, k)' <= ab_full[k].done + 1
        <5>1. Landed(0, k)' <= Issued(0, k) /\ Landed(1, k)' <= Issued(1, k)
          BY <1>1, <1>3, <1>6 DEF Landed, Bit, Chain
        <5>2. Landed(0, k)' \in Nat /\ Landed(1, k)' \in Nat
          BY <1>1, <1>5, <1>6
        <5> QED BY <5>1, <5>2, <1>1, <1>6, <2>2 DEF Chain, BarrierType
      <4> QED BY <4>1, <4>2, <2>3, <1>1 DEF BarrierType
    <3> QED BY <3>1 DEF CTAs
  <2>5. OperandBarrier(k)'
    BY <2>1, <2>2, <2>4, <1>1, <1>3, <1>6 DEF OperandBarrier, Barrier, CTAs, BarrierType, Leader
  <2>6. \A m \in Slots : OperandBarrier(m)' /\ ab_full'[m] \in BarrierType
    <3> SUFFICES ASSUME NEW m \in Slots, m # k
                 PROVE  OperandBarrier(m)' /\ ab_full'[m] \in BarrierType
      BY <2>1, <2>5, <1>1 DEF Barrier, BarrierType
    <3>1. OperandBarrier(m) /\ ab_full'[m] = ab_full[m] /\ ab_full[m] \in BarrierType
      BY <1>1, <1>2 DEF OperandInv
    <3>2. /\ Landed(0, m)' = Landed(0, m) /\ Landed(1, m)' = Landed(1, m)
          /\ Issued(Leader, m)' = Issued(Leader, m)
      BY <1>1, <1>3, <1>5, Sizes
    <3> QED BY <3>1, <3>2 DEF OperandBarrier
  <2>7. OperandTypes'
    BY <2>6, <1>1, <1>2 DEF TmaLand, OperandTypes, OperandInv
  <2>8. \A d \in CTAs, m \in Slots : OperandRing(d, m)'
    <3> SUFFICES ASSUME NEW d \in CTAs, NEW m \in Slots PROVE OperandRing(d, m)'
      OBVIOUS
    <3>1. OperandRing(d, m) /\ Chain(d, m)
      BY OperandChain DEF OperandInv
    <3>2. CASE m = k
      BY <3>1, <3>2, <2>1, <2>4, <1>2, <1>3, <1>4 DEF OperandRing, Barrier, Chain
    <3>3. CASE m # k
      BY <3>1, <3>3, <1>1, <1>2, <1>3, <1>4, <1>5 DEF OperandRing
    <3> QED BY <3>2, <3>3
  <2> QED BY <2>6, <2>7, <2>8 DEF OperandInv
<1>8. CASE ~(ab_full[k].left = 0 /\ ab_full[k].tx = 1)
  <2>1. ab_full'[k] = Barrier(1, ab_full[k].left, ab_full[k].tx - 1, ab_full[k].done)
    BY <1>1, <1>2, <1>6, <1>8 DEF CompleteTx, Settle, OperandBarrier, BarrierType
  <2>2. OperandBarrier(k)'
    <3>1. Landed(0, k)' + Landed(1, k)' = Landed(0, k) + Landed(1, k) + 1
      BY <1>1, <1>5, <1>6 DEF CTAs
    <3>2. Landed(0, k)' \in Nat /\ Landed(1, k)' \in Nat
      BY <1>1, <1>5, <1>6
    <3> QED BY <3>1, <3>2, <2>1, <1>1, <1>3, <1>6, <1>8, Sizes
            DEF OperandBarrier, Barrier, BarrierType, Chain
  <2>3. \A m \in Slots : OperandBarrier(m)' /\ ab_full'[m] \in BarrierType
                         /\ ab_full'[m].done = ab_full[m].done
    <3> SUFFICES ASSUME NEW m \in Slots, m # k
                 PROVE  OperandBarrier(m)' /\ ab_full'[m] \in BarrierType
                         /\ ab_full'[m].done = ab_full[m].done
      BY <2>1, <2>2, <1>1 DEF Barrier, BarrierType
    <3>1. OperandBarrier(m) /\ ab_full'[m] = ab_full[m] /\ ab_full[m] \in BarrierType
      BY <1>1, <1>2 DEF OperandInv
    <3>2. /\ Landed(0, m)' = Landed(0, m) /\ Landed(1, m)' = Landed(1, m)
          /\ Issued(Leader, m)' = Issued(Leader, m)
      BY <1>1, <1>3, <1>5, Sizes
    <3> QED BY <3>1, <3>2 DEF OperandBarrier
  <2>4. OperandTypes'
    BY <2>3, <1>1, <1>2 DEF TmaLand, OperandTypes, OperandInv
  <2>5. \A d \in CTAs, m \in Slots : OperandRing(d, m)'
    <3> SUFFICES ASSUME NEW d \in CTAs, NEW m \in Slots PROVE OperandRing(d, m)'
      OBVIOUS
    <3>1. OperandRing(d, m) /\ Chain(d, m)
      BY OperandChain DEF OperandInv
    <3>2. Landed(d, m) \in Int /\ Landed(d, m)' >= Landed(d, m)
      BY <3>1, <1>5 DEF Chain
    <3> QED BY <3>1, <3>2, <2>3, <1>2, <1>3, <1>4, <1>5 DEF OperandRing, Chain
  <2> QED BY <2>3, <2>4, <2>5 DEF OperandInv
<1> QED BY <1>7, <1>8

LEMMA MmaIssueOperand ==
  ASSUME OperandInv, MmaIssue
  PROVE  OperandInv'
<1> SUFFICES ASSUME NEW s, s = mma, NEW k, k = Slot(s) PROVE OperandInv'
  OBVIOUS
<1>1. /\ s \in Nat /\ s < Steps /\ s + 1 \in 0 .. Steps /\ retired \in 0 .. s + 1
      /\ mma' = s + 1 /\ Passes(ab_full[k], (s \div P) % 2)
      /\ UNCHANGED <<ab_full, ab_empty, operand, tma, retired, owed_empty>>
  BY Sizes DEF OperandInv, OperandTypes, MmaIssue, barriers, producers, ThisLap
<1>2. k \in Slots /\ s \div P \in Nat /\ Fills(s, k, P) = s \div P
  BY <1>1, SlotAt
<1>3. ab_full[k].done = s \div P + 1
  <2>1. Chain(Leader, k)
    BY <1>2, Sizes, OperandChain
  <2>2. ab_full[k].done \in {s \div P, s \div P + 1}
    BY <1>2, <2>1 DEF Chain
  <2> QED BY <2>2, <1>1, <1>2, ParityWait
<1>4. \A m \in Slots : Fills(s + 1, m, P) <= ab_full[m].done
  <2> SUFFICES ASSUME NEW m \in Slots PROVE Fills(s + 1, m, P) <= ab_full[m].done
    OBVIOUS
  <2>1. Fills(s + 1, m, P) = IF m = k THEN s \div P + 1 ELSE Fills(s, m, P)
    BY <1>1, SlotAt
  <2>2. Chain(Leader, m)
    BY Sizes, OperandChain
  <2> QED BY <2>1, <2>2, <1>2, <1>3 DEF Chain
<1>5. OperandTypes'
  BY <1>1 DEF OperandInv, OperandTypes
<1>6. \A d \in CTAs, m \in Slots : OperandRing(d, m)' /\ OperandBarrier(m)'
  BY <1>1, <1>4 DEF OperandInv, OperandRing, OperandBarrier, Issued, Landed
<1> QED BY <1>5, <1>6, Sizes DEF OperandInv

LEMMA MmaRetireOperand ==
  ASSUME OperandInv, MmaRetire
  PROVE  OperandInv'
<1> SUFFICES ASSUME NEW s, s = retired, NEW k, k = Slot(s) PROVE OperandInv'
  OBVIOUS
<1>1. /\ s \in Nat /\ s + 1 \in 0 .. mma /\ retired' = s + 1
      /\ UNCHANGED <<ab_full, ab_empty, operand, tma, mma>>
      /\ owed_empty' = [c \in CTAs |-> [owed_empty[c] EXCEPT ![k] = @ + 1]]
  BY Sizes DEF OperandInv, OperandTypes, MmaRetire, barriers, producers
<1>2. k \in Slots
  BY <1>1, SlotAt
<1>3. \A m \in Slots : Fills(s + 1, m, P) = IF m = k THEN Fills(s, m, P) + 1
                                            ELSE Fills(s, m, P)
  BY <1>1, SlotAt
<1>4. OperandTypes'
  BY <1>1, <1>2 DEF OperandInv, OperandTypes
<1>5. \A d \in CTAs, m \in Slots : OperandRing(d, m)' /\ OperandBarrier(m)'
  <2> SUFFICES ASSUME NEW d \in CTAs, NEW m \in Slots
               PROVE  OperandRing(d, m)' /\ OperandBarrier(m)'
    OBVIOUS
  <2>1. OperandRing(d, m) /\ OperandBarrier(m) /\ Chain(d, m)
    BY OperandChain DEF OperandInv
  <2>2. owed_empty'[d][m] = IF m = k THEN owed_empty[d][m] + 1 ELSE owed_empty[d][m]
    BY <1>1 DEF OperandInv, OperandTypes
  <2>3. owed_empty'[d][m] = Fills(s + 1, m, P) - ab_empty[d][m].done
    BY <2>1, <2>2, <1>2, <1>3 DEF OperandRing, Chain
  <2> QED BY <2>1, <2>3, <1>1 DEF OperandRing, OperandBarrier, Issued, Landed
<1> QED BY <1>4, <1>5, Sizes DEF OperandInv

LEMMA CommitEmptyOperand ==
  ASSUME OperandInv, NEW c \in CTAs, NEW k \in Slots, CommitEmpty(c, k)
  PROVE  OperandInv'
<1>1. /\ UNCHANGED <<ab_full, operand, tma, mma, retired>>
      /\ owed_empty[c][k] > 0 /\ owed_empty[c][k] \in Nat
      /\ owed_empty' = [owed_empty EXCEPT ![c][k] = @ - 1]
      /\ ab_empty' = [ab_empty EXCEPT ![c][k] = Arrive(@)]
      /\ ab_empty[c][k] \in BarrierType /\ OperandRing(c, k)
  BY DEF OperandInv, OperandTypes, CommitEmpty, producers
<1>2. /\ Arrive(ab_empty[c][k]) \in BarrierType
      /\ Settled(Arrive(ab_empty[c][k]), 1)
      /\ Arrive(ab_empty[c][k]).left = 1
      /\ Arrive(ab_empty[c][k]).done = ab_empty[c][k].done + 1
  BY <1>1, SingleArrive DEF OperandRing
<1>3. OperandTypes'
  BY <1>1, <1>2 DEF OperandInv, OperandTypes
<1>4. \A d \in CTAs, m \in Slots : OperandRing(d, m)' /\ OperandBarrier(m)'
  <2> SUFFICES ASSUME NEW d \in CTAs, NEW m \in Slots
               PROVE  OperandRing(d, m)' /\ OperandBarrier(m)'
    OBVIOUS
  <2>1. OperandRing(d, m) /\ OperandBarrier(m) /\ Chain(d, m)
    BY OperandChain DEF OperandInv
  <2>2. CASE d = c /\ m = k
    <3>1. owed_empty'[d][m] = owed_empty[c][k] - 1 /\ ab_empty'[d][m] = Arrive(ab_empty[c][k])
      BY <2>2, <1>1 DEF OperandInv, OperandTypes
    <3> QED BY <2>1, <2>2, <3>1, <1>1, <1>2
            DEF OperandRing, OperandBarrier, Issued, Landed, Chain
  <2>3. CASE ~(d = c /\ m = k)
    <3>1. owed_empty'[d][m] = owed_empty[d][m] /\ ab_empty'[d][m] = ab_empty[d][m]
      BY <2>3, <1>1 DEF OperandInv, OperandTypes
    <3> QED BY <2>1, <3>1, <1>1 DEF OperandRing, OperandBarrier, Issued, Landed
  <2> QED BY <2>2, <2>3
<1> QED BY <1>3, <1>4, Sizes DEF OperandInv

OperandVars == <<ab_full, ab_empty, operand, tma, mma, retired, owed_empty>>

LEMMA OperandUnchanged ==
  ASSUME OperandInv, UNCHANGED OperandVars
  PROVE  OperandInv'
<1>1. OperandTypes'
  BY DEF OperandInv, OperandTypes, OperandVars
<1>2. \A d \in CTAs, m \in Slots : OperandRing(d, m)' /\ OperandBarrier(m)'
  BY DEF OperandInv, OperandVars, OperandRing, OperandBarrier, Issued, Landed
<1> QED BY <1>1, <1>2, Sizes DEF OperandInv

LEMMA OperandInit ==
  ASSUME Init
  PROVE  OperandInv
<1>1. /\ \A k \in Slots : ab_full[k] = Barrier(1, 1, 0, 0)
      /\ \A c \in CTAs, k \in Slots :
           /\ ab_empty[c][k] = Barrier(1, 1, 0, 0)
           /\ operand[c][k] = [seq |-> Garbage, landed |-> TRUE]
           /\ owed_empty[c][k] = 0
      /\ \A c \in CTAs : tma[c] = 0
      /\ mma = 0 /\ retired = 0
  BY DEF Init, NewBarrier
<1>2. OperandTypes
  BY Sizes DEF Init, OperandTypes, NewBarrier, Barrier, BarrierType
<1>3. \A c \in CTAs, k \in Slots : Issued(c, k) = 0 /\ Fills(0, k, P) = 0 /\ Landed(c, k) = 0
  BY <1>1, SlotFills DEF Issued, Landed, Bit
<1>4. \A c \in CTAs, k \in Slots : OperandRing(c, k)
  BY <1>1, <1>3 DEF OperandRing, Barrier, Settled
<1>5. \A k \in Slots : OperandBarrier(k)
  BY <1>1, <1>3 DEF OperandBarrier, Barrier, CTAs, Leader
<1> QED BY <1>2, <1>4, <1>5 DEF OperandInv

LEMMA OperandNext ==
  ASSUME OperandInv, [Next]_vars
  PROVE  OperandInv'
<1>1. CASE \E c \in CTAs : TmaIssue(c)
  BY <1>1, TmaIssueOperand
<1>2. CASE \E c \in CTAs, k \in Slots : TmaLand(c, k)
  BY <1>2, TmaLandOperand
<1>3. CASE \E c \in CTAs, l \in ScaleLanes : ScaleIssue(c, l) \/ ScalePublish(c, l)
  BY <1>3, OperandUnchanged DEF ScaleIssue, ScalePublish, OperandVars, barriers, matrix
<1>4. CASE MmaIssue
  BY <1>4, MmaIssueOperand
<1>5. CASE MmaRetire
  BY <1>5, MmaRetireOperand
<1>6. CASE \E c \in CTAs, k \in Slots : CommitEmpty(c, k)
  BY <1>6, CommitEmptyOperand
<1>7. CASE \E c \in CTAs, j \in Stages : CommitFull(c, j)
  BY <1>7, OperandUnchanged DEF CommitFull, OperandVars, producers
<1>8. CASE \E w \in ConsumerWarps : ConsumerRead(w) \/ WriteExchange(w) \/ StoreRows(w)
  BY <1>8, OperandUnchanged
     DEF ConsumerRead, WriteExchange, StoreRows, OperandVars, barriers, producers, matrix
<1>9. CASE \E w \in ConsumerWarps, l \in Lanes : ConsumerRelease(w, l)
  BY <1>9, OperandUnchanged DEF ConsumerRelease, OperandVars, producers, matrix
<1>10. CASE \E c \in CTAs, p \in Parts : SyncWritten(c, p) \/ SyncStored(c, p)
  BY <1>10, OperandUnchanged
     DEF SyncWritten, SyncStored, OperandVars, barriers, producers, matrix
<1>11. CASE FreeTmem \/ UNCHANGED vars
  BY <1>11, OperandUnchanged DEF FreeTmem, OperandVars, vars, barriers, producers, matrix
<1> QED BY <1>1, <1>2, <1>3, <1>4, <1>5, <1>6, <1>7, <1>8, <1>9, <1>10, <1>11
        DEF Next, Terminated

\* What the operand ring's invariant says of the MMAs in flight.
LEMMA OperandsHeld == OperandInv => OperandStable
BY OperandInFlight DEF OperandStable

\* While an MMA is in flight, neither CTA's TMA producer has touched the
\* operands it reads, for any number of tiles, groups, warps and lanes.
THEOREM OperandsSafe == Spec => []OperandStable
<1>1. Init => OperandInv
  BY OperandInit
<1>2. OperandInv /\ [Next]_vars => OperandInv'
  BY OperandNext
<1> QED BY <1>1, <1>2, OperandsHeld, PTL DEF Spec

-----------------------------------------------------------------------------
(* Threads.                                                                *)

LEMMA Threads ==
  /\ IsFiniteSet(ConsumerWarps) /\ IsFiniteSet(ScaleLanes) /\ ScaleLanes # {}
  /\ Lane0 \in Lanes
  /\ \A w \in ConsumerWarps : Cta(w) \in CTAs /\ w \in WarpsOf(Cta(w))
  /\ \A c \in CTAs : /\ WarpsOf(c) # {} /\ WarpsOf(c) \subseteq ConsumerWarps
                     /\ IsFiniteSet(WarpsOf(c) \X Lanes)
                     /\ \A w \in WarpsOf(c) : Cta(w) = c
<1>1. IsFiniteSet(CTAs)
  <2>1. IsFiniteSet({0}) /\ IsFiniteSet({1})
    BY FS_Singleton
  <2>2. CTAs = {0} \cup {1}
    BY DEF CTAs
  <2> QED BY <2>1, <2>2, FS_Union
<1>2. IsFiniteSet(Parts \X PartWarps)
  BY ThreadAssumption, FS_Product
<1>3. IsFiniteSet(ConsumerWarps)
  BY <1>1, <1>2, FS_Product DEF ConsumerWarps
<1>4. \A w \in ConsumerWarps : Cta(w) \in CTAs /\ w \in WarpsOf(Cta(w))
  BY DEF ConsumerWarps, Cta, WarpsOf
<1>5. ASSUME NEW c \in CTAs
      PROVE  /\ WarpsOf(c) # {} /\ WarpsOf(c) \subseteq ConsumerWarps
             /\ IsFiniteSet(WarpsOf(c) \X Lanes)
             /\ \A w \in WarpsOf(c) : Cta(w) = c
  <2>1. WarpsOf(c) \subseteq ConsumerWarps /\ \A w \in WarpsOf(c) : Cta(w) = c
    BY DEF WarpsOf
  <2>2. PICK p \in Parts, i \in PartWarps : TRUE
    BY ThreadAssumption
  <2>3. <<c, <<p, i>>>> \in WarpsOf(c)
    BY <2>2 DEF WarpsOf, ConsumerWarps, Cta
  <2>4. IsFiniteSet(WarpsOf(c))
    BY <2>1, <1>3, FS_Subset
  <2>5. IsFiniteSet(WarpsOf(c) \X Lanes)
    BY <2>4, ThreadAssumption, FS_Product
  <2> QED BY <2>1, <2>3, <2>5
<1> QED BY <1>3, <1>4, <1>5, ThreadAssumption

LEMMA ConsumerInit ==
  ASSUME Init
  PROVE  ConsumerTypes
<1>1. /\ sequence = [w \in ConsumerWarps |-> 0]
      /\ held = [w \in ConsumerWarps |-> {}]
      /\ pc = [w \in ConsumerWarps |-> "groups"]
      /\ sub = [w \in ConsumerWarps |-> 0]
      /\ freed = FALSE
  BY DEF Init
<1>2. 0 \in 0 .. Steps /\ 0 \in 0 .. Subs - 1
  BY Sizes, SizeAssumption
<1>3. \A w \in ConsumerWarps : held[w] = {}
  BY <1>1
<1>4. /\ sequence \in [ConsumerWarps -> 0 .. Steps]
      /\ sub \in [ConsumerWarps -> 0 .. Subs - 1]
      /\ held \in [ConsumerWarps -> SUBSET Lanes]
      /\ pc \in [ConsumerWarps -> {"groups", "write", "written", "store", "stored"}]
  BY <1>1, <1>2
<1> QED BY <1>1, <1>3, <1>4 DEF ConsumerTypes

LEMMA ConsumerNext ==
  ASSUME ConsumerTypes, [Next]_vars
  PROVE  ConsumerTypes'
<1> USE Sizes, SizeAssumption DEF ConsumerTypes
<1>1. CASE \E c \in CTAs : TmaIssue(c)
  BY <1>1 DEF TmaIssue, consumers, epilogue
<1>2. CASE \E c \in CTAs, k \in Slots : TmaLand(c, k)
  BY <1>2 DEF TmaLand, consumers, epilogue
<1>3. CASE \E c \in CTAs, l \in ScaleLanes : ScaleIssue(c, l) \/ ScalePublish(c, l)
  BY <1>3 DEF ScaleIssue, ScalePublish, consumers, epilogue
<1>4. CASE MmaIssue
  BY <1>4 DEF MmaIssue, consumers, epilogue
<1>5. CASE MmaRetire
  BY <1>5 DEF MmaRetire, consumers, epilogue
<1>6. CASE \E c \in CTAs, k \in Slots : CommitEmpty(c, k)
  BY <1>6 DEF CommitEmpty, consumers, epilogue
<1>7. CASE \E c \in CTAs, j \in Stages : CommitFull(c, j)
  BY <1>7 DEF CommitFull, consumers, epilogue
<1>8. ASSUME NEW w \in ConsumerWarps, ConsumerRead(w) PROVE ConsumerTypes'
  BY <1>8 DEF ConsumerRead, epilogue
<1>9. ASSUME NEW w \in ConsumerWarps, NEW l \in Lanes, ConsumerRelease(w, l)
      PROVE  ConsumerTypes'
  <2>1. UNCHANGED <<sub, freed>> /\ l \in held[w] /\ held' = [held EXCEPT ![w] = @ \ {l}]
    BY <1>9 DEF ConsumerRelease, epilogue
  <2>2. sequence[w] < Steps /\ sequence[w] + 1 \in 0 .. Steps
    BY <2>1
  <2>3. pc' \in [ConsumerWarps -> {"groups", "write", "written", "store", "stored"}]
    BY <1>9 DEF ConsumerRelease
  <2>4. sequence' \in [ConsumerWarps -> 0 .. Steps]
    BY <1>9, <2>2 DEF ConsumerRelease
  <2>5. held' \in [ConsumerWarps -> SUBSET Lanes]
    BY <2>1
  <2>6. ASSUME NEW v \in ConsumerWarps, held'[v] # {} PROVE sequence'[v] < Steps
    <3>1. CASE v = w
      <4>1. held[w] # {l}
        BY <2>1, <2>6, <3>1
      <4> QED BY <4>1, <3>1, <1>9, <2>2 DEF ConsumerRelease
    <3>2. CASE v # w
      <4>1. held'[v] = held[v] /\ sequence'[v] = sequence[v]
        BY <3>2, <1>9, <2>1 DEF ConsumerRelease
      <4> QED BY <4>1, <2>6
    <3> QED BY <3>1, <3>2
  <2> QED BY <2>1, <2>3, <2>4, <2>5, <2>6
<1>10. ASSUME NEW w \in ConsumerWarps, WriteExchange(w) \/ StoreRows(w)
       PROVE  ConsumerTypes'
  BY <1>10 DEF WriteExchange, StoreRows, consumers
<1>11. ASSUME NEW c \in CTAs, NEW p \in Parts, SyncWritten(c, p) PROVE ConsumerTypes'
  BY <1>11 DEF SyncWritten, consumers, epilogue
<1>12. ASSUME NEW c \in CTAs, NEW p \in Parts, SyncStored(c, p) PROVE ConsumerTypes'
  <2>1. UNCHANGED <<sequence, held, freed>>
    BY <1>12 DEF SyncStored
  <2>2. pc' \in [ConsumerWarps -> {"groups", "write", "written", "store", "stored"}]
    BY <1>12 DEF SyncStored
  <2>3. sub' \in [ConsumerWarps -> 0 .. Subs - 1]
    BY <1>12 DEF SyncStored
  <2> QED BY <2>1, <2>2, <2>3
<1>13. CASE FreeTmem
  BY <1>13 DEF FreeTmem, consumers, epilogue
<1>14. CASE UNCHANGED vars
  BY <1>14 DEF vars, consumers, epilogue
<1> QED BY <1>1, <1>2, <1>3, <1>4, <1>5, <1>6, <1>7, <1>8, <1>9, <1>10, <1>11, <1>12,
           <1>13, <1>14 DEF Next, Terminated

-----------------------------------------------------------------------------
(* The scale ring.                                                         *)

\* Laps of the scale ring: a lane is read only after every producer lane
\* wrote it, and rewritten only after every consumer lane released it.
ScaleChain(c, k) ==
  /\ sf_full[c][k].done \in Nat /\ sf_empty[c][k].done \in Nat
  /\ sf_empty[c][k].done <= sf_full[c][k].done
  /\ sf_full[c][k].done <= sf_empty[c][k].done + 1
  /\ \A l \in ScaleLanes :
       /\ Fills(sf[c][l], k, P) \in {sf_full[c][k].done, sf_full[c][k].done + 1}
       /\ ScaleWrites(c, l, k) = IF l \in copying[c] /\ Slot(sf[c][l]) = k
                                   THEN Fills(sf[c][l], k, P) + 1
                                   ELSE Fills(sf[c][l], k, P)
       /\ ScaleWrites(c, l, k) <= sf_empty[c][k].done + 1
  /\ \A w \in WarpsOf(c) :
       /\ Fills(sequence[w], k, P) \in Nat
       /\ SlotReads(w, k) = IF held[w] # {} /\ Slot(sequence[w]) = k
                              THEN Fills(sequence[w], k, P) + 1
                              ELSE Fills(sequence[w], k, P)
       /\ SlotReads(w, k) <= sf_full[c][k].done
       /\ \A l \in Lanes :
            /\ SlotReleases(w, l, k) =
                 IF held[w] # {} /\ l \notin held[w] /\ Slot(sequence[w]) = k
                   THEN Fills(sequence[w], k, P) + 1
                   ELSE Fills(sequence[w], k, P)
            /\ SlotReleases(w, l, k) \in {sf_empty[c][k].done, sf_empty[c][k].done + 1}

LEMMA ScaleChains ==
  ASSUME ScaleInv, ConsumerTypes, NEW c \in CTAs, NEW k \in Slots
  PROVE  ScaleChain(c, k)
<1>1. /\ ScaleRing(c, k)
      /\ sf_full[c][k] \in BarrierType /\ sf_empty[c][k] \in BarrierType
      /\ \A l \in ScaleLanes : sf[c][l] \in Nat
      /\ \A w \in WarpsOf(c) : sequence[w] \in Nat
  <2>1. ScaleRing(c, k)
    BY DEF ScaleInv
  <2>2. sf_full[c][k] \in BarrierType /\ sf_empty[c][k] \in BarrierType
    BY DEF ScaleInv, ScaleTypes
  <2>3. \A l \in ScaleLanes : sf[c][l] \in Nat
    BY Sizes DEF ScaleInv, ScaleTypes
  <2>4. \A w \in WarpsOf(c) : sequence[w] \in Nat
    BY Sizes DEF ConsumerTypes, WarpsOf
  <2> QED BY <2>1, <2>2, <2>3, <2>4
<1>2. sf_full[c][k].done \in Nat /\ sf_empty[c][k].done \in Nat
  BY <1>1 DEF BarrierType
<1>3. ASSUME NEW l \in ScaleLanes
      PROVE  /\ Fills(sf[c][l], k, P) \in {sf_full[c][k].done, sf_full[c][k].done + 1}
             /\ ScaleWrites(c, l, k) = IF l \in copying[c] /\ Slot(sf[c][l]) = k
                                         THEN Fills(sf[c][l], k, P) + 1
                                         ELSE Fills(sf[c][l], k, P)
             /\ ScaleWrites(c, l, k) <= sf_empty[c][k].done + 1
  <2>1. Fills(sf[c][l], k, P) \in Nat
    BY <1>1, SlotFills
  <2>2. Fills(sf[c][l], k, P) \in {sf_full[c][k].done, sf_full[c][k].done + 1}
    BY <1>1 DEF ScaleRing, Counted
  <2>3. ScaleWrites(c, l, k) = IF l \in copying[c] /\ Slot(sf[c][l]) = k
                                 THEN Fills(sf[c][l], k, P) + 1
                                 ELSE Fills(sf[c][l], k, P)
    BY <2>1 DEF ScaleWrites, Bit
  <2> QED BY <2>2, <2>3, <1>1 DEF ScaleRing
<1>4. ASSUME NEW w \in WarpsOf(c)
      PROVE  /\ Fills(sequence[w], k, P) \in Nat
             /\ SlotReads(w, k) = IF held[w] # {} /\ Slot(sequence[w]) = k
                                    THEN Fills(sequence[w], k, P) + 1
                                    ELSE Fills(sequence[w], k, P)
             /\ SlotReads(w, k) <= sf_full[c][k].done
  <2>1. Fills(sequence[w], k, P) \in Nat
    BY <1>1, SlotFills
  <2> QED BY <2>1, <1>1 DEF SlotReads, Bit, ScaleRing
<1>5. ASSUME NEW w \in WarpsOf(c), NEW l \in Lanes
      PROVE  /\ SlotReleases(w, l, k) =
                  IF held[w] # {} /\ l \notin held[w] /\ Slot(sequence[w]) = k
                    THEN Fills(sequence[w], k, P) + 1
                    ELSE Fills(sequence[w], k, P)
             /\ SlotReleases(w, l, k) \in {sf_empty[c][k].done, sf_empty[c][k].done + 1}
  <2>1. Fills(sequence[w], k, P) \in Nat
    BY <1>4
  <2>2. SlotReleases(w, l, k) =
          IF held[w] # {} /\ l \notin held[w] /\ Slot(sequence[w]) = k
            THEN Fills(sequence[w], k, P) + 1 ELSE Fills(sequence[w], k, P)
    BY <2>1 DEF SlotReleases, Bit
  <2> DEFINE r == [t \in WarpsOf(c) \X Lanes |-> SlotReleases(t[1], t[2], k)]
  <2>3. r[<<w, l>>] \in {sf_empty[c][k].done, sf_empty[c][k].done + 1}
    BY <1>1 DEF ScaleRing, Counted
  <2>4. r[<<w, l>>] = SlotReleases(w, l, k)
    OBVIOUS
  <2> QED BY <2>2, <2>3, <2>4
<1>6. sf_empty[c][k].done <= sf_full[c][k].done
  <2>1. PICK w \in WarpsOf(c) : TRUE
    BY Threads
  <2> QED BY <2>1, <1>2, <1>4, <1>5, Threads
<1>7. sf_full[c][k].done <= sf_empty[c][k].done + 1
  <2>1. PICK l \in ScaleLanes : TRUE
    BY Threads
  <2> QED BY <2>1, <1>2, <1>3
<1> QED BY <1>2, <1>3, <1>4, <1>5, <1>6, <1>7 DEF ScaleChain

\* While any lane of a warp reads the slot, the slot holds its sequence.
LEMMA ScaleHeld ==
  ASSUME ScaleInv, ConsumerTypes, NEW w \in ConsumerWarps, NEW l \in ScaleLanes,
         held[w] # {}
  PROVE  scale[Cta(w)][Slot(sequence[w])][l] = sequence[w]
<1> DEFINE c == Cta(w)
           s == sequence[w]
           k == Slot(s)
           lap == s \div P
<1>1. c \in CTAs /\ w \in WarpsOf(c) /\ s \in Nat
  BY Threads, Sizes DEF ConsumerTypes
<1>2. k \in Slots /\ lap \in Nat /\ s = lap * P + k /\ Fills(s, k, P) = lap
  BY <1>1, SlotAt
<1>3. PICK m \in Lanes : m \in held[w]
  BY DEF ConsumerTypes
<1>4. ScaleChain(c, k)
  BY <1>1, <1>2, ScaleChains
<1> HIDE DEF lap, c, k
<1>5. /\ SlotReads(w, k) = lap + 1 /\ SlotReads(w, k) <= sf_full[c][k].done
      /\ SlotReleases(w, m, k) = lap
      /\ SlotReleases(w, m, k) \in {sf_empty[c][k].done, sf_empty[c][k].done + 1}
  BY <1>1, <1>2, <1>3, <1>4 DEF ScaleChain, k
<1>6. ScaleWrites(c, l, k) = lap + 1 /\ Fills(sf[c][l], k, P) = lap + 1
  BY <1>2, <1>4, <1>5 DEF ScaleChain
<1>7. scale[c][k][l] = (ScaleWrites(c, l, k) - 1) * P + k
  <2>1. ScaleRing(c, k)
    BY <1>1, <1>2 DEF ScaleInv
  <2>2. ScaleWrites(c, l, k) = Fills(sf[c][l], k, P) /\ ScaleWrites(c, l, k) > 0
    BY <1>2, <1>6
  <2> QED BY <2>1, <2>2 DEF ScaleRing
<1>8. ScaleWrites(c, l, k) - 1 = lap
  BY <1>2, <1>6
<1> QED BY <1>2, <1>7, <1>8 DEF c, k

LEMMA ScaleIssueScale ==
  ASSUME ScaleInv, ConsumerTypes, NEW c \in CTAs, NEW l \in ScaleLanes, ScaleIssue(c, l)
  PROVE  ScaleInv'
<1> SUFFICES ASSUME NEW s, s = sf[c][l], NEW k, k = Slot(s),
                    NEW lap, lap = s \div P
             PROVE  ScaleInv'
  OBVIOUS
<1>1. /\ s \in Nat /\ s < Steps /\ l \notin copying[c]
      /\ UNCHANGED <<sf_full, sf_empty, sf, sequence, held>>
      /\ copying' = [copying EXCEPT ![c] = @ \cup {l}]
      /\ scale' = [scale EXCEPT ![c][k][l] = Garbage]
      /\ s >= P => Passes(sf_empty[c][k], (lap - 1) % 2)
  <2>1. s \in Nat
    BY Sizes DEF ScaleInv, ScaleTypes
  <2> QED BY <2>1 DEF ScaleIssue, ScaleSlotFree, LastLap, barriers, consumers
<1>2. k \in Slots /\ lap \in Nat /\ Fills(s, k, P) = lap /\ (s < P => lap = 0)
  BY <1>1, SlotAt
<1>3. sf_empty[c][k].done = lap
  <2>1. ScaleChain(c, k)
    BY <1>2, ScaleChains
  <2>2. /\ sf_empty[c][k].done \in Nat /\ sf_full[c][k].done \in Nat
        /\ sf_empty[c][k].done <= sf_full[c][k].done /\ sf_full[c][k].done <= lap
        /\ lap <= sf_empty[c][k].done + 1
    <3>1. Fills(sf[c][l], k, P) = lap
      BY <1>2
    <3>2. /\ Fills(sf[c][l], k, P) \in {sf_full[c][k].done, sf_full[c][k].done + 1}
          /\ ScaleWrites(c, l, k) <= sf_empty[c][k].done + 1
          /\ ScaleWrites(c, l, k) = lap
      BY <2>1, <1>1, <1>2 DEF ScaleChain
    <3>3. /\ sf_empty[c][k].done \in Nat /\ sf_full[c][k].done \in Nat
          /\ sf_empty[c][k].done <= sf_full[c][k].done
      BY <2>1 DEF ScaleChain
    <3> QED BY <3>1, <3>2, <3>3, <1>2
  <2>3. CASE s >= P
    <3>1. sf_empty[c][k].done \in {lap - 1, lap - 1 + 1}
      BY <2>2, <1>2
    <3>2. sf_empty[c][k].done = lap - 1 + 1
      BY <2>3, <3>1, <1>1, <1>2, ParityWait
    <3> QED BY <3>2, <1>2
  <2>4. CASE s < P
    BY <2>2, <2>4, <1>2
  <2> QED BY <2>3, <2>4, <1>1, Sizes
<1>4. \A d \in CTAs, m \in ScaleLanes :
        m \in copying'[d] <=> (m \in copying[d] \/ (d = c /\ m = l))
  BY <1>1 DEF ScaleInv, ScaleTypes
<1>5. \A d \in CTAs, n \in Slots, m \in ScaleLanes :
        ~(d = c /\ n = k /\ m = l) => scale'[d][n][m] = scale[d][n][m]
  BY <1>1 DEF ScaleInv, ScaleTypes
<1>6. ScaleTypes'
  <2>1. scale' \in [CTAs -> [Slots -> [ScaleLanes -> Nat \cup {Garbage}]]]
    BY <1>1, <1>2 DEF ScaleInv, ScaleTypes
  <2>2. copying' \in [CTAs -> SUBSET ScaleLanes]
    BY <1>1 DEF ScaleInv, ScaleTypes
  <2>3. \A d \in CTAs : \A m \in copying'[d] : sf[d][m] < Steps
    BY <1>1, <1>4, <2>2 DEF ScaleInv, ScaleTypes
  <2> QED BY <1>1, <2>1, <2>2, <2>3 DEF ScaleInv, ScaleTypes
<1>7. ASSUME NEW d \in CTAs, NEW n \in Slots PROVE ScaleRing(d, n)'
  <2>1. ScaleRing(d, n)
    BY DEF ScaleInv
  <2>2. Counted(sf_full[d][n], ScaleLanes, [m \in ScaleLanes |-> Fills(sf[d][m], n, P)])'
    BY <2>1, <1>1 DEF ScaleRing, Counted, Settled
  <2>3. Counted(sf_empty[d][n], WarpsOf(d) \X Lanes,
                [t \in WarpsOf(d) \X Lanes |-> SlotReleases(t[1], t[2], n)])'
    BY <2>1, <1>1 DEF ScaleRing, Counted, Settled, SlotReleases
  <2>4. ASSUME NEW m \in ScaleLanes
        PROVE  /\ ScaleWrites(d, m, n)' <= sf_empty'[d][n].done + 1
               /\ (ScaleWrites(d, m, n)' = Fills(sf'[d][m], n, P) /\ ScaleWrites(d, m, n)' > 0) =>
                    scale'[d][n][m] = (ScaleWrites(d, m, n)' - 1) * P + n
    <3>1. CASE d = c /\ n = k /\ m = l
      <4>1. ScaleWrites(d, m, n)' = lap + 1
        BY <3>1, <1>1, <1>2, <1>4 DEF ScaleWrites, Bit
      <4> QED BY <4>1, <3>1, <1>1, <1>2, <1>3
    <3>2. CASE ~(d = c /\ n = k /\ m = l)
      <4>1. ScaleWrites(d, m, n)' = ScaleWrites(d, m, n)
        BY <3>2, <1>1, <1>4 DEF ScaleWrites, Bit
      <4> QED BY <4>1, <3>2, <2>1, <1>1, <1>5 DEF ScaleRing
    <3> QED BY <3>1, <3>2
  <2>5. \A w \in WarpsOf(d) : SlotReads(w, n)' <= sf_full'[d][n].done
    BY <2>1, <1>1 DEF ScaleRing, SlotReads
  <2> QED BY <2>2, <2>3, <2>4, <2>5 DEF ScaleRing
<1> QED BY <1>6, <1>7 DEF ScaleInv

LEMMA ScalePublishScale ==
  ASSUME ScaleInv, ConsumerTypes, NEW c \in CTAs, NEW l \in ScaleLanes, ScalePublish(c, l)
  PROVE  ScaleInv'
<1> SUFFICES ASSUME NEW s, s = sf[c][l], NEW k, k = Slot(s),
                    NEW lap, lap = s \div P
             PROVE  ScaleInv'
  OBVIOUS
<1>1. /\ s \in Nat /\ s + 1 \in 0 .. Steps /\ l \in copying[c]
      /\ UNCHANGED <<sf_empty, sequence, held>>
      /\ copying' = [copying EXCEPT ![c] = @ \ {l}]
      /\ scale' = [scale EXCEPT ![c][k][l] = s]
      /\ sf_full' = [sf_full EXCEPT ![c][k] = Arrive(@)]
      /\ sf' = [sf EXCEPT ![c][l] = s + 1]
  <2>1. s \in Nat
    BY Sizes DEF ScaleInv, ScaleTypes
  <2>2. l \in copying[c] /\ s < Steps
    BY DEF ScalePublish, ScaleInv, ScaleTypes
  <2> QED BY <2>1, <2>2, Sizes DEF ScalePublish, consumers
<1>2. /\ k \in Slots /\ lap \in Nat /\ Fills(s, k, P) = lap
      /\ \A n \in Slots : Fills(s, n, P) \in Nat
      /\ \A n \in Slots : n # k => Fills(s + 1, n, P) = Fills(s, n, P)
      /\ Fills(s + 1, k, P) = lap + 1
  <2>1. \A n \in Slots : Fills(s, n, P) \in Nat
    BY <1>1, SlotFills
  <2> QED BY <2>1, <1>1, SlotAt
<1>11. s = lap * P + k
  BY <1>1, SlotAt
<1>3. ScaleChain(c, k) /\ ScaleRing(c, k) /\ sf_full[c][k] \in BarrierType
  BY <1>2, ScaleChains DEF ScaleInv, ScaleTypes
<1>4. sf_full[c][k].done = lap /\ ScaleWrites(c, l, k) = lap + 1
  <2>1. ScaleWrites(c, l, k) = lap + 1 /\ Fills(sf[c][l], k, P) = lap
    BY <1>1, <1>2, <1>3 DEF ScaleChain
  <2>2. /\ lap \in {sf_full[c][k].done, sf_full[c][k].done + 1}
        /\ lap + 1 <= sf_empty[c][k].done + 1 /\ sf_empty[c][k].done <= sf_full[c][k].done
        /\ sf_empty[c][k].done \in Nat /\ sf_full[c][k].done \in Nat
    BY <2>1, <1>3 DEF ScaleChain
  <2> QED BY <2>1, <2>2, <1>2
<1>5. \A d \in CTAs, m \in ScaleLanes :
        /\ m \in copying'[d] <=> (m \in copying[d] /\ ~(d = c /\ m = l))
        /\ sf'[d][m] = IF d = c /\ m = l THEN s + 1 ELSE sf[d][m]
  BY <1>1 DEF ScaleInv, ScaleTypes
<1>6. \A d \in CTAs, n \in Slots, m \in ScaleLanes :
        scale'[d][n][m] = IF d = c /\ n = k /\ m = l THEN s ELSE scale[d][n][m]
  BY <1>1, <1>2 DEF ScaleInv, ScaleTypes
<1>7. \A d \in CTAs, n \in Slots :
        sf_full'[d][n] = IF d = c /\ n = k THEN Arrive(sf_full[c][k]) ELSE sf_full[d][n]
  BY <1>1 DEF ScaleInv, ScaleTypes
<1> DEFINE r == [m \in ScaleLanes |-> Fills(sf[c][m], k, P)]
           q == [m \in ScaleLanes |-> Fills(sf'[c][m], k, P)]
<1>8. /\ Arrive(sf_full[c][k]) \in BarrierType
      /\ Counted(Arrive(sf_full[c][k]), ScaleLanes, q)
      /\ Arrive(sf_full[c][k]).done \in {lap, lap + 1}
  <2>1. Counted(sf_full[c][k], ScaleLanes, r)
    BY <1>3 DEF ScaleRing
  <2>2. r[l] = sf_full[c][k].done /\ q[l] = sf_full[c][k].done + 1
    <3>1. sf'[c][l] = s + 1
      BY <1>5
    <3> QED BY <3>1, <1>2, <1>4
  <2>3. \A m \in ScaleLanes \ {l} : q[m] = r[m]
    BY <1>5
  <2> HIDE DEF r, q
  <2>4. /\ Arrive(sf_full[c][k]) \in BarrierType
        /\ Counted(Arrive(sf_full[c][k]), ScaleLanes, q)
        /\ Arrive(sf_full[c][k]).done \in {sf_full[c][k].done, sf_full[c][k].done + 1}
    BY <2>1, <2>2, <2>3, <1>3, Threads, CountedArrive
  <2> QED BY <2>4, <1>4
<1>9. ScaleTypes'
  <2>1. scale' \in [CTAs -> [Slots -> [ScaleLanes -> Nat \cup {Garbage}]]]
    BY <1>1, <1>2 DEF ScaleInv, ScaleTypes
  <2>2. copying' \in [CTAs -> SUBSET ScaleLanes]
    BY <1>1 DEF ScaleInv, ScaleTypes
  <2>3. \A d \in CTAs : \A m \in copying'[d] : sf'[d][m] < Steps
    BY <1>5, <2>2 DEF ScaleInv, ScaleTypes
  <2>4. sf' \in [CTAs -> [ScaleLanes -> 0 .. Steps]]
    BY <1>1 DEF ScaleInv, ScaleTypes
  <2>5. sf_full' \in [CTAs -> [Slots -> BarrierType]]
    BY <1>1, <1>8 DEF ScaleInv, ScaleTypes
  <2> QED BY <1>1, <2>1, <2>2, <2>3, <2>4, <2>5 DEF ScaleInv, ScaleTypes
<1>10. ASSUME NEW d \in CTAs, NEW n \in Slots PROVE ScaleRing(d, n)'
  <2>1. ScaleRing(d, n) /\ ScaleChain(d, n)
    BY ScaleChains DEF ScaleInv
  <2>2. Counted(sf_full[d][n], ScaleLanes, [m \in ScaleLanes |-> Fills(sf[d][m], n, P)])'
    <3>1. CASE d = c /\ n = k
      BY <3>1, <1>7, <1>8
    <3>2. CASE ~(d = c /\ n = k)
      <4>1. sf_full'[d][n] = sf_full[d][n]
        BY <3>2, <1>7
      <4>2. ASSUME NEW m \in ScaleLanes
            PROVE  Fills(sf'[d][m], n, P) = Fills(sf[d][m], n, P)
        <5>1. CASE d = c /\ m = l
          <6>1. n # k /\ sf'[d][m] = s + 1 /\ sf[d][m] = s
            BY <5>1, <3>2, <1>5
          <6> QED BY <6>1, <1>2
        <5>2. CASE ~(d = c /\ m = l)
          BY <5>2, <1>5
        <5> QED BY <5>1, <5>2
      <4>3. [m \in ScaleLanes |-> Fills(sf'[d][m], n, P)]
              = [m \in ScaleLanes |-> Fills(sf[d][m], n, P)]
        BY <4>2
      <4> QED BY <4>1, <4>3, <2>1 DEF ScaleRing
    <3> QED BY <3>1, <3>2
  <2>3. Counted(sf_empty[d][n], WarpsOf(d) \X Lanes,
                [t \in WarpsOf(d) \X Lanes |-> SlotReleases(t[1], t[2], n)])'
    BY <2>1, <1>1 DEF ScaleRing, Counted, Settled, SlotReleases
  <2>4. ASSUME NEW m \in ScaleLanes
        PROVE  /\ ScaleWrites(d, m, n)' <= sf_empty'[d][n].done + 1
               /\ (ScaleWrites(d, m, n)' = Fills(sf'[d][m], n, P) /\ ScaleWrites(d, m, n)' > 0) =>
                    scale'[d][n][m] = (ScaleWrites(d, m, n)' - 1) * P + n
    <3>1. CASE d = c /\ n = k /\ m = l
      <4>1. ScaleWrites(d, m, n) = lap + 1 /\ ScaleWrites(d, m, n)' = lap + 1
        <5>1. sf'[c][l] = s + 1 /\ l \notin copying'[c]
          BY <1>5
        <5>2. ScaleWrites(c, l, k)' = lap + 1
          BY <5>1, <1>2 DEF ScaleWrites, Bit
        <5> QED BY <5>2, <3>1, <1>4
      <4>2. scale'[d][n][m] = s /\ sf_empty'[d][n].done = sf_empty[d][n].done
        BY <3>1, <1>1, <1>6
      <4>3. ScaleWrites(d, m, n)' - 1 = lap
        BY <4>1, <1>2
      <4>4. s = (ScaleWrites(d, m, n)' - 1) * P + n
        BY <4>3, <1>11, <3>1
      <4>5. ScaleWrites(d, m, n) <= sf_empty[d][n].done + 1
        BY <2>1 DEF ScaleRing
      <4> QED BY <4>1, <4>2, <4>4, <4>5
    <3>2. CASE d = c /\ n # k /\ m = l
      <4>1. ScaleWrites(d, m, n) = Fills(s, n, P) /\ ScaleWrites(d, m, n)' = Fills(s, n, P)
            /\ Fills(sf'[d][m], n, P) = Fills(sf[d][m], n, P)
        <5>1. Fills(s, n, P) \in Nat
          BY <1>1, SlotFills
        <5>2. Fills(s + 1, n, P) = Fills(s, n, P)
          BY <3>2, <1>2
        <5> QED BY <3>2, <5>1, <5>2, <1>1, <1>5 DEF ScaleWrites, Bit
      <4> QED BY <4>1, <3>2, <2>1, <1>1, <1>6 DEF ScaleRing
    <3>3. CASE ~(d = c /\ m = l)
      <4>1. ScaleWrites(d, m, n)' = ScaleWrites(d, m, n) /\ sf'[d][m] = sf[d][m]
        BY <3>3, <1>5 DEF ScaleWrites, Bit
      <4> QED BY <4>1, <3>3, <2>1, <1>1, <1>6 DEF ScaleRing
    <3> QED BY <3>1, <3>2, <3>3
  <2>5. ASSUME NEW w \in WarpsOf(d) PROVE SlotReads(w, n)' <= sf_full'[d][n].done
    <3>1. SlotReads(w, n)' = SlotReads(w, n)
      BY <1>1 DEF SlotReads
    <3>2. SlotReads(w, n) \in Nat /\ SlotReads(w, n) <= sf_full[d][n].done
          /\ sf_full[d][n].done \in Nat
      BY <2>1 DEF ScaleChain
    <3>3. CASE d = c /\ n = k
      <4>1. sf_full'[d][n].done \in {lap, lap + 1} /\ sf_full[d][n].done = lap
        BY <3>3, <1>4, <1>7, <1>8
      <4> QED BY <4>1, <3>1, <3>2, <1>2
    <3>4. CASE ~(d = c /\ n = k)
      BY <3>1, <3>2, <3>4, <1>7
    <3> QED BY <3>3, <3>4
  <2> QED BY <2>2, <2>3, <2>4, <2>5 DEF ScaleRing
<1> QED BY <1>9, <1>10 DEF ScaleInv

LEMMA ConsumerReadScale ==
  ASSUME ScaleInv, ConsumerTypes, NEW w \in ConsumerWarps, ConsumerRead(w)
  PROVE  ScaleInv'
<1> SUFFICES ASSUME NEW s, s = sequence[w], NEW k, k = Slot(s), NEW c, c = Cta(w),
                    NEW lap, lap = s \div P
             PROVE  ScaleInv'
  OBVIOUS
<1>1. /\ s \in Nat /\ held[w] = {} /\ c \in CTAs /\ w \in WarpsOf(c)
      /\ UNCHANGED <<sf_full, sf_empty, sf, copying, scale, sequence>>
      /\ held' = [held EXCEPT ![w] = Lanes] /\ held \in [ConsumerWarps -> SUBSET Lanes]
      /\ Passes(sf_full[c][k], (lap) % 2)
  <2>1. s \in Nat /\ c \in CTAs /\ w \in WarpsOf(c)
    BY Sizes, Threads DEF ConsumerTypes
  <2> QED BY <2>1 DEF ConsumerRead, ThisLap, barriers, producers, ConsumerTypes
<1>2. k \in Slots /\ lap \in Nat /\ Fills(s, k, P) = lap
  BY <1>1, SlotAt
<1>3. ScaleChain(c, k)
  BY <1>1, <1>2, ScaleChains
<1>4. sf_full[c][k].done = lap + 1
  <2>1. PICK l \in Lanes : TRUE
    BY Threads
  <2>2. SlotReleases(w, l, k) = lap
        /\ SlotReleases(w, l, k) \in {sf_empty[c][k].done, sf_empty[c][k].done + 1}
        /\ SlotReads(w, k) = lap /\ SlotReads(w, k) <= sf_full[c][k].done
    BY <1>1, <1>2, <1>3 DEF ScaleChain
  <2>3. /\ sf_empty[c][k].done \in Nat /\ sf_full[c][k].done \in Nat
        /\ sf_full[c][k].done <= sf_empty[c][k].done + 1
    BY <1>3 DEF ScaleChain
  <2>4. sf_full[c][k].done \in {lap, lap + 1}
    BY <2>2, <2>3, <1>2
  <2> QED BY <2>4, <1>1, <1>2, ParityWait
<1>5. \A v \in ConsumerWarps : held'[v] = IF v = w THEN Lanes ELSE held[v]
  BY <1>1
<1>6. \A v \in ConsumerWarps, l \in Lanes, n \in Slots :
        SlotReleases(v, l, n)' = SlotReleases(v, l, n)
  BY <1>1, <1>5 DEF SlotReleases
<1>7. ScaleTypes'
  BY <1>1 DEF ScaleInv, ScaleTypes
<1>8. ASSUME NEW d \in CTAs, NEW n \in Slots PROVE ScaleRing(d, n)'
  <2>1. ScaleRing(d, n) /\ ScaleChain(d, n)
    BY ScaleChains DEF ScaleInv
  <2>2. Counted(sf_full[d][n], ScaleLanes, [m \in ScaleLanes |-> Fills(sf[d][m], n, P)])'
    BY <2>1, <1>1 DEF ScaleRing, Counted, Settled
  <2>3. Counted(sf_empty[d][n], WarpsOf(d) \X Lanes,
                [t \in WarpsOf(d) \X Lanes |-> SlotReleases(t[1], t[2], n)])'
    <3>1. \A t \in WarpsOf(d) \X Lanes :
            SlotReleases(t[1], t[2], n)' = SlotReleases(t[1], t[2], n)
      BY <1>6, Threads
    <3>2. [t \in WarpsOf(d) \X Lanes |-> SlotReleases(t[1], t[2], n)']
            = [t \in WarpsOf(d) \X Lanes |-> SlotReleases(t[1], t[2], n)]
      BY <3>1
    <3> QED BY <3>2, <2>1, <1>1 DEF ScaleRing
  <2>4. ASSUME NEW m \in ScaleLanes
        PROVE  /\ ScaleWrites(d, m, n)' <= sf_empty'[d][n].done + 1
               /\ (ScaleWrites(d, m, n)' = Fills(sf'[d][m], n, P) /\ ScaleWrites(d, m, n)' > 0) =>
                    scale'[d][n][m] = (ScaleWrites(d, m, n)' - 1) * P + n
    BY <2>1, <1>1 DEF ScaleRing, ScaleWrites
  <2>5. ASSUME NEW v \in WarpsOf(d) PROVE SlotReads(v, n)' <= sf_full'[d][n].done
    <3>1. v \in ConsumerWarps /\ Cta(v) = d /\ SlotReads(v, n) <= sf_full[d][n].done
      BY <2>1, Threads DEF ScaleRing
    <3>2. CASE v = w /\ n = k
      <4>1. SlotReads(v, n)' = lap + 1
        BY <3>2, <1>1, <1>2, <1>5, Threads DEF SlotReads, Bit
      <4>2. sf_full'[d][n].done = lap + 1
        BY <3>1, <3>2, <1>1, <1>4
      <4> QED BY <4>1, <4>2, <1>2
    <3>3. CASE ~(v = w /\ n = k)
      <4>1. SlotReads(v, n)' = SlotReads(v, n)
        BY <3>1, <3>3, <1>1, <1>5 DEF SlotReads, Bit
      <4> QED BY <4>1, <3>1, <1>1
    <3> QED BY <3>2, <3>3
  <2> QED BY <2>2, <2>3, <2>4, <2>5 DEF ScaleRing
<1> QED BY <1>7, <1>8 DEF ScaleInv

LEMMA ConsumerReleaseScale ==
  ASSUME ScaleInv, ConsumerTypes, NEW w \in ConsumerWarps, NEW l \in Lanes,
         ConsumerRelease(w, l)
  PROVE  ScaleInv'
<1> SUFFICES ASSUME NEW s, s = sequence[w], NEW k, k = Slot(s), NEW c, c = Cta(w),
                    NEW lap, lap = s \div P
             PROVE  ScaleInv'
  OBVIOUS
<1>1. /\ s \in Nat /\ s + 1 \in Nat /\ l \in held[w] /\ c \in CTAs /\ w \in WarpsOf(c)
      /\ UNCHANGED <<sf_full, sf, copying, scale>>
      /\ held' = [held EXCEPT ![w] = @ \ {l}] /\ held \in [ConsumerWarps -> SUBSET Lanes]
      /\ sf_empty' = [sf_empty EXCEPT ![c][k] = Arrive(@)]
      /\ sequence' = IF held[w] = {l} THEN [sequence EXCEPT ![w] = s + 1] ELSE sequence
      /\ sequence \in [ConsumerWarps -> 0 .. Steps]
  <2>1. s \in Nat /\ c \in CTAs /\ w \in WarpsOf(c)
    BY Sizes, Threads DEF ConsumerTypes
  <2> QED BY <2>1 DEF ConsumerRelease, producers, ConsumerTypes
<1>2. /\ k \in Slots /\ lap \in Nat /\ Fills(s, k, P) = lap
      /\ \A n \in Slots : Fills(s + 1, n, P) = IF n = k THEN lap + 1 ELSE Fills(s, n, P)
      /\ \A n \in Slots : Fills(s, n, P) \in Nat
  <2>1. \A n \in Slots : Fills(s, n, P) \in Nat
    BY <1>1, SlotFills
  <2> QED BY <1>1, <2>1, SlotAt
<1>3. ScaleChain(c, k) /\ ScaleRing(c, k) /\ sf_empty[c][k] \in BarrierType
  BY <1>1, <1>2, ScaleChains DEF ScaleInv, ScaleTypes
<1>4. /\ SlotReads(w, k) = lap + 1 /\ sf_full[c][k].done = lap + 1 /\ sf_empty[c][k].done = lap
  <2>1. SlotReleases(w, l, k) = lap /\ SlotReads(w, k) = lap + 1
    BY <1>1, <1>2, <1>3 DEF ScaleChain
  <2>2. /\ SlotReleases(w, l, k) \in {sf_empty[c][k].done, sf_empty[c][k].done + 1}
        /\ SlotReads(w, k) <= sf_full[c][k].done
        /\ sf_empty[c][k].done \in Nat /\ sf_full[c][k].done \in Nat
        /\ sf_full[c][k].done <= sf_empty[c][k].done + 1
    BY <1>1, <1>3 DEF ScaleChain
  <2> QED BY <2>1, <2>2, <1>2
\* What the step changes, lane by lane.
<1>5. /\ \A v \in ConsumerWarps : held'[v] = IF v = w THEN held[w] \ {l} ELSE held[v]
      /\ \A v \in ConsumerWarps :
           sequence'[v] = IF v = w /\ held[w] = {l} THEN s + 1 ELSE sequence[v]
      /\ \A d \in CTAs, n \in Slots :
           sf_empty'[d][n] = IF d = c /\ n = k THEN Arrive(sf_empty[c][k]) ELSE sf_empty[d][n]
  BY <1>1, <1>2 DEF ScaleInv, ScaleTypes
<1>6. ASSUME NEW v \in ConsumerWarps, NEW n \in Slots
      PROVE  SlotReads(v, n)' = SlotReads(v, n)
  <2>1. CASE v # w
    BY <2>1, <1>5 DEF SlotReads
  <2>2. CASE v = w /\ held[w] # {l}
    <3>1. held'[w] # {} /\ held[w] # {} /\ sequence'[w] = s
      BY <2>2, <1>1, <1>5
    <3> QED BY <3>1, <2>2 DEF SlotReads
  <2>3. CASE v = w /\ held[w] = {l}
    <3>1. held'[w] = {} /\ held[w] # {} /\ sequence'[w] = s + 1
      BY <2>3, <1>1, <1>5
    <3>2. SlotReads(v, n)' = Fills(s + 1, n, P) + 0
      BY <3>1, <2>3 DEF SlotReads, Bit
    <3>3. SlotReads(v, n) = Fills(s, n, P) + (IF k = n THEN 1 ELSE 0)
      BY <3>1, <2>3 DEF SlotReads, Bit
    <3> QED BY <3>2, <3>3, <1>2
  <2> QED BY <2>1, <2>2, <2>3
<1>7. ASSUME NEW v \in ConsumerWarps, NEW m \in Lanes, NEW n \in Slots
      PROVE  SlotReleases(v, m, n)' =
               IF v = w /\ m = l /\ n = k THEN lap + 1 ELSE SlotReleases(v, m, n)
  <2>1. CASE v # w
    BY <2>1, <1>5 DEF SlotReleases
  <2>2. CASE v = w /\ held[w] # {l}
    <3>1. held'[w] # {} /\ held[w] # {} /\ sequence'[w] = s /\ held'[w] = held[w] \ {l}
      BY <2>2, <1>1, <1>5
    <3>2. SlotReleases(v, m, n)' =
            Fills(s, n, P) + (IF (m \notin held[w] \/ m = l) /\ k = n THEN 1 ELSE 0)
      BY <3>1, <2>2 DEF SlotReleases, Bit
    <3>3. SlotReleases(v, m, n) = Fills(s, n, P) + (IF m \notin held[w] /\ k = n THEN 1 ELSE 0)
      BY <3>1, <2>2 DEF SlotReleases, Bit
    <3> QED BY <3>2, <3>3, <2>2, <1>1, <1>2
  <2>3. CASE v = w /\ held[w] = {l}
    <3>1. held'[w] = {} /\ held[w] # {} /\ sequence'[w] = s + 1
      BY <2>3, <1>1, <1>5
    <3>2. SlotReleases(v, m, n)' = Fills(s + 1, n, P) + 0
      BY <3>1, <2>3 DEF SlotReleases, Bit
    <3>3. SlotReleases(v, m, n) = Fills(s, n, P) + (IF m # l /\ k = n THEN 1 ELSE 0)
      BY <3>1, <2>3 DEF SlotReleases, Bit
    <3> QED BY <3>2, <3>3, <2>3, <1>2
  <2> QED BY <2>1, <2>2, <2>3
<1> DEFINE S == WarpsOf(c) \X Lanes
           r == [t \in S |-> SlotReleases(t[1], t[2], k)]
           q == [t \in S |-> SlotReleases(t[1], t[2], k)']
<1>8. /\ Arrive(sf_empty[c][k]) \in BarrierType
      /\ Counted(Arrive(sf_empty[c][k]), S, q)
      /\ Arrive(sf_empty[c][k]).done \in {lap, lap + 1}
  <2>1. Counted(sf_empty[c][k], S, r)
    BY <1>3 DEF ScaleRing
  <2>2. <<w, l>> \in S
    BY <1>1
  <2>3. r[<<w, l>>] = sf_empty[c][k].done /\ q[<<w, l>>] = sf_empty[c][k].done + 1
    <3>1. SlotReleases(w, l, k) = lap
      BY <1>1, <1>2, <1>3 DEF ScaleChain
    <3>2. SlotReleases(w, l, k)' = lap + 1
      BY <1>2, <1>7
    <3> QED BY <3>1, <3>2, <2>2, <1>4
  <2>4. ASSUME NEW t \in S \ {<<w, l>>} PROVE q[t] = r[t]
    <3>1. PICK v \in WarpsOf(c), m \in Lanes : t = <<v, m>>
      OBVIOUS
    <3>2. v \in ConsumerWarps /\ ~(v = w /\ m = l)
      BY <3>1, <1>1, Threads
    <3>3. SlotReleases(v, m, k)' = SlotReleases(v, m, k)
      BY <3>2, <1>2, <1>7
    <3> QED BY <3>1, <3>3
  <2>5. IsFiniteSet(S)
    BY <1>1, Threads
  <2> HIDE DEF S, r, q
  <2>6. /\ Arrive(sf_empty[c][k]) \in BarrierType
        /\ Counted(Arrive(sf_empty[c][k]), S, q)
        /\ Arrive(sf_empty[c][k]).done \in {sf_empty[c][k].done, sf_empty[c][k].done + 1}
    BY <2>1, <2>2, <2>3, <2>4, <2>5, <1>3, CountedArrive
  <2> QED BY <2>6, <1>4
<1>9. ScaleTypes'
  <2>1. sf_empty' \in [CTAs -> [Slots -> BarrierType]]
    BY <1>1, <1>2, <1>8 DEF ScaleInv, ScaleTypes
  <2> QED BY <2>1, <1>1 DEF ScaleInv, ScaleTypes
<1>10. ASSUME NEW d \in CTAs, NEW n \in Slots PROVE ScaleRing(d, n)'
  <2>1. ScaleRing(d, n) /\ ScaleChain(d, n)
    BY ScaleChains DEF ScaleInv
  <2>2. Counted(sf_full[d][n], ScaleLanes, [m \in ScaleLanes |-> Fills(sf[d][m], n, P)])'
    BY <2>1, <1>1 DEF ScaleRing, Counted, Settled
  <2>3. Counted(sf_empty[d][n], WarpsOf(d) \X Lanes,
                [t \in WarpsOf(d) \X Lanes |-> SlotReleases(t[1], t[2], n)])'
    <3>1. CASE d = c /\ n = k
      BY <3>1, <1>5, <1>8
    <3>2. CASE ~(d = c /\ n = k)
      <4>1. sf_empty'[d][n] = sf_empty[d][n]
        BY <3>2, <1>5
      <4>2. ASSUME NEW t \in WarpsOf(d) \X Lanes
            PROVE  SlotReleases(t[1], t[2], n)' = SlotReleases(t[1], t[2], n)
        <5>1. t[1] \in ConsumerWarps /\ t[2] \in Lanes /\ Cta(t[1]) = d
          BY Threads
        <5>2. ~(t[1] = w /\ n = k)
          BY <5>1, <3>2
        <5> QED BY <5>1, <5>2, <1>7
      <4>3. [t \in WarpsOf(d) \X Lanes |-> SlotReleases(t[1], t[2], n)']
              = [t \in WarpsOf(d) \X Lanes |-> SlotReleases(t[1], t[2], n)]
        BY <4>2
      <4> QED BY <4>1, <4>3, <2>1 DEF ScaleRing
    <3> QED BY <3>1, <3>2
  <2>4. sf_empty'[d][n].done >= sf_empty[d][n].done /\ sf_empty'[d][n].done \in Nat
        /\ sf_empty[d][n].done \in Nat
    <3>1. sf_empty[d][n].done \in Nat
      BY <2>1 DEF ScaleChain
    <3> QED BY <3>1, <1>2, <1>4, <1>5, <1>8
  <2>5. ASSUME NEW m \in ScaleLanes
        PROVE  /\ ScaleWrites(d, m, n)' <= sf_empty'[d][n].done + 1
               /\ (ScaleWrites(d, m, n)' = Fills(sf'[d][m], n, P) /\ ScaleWrites(d, m, n)' > 0) =>
                    scale'[d][n][m] = (ScaleWrites(d, m, n)' - 1) * P + n
    <3>1. ScaleWrites(d, m, n)' = ScaleWrites(d, m, n)
      BY <1>1 DEF ScaleWrites
    <3>2. ScaleWrites(d, m, n) <= sf_empty[d][n].done + 1 /\ ScaleWrites(d, m, n) \in Int
      BY <2>1, <2>4 DEF ScaleChain
    <3>3. ScaleWrites(d, m, n)' <= sf_empty'[d][n].done + 1
      BY <3>1, <3>2, <2>4
    <3> QED BY <3>1, <3>3, <2>1, <1>1 DEF ScaleRing
  <2>6. ASSUME NEW v \in WarpsOf(d) PROVE SlotReads(v, n)' <= sf_full'[d][n].done
    <3>1. SlotReads(v, n)' = SlotReads(v, n) /\ sf_full' = sf_full
      BY <1>1, <1>6, Threads
    <3> QED BY <3>1, <2>1 DEF ScaleRing
  <2> QED BY <2>2, <2>3, <2>5, <2>6 DEF ScaleRing
<1> QED BY <1>9, <1>10 DEF ScaleInv

LEMMA ScaleUnchanged ==
  ASSUME ScaleInv, UNCHANGED <<sf_full, sf_empty, scale, sf, copying, sequence, held>>
  PROVE  ScaleInv'
<1>1. ScaleTypes'
  BY DEF ScaleInv, ScaleTypes
<1>2. ASSUME NEW c \in CTAs, NEW k \in Slots PROVE ScaleRing(c, k)'
  <2>1. ScaleRing(c, k)
    BY DEF ScaleInv
  <2>2. Counted(sf_full[c][k], ScaleLanes, [m \in ScaleLanes |-> Fills(sf[c][m], k, P)])'
    BY <2>1 DEF ScaleRing, Counted, Settled
  <2>3. Counted(sf_empty[c][k], WarpsOf(c) \X Lanes,
                [t \in WarpsOf(c) \X Lanes |-> SlotReleases(t[1], t[2], k)])'
    BY <2>1 DEF ScaleRing, Counted, Settled, SlotReleases
  <2>4. \A l \in ScaleLanes : ScaleWrites(c, l, k)' = ScaleWrites(c, l, k)
    BY DEF ScaleWrites
  <2>5. \A w \in WarpsOf(c) : SlotReads(w, k)' = SlotReads(w, k)
    BY DEF SlotReads
  <2> QED BY <2>1, <2>2, <2>3, <2>4, <2>5 DEF ScaleRing
<1> QED BY <1>1, <1>2 DEF ScaleInv

\* A new barrier on which nobody has arrived.
LEMMA CountedNew ==
  ASSUME NEW S, IsFiniteSet(S), S # {}, NEW r, \A x \in S : r[x] = 0
  PROVE  /\ NewBarrier(Cardinality(S)) \in BarrierType
         /\ NewBarrier(Cardinality(S)).done = 0
         /\ Counted(NewBarrier(Cardinality(S)), S, r)
<1>1. Cardinality(S) \in Nat /\ Cardinality(S) # 0
  BY FS_CardinalityType, FS_EmptySet
<1>2. {x \in S : r[x] = 0} = S
  OBVIOUS
<1>3. /\ NewBarrier(Cardinality(S)).done = 0 /\ NewBarrier(Cardinality(S)).tx = 0
      /\ NewBarrier(Cardinality(S)).left = Cardinality(S)
      /\ NewBarrier(Cardinality(S)).count = Cardinality(S)
  BY DEF NewBarrier, Barrier
<1>4. Counted(NewBarrier(Cardinality(S)), S, r)
  BY <1>1, <1>2, <1>3 DEF Counted, Settled
<1> QED BY <1>1, <1>3, <1>4 DEF NewBarrier, Barrier, BarrierType

LEMMA ScaleInit ==
  ASSUME Init
  PROVE  ScaleInv
<1>1. /\ sf_full = [c \in CTAs |-> [k \in Slots |-> NewBarrier(Cardinality(ScaleLanes))]]
      /\ sf_empty = [c \in CTAs |-> [k \in Slots |-> NewBarrier(Cardinality(WarpsOf(c) \X Lanes))]]
      /\ scale = [c \in CTAs |-> [k \in Slots |-> [l \in ScaleLanes |-> Garbage]]]
      /\ sf = [c \in CTAs |-> [l \in ScaleLanes |-> 0]]
      /\ copying = [c \in CTAs |-> {}]
      /\ sequence = [w \in ConsumerWarps |-> 0]
      /\ held = [w \in ConsumerWarps |-> {}]
  BY DEF Init, SfFullArrivals, SfEmptyArrivals
<1>2. ASSUME NEW c \in CTAs, NEW k \in Slots
      PROVE  /\ \A l \in ScaleLanes : Fills(sf[c][l], k, P) = 0 /\ ScaleWrites(c, l, k) = 0
             /\ \A w \in WarpsOf(c) : SlotReads(w, k) = 0
             /\ \A w \in WarpsOf(c), l \in Lanes : SlotReleases(w, l, k) = 0
  <2>1. Fills(0, k, P) = 0
    BY SlotFills
  <2>2. \A l \in ScaleLanes : sf[c][l] = 0 /\ l \notin copying[c]
    BY <1>1
  <2>3. \A w \in WarpsOf(c) : sequence[w] = 0 /\ held[w] = {}
    BY <1>1, Threads
  <2> QED BY <2>1, <2>2, <2>3 DEF ScaleWrites, SlotReads, SlotReleases, Bit
<1>3. ASSUME NEW c \in CTAs, NEW k \in Slots
      PROVE  /\ sf_full[c][k] \in BarrierType /\ sf_full[c][k].done = 0
             /\ Counted(sf_full[c][k], ScaleLanes, [l \in ScaleLanes |-> Fills(sf[c][l], k, P)])
  <2> DEFINE r == [l \in ScaleLanes |-> Fills(sf[c][l], k, P)]
  <2>1. IsFiniteSet(ScaleLanes) /\ ScaleLanes # {}
    BY Threads
  <2>2. \A l \in ScaleLanes : r[l] = 0
    BY <1>2
  <2>3. sf_full[c][k] = NewBarrier(Cardinality(ScaleLanes))
    BY <1>1
  <2> HIDE DEF r
  <2>4. /\ sf_full[c][k] \in BarrierType /\ sf_full[c][k].done = 0
        /\ Counted(sf_full[c][k], ScaleLanes, r)
    BY <2>1, <2>2, <2>3, CountedNew
  <2> QED BY <2>4 DEF r
<1>4. ASSUME NEW c \in CTAs, NEW k \in Slots
      PROVE  /\ sf_empty[c][k] \in BarrierType /\ sf_empty[c][k].done = 0
             /\ Counted(sf_empty[c][k], WarpsOf(c) \X Lanes,
                        [t \in WarpsOf(c) \X Lanes |-> SlotReleases(t[1], t[2], k)])
  <2> DEFINE S == WarpsOf(c) \X Lanes
             r == [t \in S |-> SlotReleases(t[1], t[2], k)]
  <2>1. IsFiniteSet(S) /\ S # {}
    <3>1. Lane0 \in Lanes /\ IsFiniteSet(S)
      BY Threads
    <3>2. PICK w \in WarpsOf(c) : TRUE
      BY Threads
    <3>3. <<w, Lane0>> \in S
      BY <3>1, <3>2
    <3> QED BY <3>1, <3>3
  <2>2. ASSUME NEW t \in S PROVE r[t] = 0
    <3>1. PICK w \in WarpsOf(c), l \in Lanes : t = <<w, l>>
      OBVIOUS
    <3> QED BY <3>1, <1>2
  <2>3. sf_empty[c][k] = NewBarrier(Cardinality(S))
    BY <1>1
  <2> HIDE DEF S, r
  <2>4. /\ sf_empty[c][k] \in BarrierType /\ sf_empty[c][k].done = 0
        /\ Counted(sf_empty[c][k], S, r)
    BY <2>1, <2>2, <2>3, CountedNew
  <2> QED BY <2>4 DEF S, r
<1>5. ScaleTypes
  <2>1. sf_full \in [CTAs -> [Slots -> BarrierType]] /\ sf_empty \in [CTAs -> [Slots -> BarrierType]]
    BY <1>1, <1>3, <1>4
  <2>2. 0 \in 0 .. Steps
    BY Sizes
  <2> QED BY <1>1, <2>1, <2>2 DEF ScaleTypes
<1>6. ASSUME NEW c \in CTAs, NEW k \in Slots PROVE ScaleRing(c, k)
  <2>3. sf_full[c][k].done = 0 /\ sf_empty[c][k].done = 0
    BY <1>3, <1>4
  <2>1. ASSUME NEW l \in ScaleLanes
        PROVE  /\ ScaleWrites(c, l, k) <= sf_empty[c][k].done + 1
               /\ ~(ScaleWrites(c, l, k) > 0)
    <3>1. ScaleWrites(c, l, k) = 0
      BY <1>2
    <3> QED BY <2>3, <3>1
  <2>2. ASSUME NEW w \in WarpsOf(c) PROVE SlotReads(w, k) <= sf_full[c][k].done
    <3>1. SlotReads(w, k) = 0
      BY <1>2
    <3> QED BY <2>3, <3>1
  <2> QED BY <2>1, <2>2, <1>3, <1>4 DEF ScaleRing
<1> QED BY <1>5, <1>6 DEF ScaleInv

LEMMA ScaleNext ==
  ASSUME ScaleInv, ConsumerTypes, [Next]_vars
  PROVE  ScaleInv'
<1>1. CASE \E c \in CTAs : TmaIssue(c)
  BY <1>1, ScaleUnchanged DEF TmaIssue, consumers
<1>2. CASE \E c \in CTAs, k \in Slots : TmaLand(c, k)
  BY <1>2, ScaleUnchanged DEF TmaLand, consumers, producers
<1>3. CASE \E c \in CTAs, l \in ScaleLanes : ScaleIssue(c, l)
  BY <1>3, ScaleIssueScale
<1>4. CASE \E c \in CTAs, l \in ScaleLanes : ScalePublish(c, l)
  BY <1>4, ScalePublishScale
<1>5. CASE MmaIssue \/ MmaRetire
  BY <1>5, ScaleUnchanged DEF MmaIssue, MmaRetire, consumers, producers, barriers
<1>6. CASE \E c \in CTAs, k \in Slots : CommitEmpty(c, k)
  BY <1>6, ScaleUnchanged DEF CommitEmpty, consumers, producers
<1>7. CASE \E c \in CTAs, j \in Stages : CommitFull(c, j)
  BY <1>7, ScaleUnchanged DEF CommitFull, consumers, producers
<1>8. CASE \E w \in ConsumerWarps : ConsumerRead(w)
  BY <1>8, ConsumerReadScale
<1>9. CASE \E w \in ConsumerWarps, l \in Lanes : ConsumerRelease(w, l)
  BY <1>9, ConsumerReleaseScale
<1>10. CASE \E w \in ConsumerWarps : WriteExchange(w) \/ StoreRows(w)
  BY <1>10, ScaleUnchanged DEF WriteExchange, StoreRows, consumers, producers, barriers
<1>11. CASE \E c \in CTAs, p \in Parts : SyncWritten(c, p) \/ SyncStored(c, p)
  BY <1>11, ScaleUnchanged DEF SyncWritten, SyncStored, consumers, producers, barriers
<1>12. CASE FreeTmem \/ UNCHANGED vars
  BY <1>12, ScaleUnchanged DEF FreeTmem, vars, consumers, producers, barriers
<1> QED BY <1>1, <1>2, <1>3, <1>4, <1>5, <1>6, <1>7, <1>8, <1>9, <1>10, <1>11, <1>12
        DEF Next, Terminated

-----------------------------------------------------------------------------
(* The TMEM ring.                                                          *)

\* Laps of the TMEM ring, seen from one CTA: released <= committed <=
\* retired <= issued <= released + 1, and each warp is in between.
StageChain(c, j) ==
  /\ acc_empty[j].done \in Nat /\ acc_full[c][j].done \in Nat
  /\ Fills(retired, j, 2) \in Nat /\ Fills(mma, j, 2) \in Nat
  /\ acc_empty[j].done <= acc_full[c][j].done
  /\ acc_full[c][j].done <= Fills(retired, j, 2)
  /\ Fills(retired, j, 2) <= Fills(mma, j, 2)
  /\ Fills(mma, j, 2) <= acc_empty[j].done + 1
  /\ \A w \in WarpsOf(c) :
       /\ Fills(sequence[w], j, 2) \in Nat
       /\ StageReads(w, j) = IF held[w] # {} /\ Stage(sequence[w]) = j
                               THEN Fills(sequence[w], j, 2) + 1
                               ELSE Fills(sequence[w], j, 2)
       /\ StageReads(w, j) <= acc_full[c][j].done
       /\ StageReleases(w, j) =
            IF held[w] # {} /\ Lane0 \notin held[w] /\ Stage(sequence[w]) = j
              THEN Fills(sequence[w], j, 2) + 1
              ELSE Fills(sequence[w], j, 2)
       /\ StageReleases(w, j) \in {acc_empty[j].done, acc_empty[j].done + 1}

LEMMA StageChains ==
  ASSUME OperandInv, StageInv, ConsumerTypes, NEW c \in CTAs, NEW j \in Stages
  PROVE  StageChain(c, j)
<1>1. /\ StageRing(j)
      /\ acc_full[c][j] \in BarrierType /\ acc_empty[j] \in BarrierType
      /\ owed_full[c][j] \in Nat
  BY DEF StageInv, StageTypes
<1>2. mma \in Nat /\ retired \in Nat /\ retired <= mma
  BY Sizes DEF OperandInv, OperandTypes
<1>3. \A w \in WarpsOf(c) : sequence[w] \in Nat
  BY Sizes DEF ConsumerTypes, WarpsOf
<1>4. acc_empty[j].done \in Nat /\ acc_full[c][j].done \in Nat
  BY <1>1 DEF BarrierType
<1>5. /\ Fills(retired, j, 2) \in Nat /\ Fills(mma, j, 2) \in Nat
      /\ Fills(retired, j, 2) <= Fills(mma, j, 2)
  BY <1>2, StageFills
<1>6. Fills(mma, j, 2) <= acc_empty[j].done + 1
  BY <1>1 DEF StageRing
<1>7. acc_full[c][j].done <= Fills(retired, j, 2)
  <2>1. owed_full[c][j] = Fills(retired, j, 2) - acc_full[c][j].done
    BY <1>1 DEF StageRing
  <2> QED BY <2>1, <1>1, <1>4, <1>5
<1>8. ASSUME NEW w \in WarpsOf(c)
      PROVE  /\ Fills(sequence[w], j, 2) \in Nat
             /\ StageReads(w, j) = IF held[w] # {} /\ Stage(sequence[w]) = j
                                     THEN Fills(sequence[w], j, 2) + 1
                                     ELSE Fills(sequence[w], j, 2)
             /\ StageReads(w, j) <= acc_full[c][j].done
             /\ StageReleases(w, j) =
                  IF held[w] # {} /\ Lane0 \notin held[w] /\ Stage(sequence[w]) = j
                    THEN Fills(sequence[w], j, 2) + 1
                    ELSE Fills(sequence[w], j, 2)
             /\ StageReleases(w, j) \in {acc_empty[j].done, acc_empty[j].done + 1}
  <2>1. Fills(sequence[w], j, 2) \in Nat
    BY <1>3, StageFills
  <2>2. StageReads(w, j) = IF held[w] # {} /\ Stage(sequence[w]) = j
                             THEN Fills(sequence[w], j, 2) + 1
                             ELSE Fills(sequence[w], j, 2)
    BY <2>1 DEF StageReads, Bit
  <2>3. StageReads(w, j) <= acc_full[c][j].done
    BY <1>1 DEF StageRing
  <2>4. StageReleases(w, j) =
          IF held[w] # {} /\ Lane0 \notin held[w] /\ Stage(sequence[w]) = j
            THEN Fills(sequence[w], j, 2) + 1
            ELSE Fills(sequence[w], j, 2)
    BY <2>1 DEF StageReleases, Bit
  <2> DEFINE r == [v \in ConsumerWarps |-> StageReleases(v, j)]
  <2>5. r[w] \in {acc_empty[j].done, acc_empty[j].done + 1} /\ w \in ConsumerWarps
    BY <1>1, Threads DEF StageRing, Counted
  <2>6. r[w] = StageReleases(w, j)
    BY <2>5
  <2> QED BY <2>1, <2>2, <2>3, <2>4, <2>5, <2>6
<1>9. acc_empty[j].done <= acc_full[c][j].done
  <2>1. PICK w \in WarpsOf(c) : TRUE
    BY Threads
  <2> QED BY <2>1, <1>4, <1>8
<1> QED BY <1>4, <1>5, <1>6, <1>7, <1>8, <1>9 DEF StageChain

\* Until lane 0 of a warp releases the stage, it holds the warp's sequence.
LEMMA StageHeld ==
  ASSUME OperandInv, StageInv, ConsumerTypes, NEW w \in ConsumerWarps, Lane0 \in held[w]
  PROVE  tmem[Cta(w)][Stage(sequence[w])] = sequence[w]
<1> SUFFICES ASSUME NEW s, s = sequence[w], NEW j, j = Stage(s), NEW c, c = Cta(w),
                    NEW lap, lap = s \div 2
             PROVE  tmem[c][j] = s
  OBVIOUS
<1>1. c \in CTAs /\ w \in WarpsOf(c) /\ s \in Nat
  BY Threads, Sizes DEF ConsumerTypes
<1>2. j \in Stages /\ lap \in Nat /\ s = lap * 2 + j /\ Fills(s, j, 2) = lap
  BY <1>1, StageAt
<1>3. StageChain(c, j)
  BY <1>1, <1>2, StageChains
<1>4. StageReads(w, j) = lap + 1 /\ StageReleases(w, j) = lap
  BY <1>1, <1>2, <1>3 DEF StageChain
<1>5. Fills(retired, j, 2) = lap + 1 /\ Fills(mma, j, 2) = lap + 1
  <2>1. /\ StageReads(w, j) <= acc_full[c][j].done
        /\ StageReleases(w, j) \in {acc_empty[j].done, acc_empty[j].done + 1}
    BY <1>1, <1>3 DEF StageChain
  <2>2. /\ acc_empty[j].done \in Nat /\ acc_full[c][j].done \in Nat
        /\ Fills(retired, j, 2) \in Nat /\ Fills(mma, j, 2) \in Nat
        /\ acc_full[c][j].done <= Fills(retired, j, 2)
        /\ Fills(retired, j, 2) <= Fills(mma, j, 2)
        /\ Fills(mma, j, 2) <= acc_empty[j].done + 1
    BY <1>3 DEF StageChain
  <2> QED BY <2>1, <2>2, <1>2, <1>4
<1>6. StageRing(j)
  BY <1>2 DEF StageInv
<1>7. tmem[c][j] = (Fills(mma, j, 2) - 1) * 2 + j
  BY <1>1, <1>2, <1>5, <1>6 DEF StageRing
<1> QED BY <1>2, <1>5, <1>7

LEMMA MmaIssueStage ==
  ASSUME OperandInv, StageInv, ConsumerTypes, MmaIssue
  PROVE  StageInv'
<1> SUFFICES ASSUME NEW s, s = mma, NEW j, j = Stage(s), NEW lap, lap = s \div 2
             PROVE  StageInv'
  OBVIOUS
<1>1. /\ s \in Nat /\ s + 1 \in Nat /\ retired \in Nat /\ retired <= s /\ mma' = s + 1
      /\ UNCHANGED <<acc_full, acc_empty, owed_full, retired, sequence, held>>
      /\ tmem' = [c \in CTAs |-> [tmem[c] EXCEPT ![j] = Garbage]]
      /\ s >= 2 => Passes(acc_empty[j], (lap - 1) % 2)
  BY Sizes DEF MmaIssue, StageFree, LastLap, OperandInv, OperandTypes, barriers, consumers
<1>2. /\ j \in Stages /\ lap \in Nat /\ Fills(s, j, 2) = lap /\ (s < 2 => lap = 0)
      /\ \A i \in Stages : Fills(s + 1, i, 2) = IF i = j THEN lap + 1 ELSE Fills(s, i, 2)
  BY <1>1, StageAt
<1>3. acc_empty[j].done = lap /\ Fills(retired, j, 2) <= lap /\ Fills(retired, j, 2) \in Nat
  <2>1. StageChain(0, j)
    BY <1>2, StageChains DEF CTAs
  <2>2. /\ acc_empty[j].done \in Nat /\ acc_empty[j].done <= lap
        /\ lap <= acc_empty[j].done + 1
        /\ Fills(retired, j, 2) <= lap /\ Fills(retired, j, 2) \in Nat
    BY <2>1, <1>1, <1>2 DEF StageChain
  <2>3. CASE s >= 2
    <3>1. acc_empty[j].done \in {lap - 1, lap - 1 + 1}
      BY <2>2, <1>2
    <3>2. acc_empty[j].done = lap - 1 + 1
      BY <2>3, <3>1, <1>1, <1>2, ParityWait
    <3> QED BY <3>2, <2>2, <1>2
  <2>4. CASE s < 2
    BY <2>2, <2>4, <1>2
  <2> QED BY <2>3, <2>4, <1>1
<1>4. \A c \in CTAs, i \in Stages : i # j => tmem'[c][i] = tmem[c][i]
  BY <1>1 DEF StageInv, StageTypes
<1>5. StageTypes'
  <2>1. tmem' \in [CTAs -> [Stages -> Nat \cup {Garbage}]]
    BY <1>1 DEF StageInv, StageTypes
  <2> QED BY <2>1, <1>1 DEF StageInv, StageTypes
<1>6. ASSUME NEW i \in Stages PROVE StageRing(i)'
  <2>1. StageRing(i)
    BY DEF StageInv
  <2>2. Counted(acc_empty[i], ConsumerWarps,
                [w \in ConsumerWarps |-> StageReleases(w, i)])'
    BY <2>1, <1>1 DEF StageRing, Counted, Settled, StageReleases
  <2>3. Fills(mma', i, 2) <= acc_empty'[i].done + 1
    BY <2>1, <1>1, <1>2, <1>3 DEF StageRing
  <2>4. ASSUME NEW c \in CTAs
        PROVE  (Fills(retired', i, 2) = Fills(mma', i, 2) /\ Fills(mma', i, 2) > 0) =>
                 tmem'[c][i] = (Fills(mma', i, 2) - 1) * 2 + i
    BY <2>1, <1>1, <1>2, <1>3, <1>4 DEF StageRing
  <2>5. ASSUME NEW c \in CTAs, NEW w \in WarpsOf(c)
        PROVE  StageReads(w, i)' <= acc_full'[c][i].done
    BY <2>1, <1>1 DEF StageRing, StageReads
  <2>6. ASSUME NEW c \in CTAs
        PROVE  /\ Settled(acc_full[c][i], 1)' /\ acc_full'[c][i].left = 1
               /\ owed_full'[c][i] = Fills(retired', i, 2) - acc_full'[c][i].done
    BY <2>1, <1>1 DEF StageRing, Settled
  <2> QED BY <2>2, <2>3, <2>4, <2>5, <2>6 DEF StageRing
<1> QED BY <1>5, <1>6 DEF StageInv

LEMMA MmaRetireStage ==
  ASSUME OperandInv, StageInv, ConsumerTypes, MmaRetire
  PROVE  StageInv'
<1> SUFFICES ASSUME NEW s, s = retired, NEW j, j = Stage(s), NEW lap, lap = s \div 2
             PROVE  StageInv'
  OBVIOUS
<1>1. /\ s \in Nat /\ s + 1 \in Nat /\ mma \in Nat /\ s + 1 <= mma /\ retired' = s + 1
      /\ UNCHANGED <<acc_full, acc_empty, mma, sequence, held>>
      /\ tmem' = [c \in CTAs |-> [tmem[c] EXCEPT ![j] = Product(Slot(s))]]
      /\ owed_full' = [c \in CTAs |-> [owed_full[c] EXCEPT ![j] = @ + 1]]
  BY Sizes DEF MmaRetire, OperandInv, OperandTypes, barriers, consumers
<1>2. /\ j \in Stages /\ lap \in Nat /\ Fills(s, j, 2) = lap /\ s = lap * 2 + j
      /\ \A i \in Stages : Fills(s + 1, i, 2) = IF i = j THEN lap + 1 ELSE Fills(s, i, 2)
      /\ \A i \in Stages : Fills(s, i, 2) \in Nat
  <2>1. \A i \in Stages : Fills(s, i, 2) \in Nat
    BY <1>1, StageFills
  <2> QED BY <2>1, <1>1, StageAt
<1>3. Product(Slot(s)) = s
  <2>1. s \in retired .. mma - 1
    BY <1>1
  <2>2. /\ operand[0][Slot(s)] = [seq |-> s, landed |-> TRUE]
        /\ operand[1][Slot(s)] = [seq |-> s, landed |-> TRUE]
    BY <2>1, OperandInFlight DEF CTAs
  <2> QED BY <2>2 DEF Product
<1>4. /\ \A c \in CTAs, i \in Stages : tmem'[c][i] = IF i = j THEN s ELSE tmem[c][i]
      /\ \A c \in CTAs, i \in Stages :
           owed_full'[c][i] = IF i = j THEN owed_full[c][j] + 1 ELSE owed_full[c][i]
  BY <1>1, <1>2, <1>3 DEF StageInv, StageTypes
<1>5. StageTypes'
  <2>1. tmem' \in [CTAs -> [Stages -> Nat \cup {Garbage}]]
    BY <1>1, <1>3 DEF StageInv, StageTypes
  <2>2. owed_full' \in [CTAs -> [Stages -> Nat]]
    BY <1>1, <1>2 DEF StageInv, StageTypes
  <2> QED BY <2>1, <2>2, <1>1 DEF StageInv, StageTypes
<1>6. ASSUME NEW i \in Stages PROVE StageRing(i)'
  <2>1. StageRing(i)
    BY DEF StageInv
  <2>2. Counted(acc_empty[i], ConsumerWarps,
                [w \in ConsumerWarps |-> StageReleases(w, i)])'
    BY <2>1, <1>1 DEF StageRing, Counted, Settled, StageReleases
  <2>3. Fills(mma', i, 2) <= acc_empty'[i].done + 1
    BY <2>1, <1>1 DEF StageRing
  <2>4. ASSUME NEW c \in CTAs
        PROVE  (Fills(retired', i, 2) = Fills(mma', i, 2) /\ Fills(mma', i, 2) > 0) =>
                 tmem'[c][i] = (Fills(mma', i, 2) - 1) * 2 + i
    BY <2>1, <1>1, <1>2, <1>4 DEF StageRing
  <2>5. ASSUME NEW c \in CTAs, NEW w \in WarpsOf(c)
        PROVE  StageReads(w, i)' <= acc_full'[c][i].done
    BY <2>1, <1>1 DEF StageRing, StageReads
  <2>6. ASSUME NEW c \in CTAs
        PROVE  Settled(acc_full[c][i], 1)' /\ acc_full'[c][i].left = 1
    BY <2>1, <1>1 DEF StageRing, Settled
  <2>7. ASSUME NEW c \in CTAs
        PROVE  owed_full'[c][i] = Fills(retired', i, 2) - acc_full'[c][i].done
    <3>1. StageChain(c, i)
      BY StageChains
    <3>2. owed_full[c][i] = Fills(s, i, 2) - acc_full[c][i].done /\ acc_full[c][i].done \in Nat
      BY <2>1, <3>1 DEF StageRing, StageChain
    <3>3. acc_full' = acc_full /\ retired' = s + 1
      BY <1>1
    <3>4. CASE i = j
      BY <3>2, <3>3, <3>4, <1>2, <1>4
    <3>5. CASE i # j
      BY <3>2, <3>3, <3>5, <1>2, <1>4
    <3> QED BY <3>4, <3>5
  <2> QED BY <2>2, <2>3, <2>4, <2>5, <2>6, <2>7 DEF StageRing
<1> QED BY <1>5, <1>6 DEF StageInv

LEMMA CommitFullStage ==
  ASSUME OperandInv, StageInv, ConsumerTypes, NEW c \in CTAs, NEW j \in Stages, CommitFull(c, j)
  PROVE  StageInv'
<1>1. /\ UNCHANGED <<acc_empty, tmem, mma, retired, sequence, held>>
      /\ owed_full[c][j] > 0 /\ owed_full[c][j] \in Nat
      /\ owed_full' = [owed_full EXCEPT ![c][j] = @ - 1]
      /\ acc_full' = [acc_full EXCEPT ![c][j] = Arrive(@)]
  BY DEF CommitFull, consumers, StageInv, StageTypes
<1>2. /\ Arrive(acc_full[c][j]) \in BarrierType
      /\ Settled(Arrive(acc_full[c][j]), 1)
      /\ Arrive(acc_full[c][j]).left = 1
      /\ Arrive(acc_full[c][j]).done = acc_full[c][j].done + 1
  <2>1. acc_full[c][j] \in BarrierType /\ Settled(acc_full[c][j], 1) /\ acc_full[c][j].left = 1
    BY DEF StageInv, StageTypes, StageRing
  <2> QED BY <2>1, SingleArrive
<1>3. \A d \in CTAs, i \in Stages :
        /\ acc_full'[d][i] = IF d = c /\ i = j THEN Arrive(acc_full[c][j]) ELSE acc_full[d][i]
        /\ owed_full'[d][i] = IF d = c /\ i = j THEN owed_full[c][j] - 1 ELSE owed_full[d][i]
  BY <1>1 DEF StageInv, StageTypes
<1>4. StageTypes'
  <2>1. acc_full' \in [CTAs -> [Stages -> BarrierType]]
    BY <1>1, <1>2 DEF StageInv, StageTypes
  <2>2. owed_full' \in [CTAs -> [Stages -> Nat]]
    <3>1. owed_full[c][j] - 1 \in Nat
      BY <1>1
    <3> QED BY <3>1, <1>1 DEF StageInv, StageTypes
  <2> QED BY <2>1, <2>2, <1>1 DEF StageInv, StageTypes
<1>5. ASSUME NEW i \in Stages PROVE StageRing(i)'
  <2>1. StageRing(i)
    BY DEF StageInv
  <2>2. Counted(acc_empty[i], ConsumerWarps,
                [w \in ConsumerWarps |-> StageReleases(w, i)])'
    BY <2>1, <1>1 DEF StageRing, Counted, Settled, StageReleases
  <2>3. Fills(mma', i, 2) <= acc_empty'[i].done + 1
    BY <2>1, <1>1 DEF StageRing
  <2>4. ASSUME NEW d \in CTAs
        PROVE  (Fills(retired', i, 2) = Fills(mma', i, 2) /\ Fills(mma', i, 2) > 0) =>
                 tmem'[d][i] = (Fills(mma', i, 2) - 1) * 2 + i
    BY <2>1, <1>1 DEF StageRing
  <2>5. ASSUME NEW d \in CTAs
        PROVE  /\ Settled(acc_full[d][i], 1)' /\ acc_full'[d][i].left = 1
               /\ owed_full'[d][i] = Fills(retired', i, 2) - acc_full'[d][i].done
               /\ acc_full'[d][i].done >= acc_full[d][i].done
               /\ acc_full'[d][i].done \in Nat /\ acc_full[d][i].done \in Nat
    <3>1. /\ StageChain(d, i) /\ Settled(acc_full[d][i], 1) /\ acc_full[d][i].left = 1
          /\ owed_full[d][i] = Fills(retired, i, 2) - acc_full[d][i].done
      BY <2>1, StageChains DEF StageRing
    <3>2. acc_full[d][i].done \in Nat /\ Fills(retired, i, 2) \in Nat
      BY <3>1 DEF StageChain
    <3>3. CASE d = c /\ i = j
      <4>1. acc_full'[d][i] = Arrive(acc_full[c][j]) /\ owed_full'[d][i] = owed_full[c][j] - 1
        BY <3>3, <1>3
      <4>2. acc_full'[d][i].done = acc_full[d][i].done + 1
        BY <4>1, <3>3, <1>2
      <4>3. Settled(acc_full[d][i], 1)' /\ acc_full'[d][i].left = 1
        BY <4>1, <1>2 DEF Settled
      <4> QED BY <4>1, <4>2, <4>3, <3>1, <3>2, <3>3, <1>1
    <3>4. CASE ~(d = c /\ i = j)
      <4>1. acc_full'[d][i] = acc_full[d][i] /\ owed_full'[d][i] = owed_full[d][i]
        BY <3>4, <1>3
      <4> QED BY <4>1, <3>1, <3>2, <1>1 DEF Settled
    <3> QED BY <3>3, <3>4
  <2>6. ASSUME NEW d \in CTAs, NEW w \in WarpsOf(d)
        PROVE  StageReads(w, i)' <= acc_full'[d][i].done
    <3>1. StageReads(w, i)' = StageReads(w, i)
      BY <1>1 DEF StageReads
    <3>2. StageChain(d, i)
      BY StageChains
    <3>3. StageReads(w, i) \in Nat /\ StageReads(w, i) <= acc_full[d][i].done
      BY <3>2 DEF StageChain
    <3> QED BY <3>1, <3>3, <2>5
  <2> QED BY <2>2, <2>3, <2>4, <2>5, <2>6 DEF StageRing
<1> QED BY <1>4, <1>5 DEF StageInv

LEMMA ConsumerReadStage ==
  ASSUME OperandInv, StageInv, ConsumerTypes, NEW w \in ConsumerWarps, ConsumerRead(w)
  PROVE  StageInv'
<1> SUFFICES ASSUME NEW s, s = sequence[w], NEW j, j = Stage(s), NEW c, c = Cta(w),
                    NEW lap, lap = s \div 2
             PROVE  StageInv'
  OBVIOUS
<1>1. /\ s \in Nat /\ held[w] = {} /\ c \in CTAs /\ w \in WarpsOf(c)
      /\ UNCHANGED <<acc_full, acc_empty, tmem, owed_full, mma, retired, sequence>>
      /\ held' = [held EXCEPT ![w] = Lanes] /\ held \in [ConsumerWarps -> SUBSET Lanes]
      /\ Passes(acc_full[c][j], lap % 2)
  <2>1. s \in Nat /\ c \in CTAs /\ w \in WarpsOf(c)
    BY Sizes, Threads DEF ConsumerTypes
  <2> QED BY <2>1 DEF ConsumerRead, ThisLap, barriers, matrix, ConsumerTypes
<1>2. j \in Stages /\ lap \in Nat /\ Fills(s, j, 2) = lap
  BY <1>1, StageAt
<1>3. acc_full[c][j].done = lap + 1
  <2>1. StageChain(c, j)
    BY <1>1, <1>2, StageChains
  <2>2. /\ StageReleases(w, j) = lap /\ StageReads(w, j) = lap
        /\ StageReleases(w, j) \in {acc_empty[j].done, acc_empty[j].done + 1}
        /\ StageReads(w, j) <= acc_full[c][j].done
    BY <2>1, <1>1, <1>2 DEF StageChain
  <2>3. /\ acc_empty[j].done \in Nat /\ acc_full[c][j].done \in Nat
        /\ acc_full[c][j].done <= acc_empty[j].done + 1
    BY <2>1 DEF StageChain
  <2>4. acc_full[c][j].done \in {lap, lap + 1}
    BY <2>2, <2>3, <1>2
  <2> QED BY <2>4, <1>1, <1>2, ParityWait
<1>4. \A v \in ConsumerWarps : held'[v] = IF v = w THEN Lanes ELSE held[v]
  BY <1>1
<1>5. \A v \in ConsumerWarps, i \in Stages : StageReleases(v, i)' = StageReleases(v, i)
  BY <1>1, <1>4, Threads DEF StageReleases
<1>6. StageTypes'
  BY <1>1 DEF StageInv, StageTypes
<1>7. ASSUME NEW i \in Stages PROVE StageRing(i)'
  <2>1. StageRing(i)
    BY DEF StageInv
  <2>2. Counted(acc_empty[i], ConsumerWarps,
                [v \in ConsumerWarps |-> StageReleases(v, i)])'
    <3>1. [v \in ConsumerWarps |-> StageReleases(v, i)']
            = [v \in ConsumerWarps |-> StageReleases(v, i)]
      BY <1>5
    <3> QED BY <3>1, <2>1, <1>1 DEF StageRing
  <2>3. Fills(mma', i, 2) <= acc_empty'[i].done + 1
    BY <2>1, <1>1 DEF StageRing
  <2>4. ASSUME NEW d \in CTAs
        PROVE  /\ Settled(acc_full[d][i], 1)' /\ acc_full'[d][i].left = 1
               /\ owed_full'[d][i] = Fills(retired', i, 2) - acc_full'[d][i].done
               /\ (Fills(retired', i, 2) = Fills(mma', i, 2) /\ Fills(mma', i, 2) > 0) =>
                    tmem'[d][i] = (Fills(mma', i, 2) - 1) * 2 + i
    BY <2>1, <1>1 DEF StageRing, Settled
  <2>5. ASSUME NEW d \in CTAs, NEW v \in WarpsOf(d)
        PROVE  StageReads(v, i)' <= acc_full'[d][i].done
    <3>1. v \in ConsumerWarps /\ Cta(v) = d /\ StageReads(v, i) <= acc_full[d][i].done
      BY <2>1, Threads DEF StageRing
    <3>2. CASE v = w /\ i = j
      <4>1. StageReads(v, i)' = lap + 1
        BY <3>2, <1>1, <1>2, <1>4, Threads DEF StageReads, Bit
      <4>2. acc_full'[d][i].done = lap + 1
        BY <3>1, <3>2, <1>1, <1>3
      <4> QED BY <4>1, <4>2, <1>2
    <3>3. CASE ~(v = w /\ i = j)
      <4>1. StageReads(v, i)' = StageReads(v, i)
        BY <3>1, <3>3, <1>1, <1>4 DEF StageReads, Bit
      <4> QED BY <4>1, <3>1, <1>1
    <3> QED BY <3>2, <3>3
  <2> QED BY <2>2, <2>3, <2>4, <2>5 DEF StageRing
<1> QED BY <1>6, <1>7 DEF StageInv

LEMMA ConsumerReleaseStage ==
  ASSUME OperandInv, StageInv, ConsumerTypes, NEW w \in ConsumerWarps, NEW l \in Lanes,
         ConsumerRelease(w, l)
  PROVE  StageInv'
<1> SUFFICES ASSUME NEW s, s = sequence[w], NEW j, j = Stage(s), NEW c, c = Cta(w),
                    NEW lap, lap = s \div 2
             PROVE  StageInv'
  OBVIOUS
<1>1. /\ s \in Nat /\ s + 1 \in Nat /\ l \in held[w] /\ c \in CTAs /\ w \in WarpsOf(c)
      /\ UNCHANGED <<acc_full, tmem, owed_full, mma, retired>>
      /\ held' = [held EXCEPT ![w] = @ \ {l}] /\ held \in [ConsumerWarps -> SUBSET Lanes]
      /\ acc_empty' = IF l = Lane0 THEN [acc_empty EXCEPT ![j] = Arrive(@)] ELSE acc_empty
      /\ sequence' = IF held[w] = {l} THEN [sequence EXCEPT ![w] = s + 1] ELSE sequence
      /\ sequence \in [ConsumerWarps -> 0 .. Steps]
  <2>1. s \in Nat /\ c \in CTAs /\ w \in WarpsOf(c)
    BY Sizes, Threads DEF ConsumerTypes
  <2> QED BY <2>1 DEF ConsumerRelease, matrix, ConsumerTypes
<1>2. /\ j \in Stages /\ lap \in Nat /\ Fills(s, j, 2) = lap /\ Fills(s + 1, j, 2) = lap + 1
      /\ \A i \in Stages : i # j => Fills(s + 1, i, 2) = Fills(s, i, 2)
      /\ \A i \in Stages : Fills(s, i, 2) \in Nat
  <2>1. \A i \in Stages : Fills(s, i, 2) \in Nat
    BY <1>1, StageFills
  <2> QED BY <1>1, <2>1, StageAt
<1>3. /\ \A v \in ConsumerWarps : held'[v] = IF v = w THEN held[w] \ {l} ELSE held[v]
      /\ \A v \in ConsumerWarps :
           sequence'[v] = IF v = w /\ held[w] = {l} THEN s + 1 ELSE sequence[v]
      /\ \A i \in Stages :
           acc_empty'[i] = IF l = Lane0 /\ i = j THEN Arrive(acc_empty[j]) ELSE acc_empty[i]
  BY <1>1, <1>2 DEF StageInv, StageTypes
<1>4. ASSUME NEW v \in ConsumerWarps, NEW i \in Stages
      PROVE  StageReads(v, i)' = StageReads(v, i)
  <2>1. CASE v # w
    BY <2>1, <1>3 DEF StageReads
  <2>2. CASE v = w /\ held[w] # {l}
    <3>1. held'[w] # {} /\ held[w] # {} /\ sequence'[w] = s
      BY <2>2, <1>1, <1>3
    <3> QED BY <3>1, <2>2 DEF StageReads
  <2>3. CASE v = w /\ held[w] = {l}
    <3>1. held'[w] = {} /\ held[w] # {} /\ sequence'[w] = s + 1
      BY <2>3, <1>1, <1>3
    <3>2. StageReads(v, i)' = Fills(s + 1, i, 2) + 0
      BY <3>1, <2>3 DEF StageReads, Bit
    <3>3. StageReads(v, i) = Fills(s, i, 2) + (IF j = i THEN 1 ELSE 0)
      BY <3>1, <2>3 DEF StageReads, Bit
    <3> QED BY <3>2, <3>3, <1>2
  <2> QED BY <2>1, <2>2, <2>3
<1>5. ASSUME NEW v \in ConsumerWarps, NEW i \in Stages
      PROVE  StageReleases(v, i)' =
               IF v = w /\ l = Lane0 /\ i = j THEN lap + 1 ELSE StageReleases(v, i)
  <2>1. CASE v # w
    BY <2>1, <1>3 DEF StageReleases
  <2>2. CASE v = w /\ held[w] # {l}
    <3>1. held'[w] # {} /\ held[w] # {} /\ sequence'[w] = s /\ held'[w] = held[w] \ {l}
      BY <2>2, <1>1, <1>3
    <3>2. StageReleases(v, i)' =
            Fills(s, i, 2) + (IF (Lane0 \notin held[w] \/ Lane0 = l) /\ j = i THEN 1 ELSE 0)
      BY <3>1, <2>2 DEF StageReleases, Bit
    <3>3. StageReleases(v, i) = Fills(s, i, 2) + (IF Lane0 \notin held[w] /\ j = i THEN 1 ELSE 0)
      BY <3>1, <2>2 DEF StageReleases, Bit
    <3> QED BY <3>2, <3>3, <2>2, <1>1, <1>2
  <2>3. CASE v = w /\ held[w] = {l}
    <3>1. held'[w] = {} /\ held[w] # {} /\ sequence'[w] = s + 1
      BY <2>3, <1>1, <1>3
    <3>2. StageReleases(v, i)' = Fills(s + 1, i, 2) + 0
      BY <3>1, <2>3 DEF StageReleases, Bit
    <3>3. StageReleases(v, i) = Fills(s, i, 2) + (IF Lane0 # l /\ j = i THEN 1 ELSE 0)
      BY <3>1, <2>3 DEF StageReleases, Bit
    <3> QED BY <3>2, <3>3, <2>3, <1>2
  <2> QED BY <2>1, <2>2, <2>3
<1> DEFINE r == [v \in ConsumerWarps |-> StageReleases(v, j)]
           q == [v \in ConsumerWarps |-> StageReleases(v, j)']
<1>6. ASSUME l = Lane0
      PROVE  /\ Arrive(acc_empty[j]) \in BarrierType
             /\ Counted(Arrive(acc_empty[j]), ConsumerWarps, q)
             /\ Arrive(acc_empty[j]).done \in {lap, lap + 1} /\ acc_empty[j].done = lap
  <2>1. StageChain(c, j) /\ acc_empty[j] \in BarrierType
    BY <1>1, <1>2, StageChains DEF StageInv, StageTypes
  <2>2. StageReleases(w, j) = lap /\ StageReads(w, j) = lap + 1
    BY <2>1, <1>1, <1>2, <1>6 DEF StageChain
  <2>3. acc_empty[j].done = lap
    <3>1. /\ StageReleases(w, j) \in {acc_empty[j].done, acc_empty[j].done + 1}
          /\ StageReads(w, j) <= acc_full[c][j].done
          /\ acc_full[c][j].done <= acc_empty[j].done + 1
          /\ acc_empty[j].done \in Nat /\ acc_full[c][j].done \in Nat
      BY <2>1, <1>1 DEF StageChain
    <3> QED BY <3>1, <2>2, <1>2
  <2>4. Counted(acc_empty[j], ConsumerWarps, r)
    BY <1>2 DEF StageInv, StageRing
  <2>5. r[w] = acc_empty[j].done /\ q[w] = acc_empty[j].done + 1
    BY <2>2, <2>3, <1>2, <1>5, <1>6
  <2>6. \A v \in ConsumerWarps \ {w} : q[v] = r[v]
    BY <1>2, <1>5
  <2> HIDE DEF r, q
  <2>7. /\ Arrive(acc_empty[j]) \in BarrierType
        /\ Counted(Arrive(acc_empty[j]), ConsumerWarps, q)
        /\ Arrive(acc_empty[j]).done \in {acc_empty[j].done, acc_empty[j].done + 1}
    BY <2>1, <2>4, <2>5, <2>6, Threads, CountedArrive
  <2> QED BY <2>3, <2>7
<1>7. StageTypes'
  <2>1. acc_empty' \in [Stages -> BarrierType]
    BY <1>1, <1>2, <1>6 DEF StageInv, StageTypes
  <2> QED BY <2>1, <1>1 DEF StageInv, StageTypes
<1>8. ASSUME NEW i \in Stages PROVE StageRing(i)'
  <2>1. StageRing(i)
    BY DEF StageInv
  <2>2. Counted(acc_empty[i], ConsumerWarps,
                [v \in ConsumerWarps |-> StageReleases(v, i)])'
    <3>1. CASE l = Lane0 /\ i = j
      BY <3>1, <1>3, <1>6
    <3>2. CASE ~(l = Lane0 /\ i = j)
      <4>1. acc_empty'[i] = acc_empty[i]
        BY <3>2, <1>3
      <4>2. [v \in ConsumerWarps |-> StageReleases(v, i)']
              = [v \in ConsumerWarps |-> StageReleases(v, i)]
        BY <3>2, <1>5
      <4> QED BY <4>1, <4>2, <2>1 DEF StageRing
    <3> QED BY <3>1, <3>2
  <2>3. Fills(mma', i, 2) <= acc_empty'[i].done + 1
    <3>1. StageChain(0, i)
      BY StageChains DEF CTAs
    <3>2. /\ acc_empty[i].done \in Nat /\ Fills(mma, i, 2) \in Nat
          /\ Fills(mma, i, 2) <= acc_empty[i].done + 1
      BY <3>1 DEF StageChain
    <3>3. CASE l = Lane0 /\ i = j
      <4>1. acc_empty'[i].done \in {lap, lap + 1} /\ acc_empty[i].done = lap
        BY <3>3, <1>3, <1>6
      <4> QED BY <4>1, <3>2, <1>1, <1>2
    <3>4. CASE ~(l = Lane0 /\ i = j)
      BY <3>2, <3>4, <1>1, <1>3
    <3> QED BY <3>3, <3>4
  <2>4. ASSUME NEW d \in CTAs
        PROVE  /\ Settled(acc_full[d][i], 1)' /\ acc_full'[d][i].left = 1
               /\ owed_full'[d][i] = Fills(retired', i, 2) - acc_full'[d][i].done
               /\ (Fills(retired', i, 2) = Fills(mma', i, 2) /\ Fills(mma', i, 2) > 0) =>
                    tmem'[d][i] = (Fills(mma', i, 2) - 1) * 2 + i
    BY <2>1, <1>1 DEF StageRing, Settled
  <2>5. ASSUME NEW d \in CTAs, NEW v \in WarpsOf(d)
        PROVE  StageReads(v, i)' <= acc_full'[d][i].done
    <3>1. StageReads(v, i)' = StageReads(v, i) /\ acc_full' = acc_full
      BY <1>1, <1>4, Threads
    <3> QED BY <3>1, <2>1 DEF StageRing
  <2> QED BY <2>2, <2>3, <2>4, <2>5 DEF StageRing
<1> QED BY <1>7, <1>8 DEF StageInv

LEMMA StageUnchanged ==
  ASSUME StageInv,
         UNCHANGED <<acc_full, acc_empty, tmem, owed_full, mma, retired, sequence, held>>
  PROVE  StageInv'
<1>1. StageTypes'
  BY DEF StageInv, StageTypes
<1>2. ASSUME NEW j \in Stages PROVE StageRing(j)'
  <2>1. StageRing(j)
    BY DEF StageInv
  <2>2. Counted(acc_empty[j], ConsumerWarps,
                [w \in ConsumerWarps |-> StageReleases(w, j)])'
    BY <2>1 DEF StageRing, Counted, Settled, StageReleases
  <2>3. ASSUME NEW c \in CTAs, NEW w \in WarpsOf(c)
        PROVE  StageReads(w, j)' <= acc_full'[c][j].done
    BY <2>1 DEF StageRing, StageReads
  <2>4. ASSUME NEW c \in CTAs
        PROVE  /\ Settled(acc_full[c][j], 1)' /\ acc_full'[c][j].left = 1
               /\ owed_full'[c][j] = Fills(retired', j, 2) - acc_full'[c][j].done
               /\ (Fills(retired', j, 2) = Fills(mma', j, 2) /\ Fills(mma', j, 2) > 0) =>
                    tmem'[c][j] = (Fills(mma', j, 2) - 1) * 2 + j
    BY <2>1 DEF StageRing, Settled
  <2>5. Fills(mma', j, 2) <= acc_empty'[j].done + 1
    BY <2>1 DEF StageRing
  <2> QED BY <2>2, <2>3, <2>4, <2>5 DEF StageRing
<1> QED BY <1>1, <1>2 DEF StageInv

LEMMA StageInit ==
  ASSUME Init
  PROVE  StageInv
<1>1. /\ acc_full = [c \in CTAs |-> [j \in Stages |-> Barrier(1, 1, 0, 0)]]
      /\ acc_empty = [j \in Stages |-> NewBarrier(Cardinality(ConsumerWarps))]
      /\ tmem = [c \in CTAs |-> [j \in Stages |-> Garbage]]
      /\ owed_full = [c \in CTAs |-> [j \in Stages |-> 0]]
      /\ mma = 0 /\ retired = 0
      /\ sequence = [w \in ConsumerWarps |-> 0]
      /\ held = [w \in ConsumerWarps |-> {}]
  BY DEF Init, AccEmptyArrivals, NewBarrier
<1>2. ASSUME NEW j \in Stages
      PROVE  /\ Fills(0, j, 2) = 0
             /\ \A w \in ConsumerWarps : StageReleases(w, j) = 0 /\ StageReads(w, j) = 0
  <2>1. Fills(0, j, 2) = 0
    BY StageFills
  <2>2. \A w \in ConsumerWarps : sequence[w] = 0 /\ held[w] = {}
    BY <1>1
  <2> QED BY <2>1, <2>2 DEF StageReleases, StageReads, Bit
<1>3. ASSUME NEW j \in Stages
      PROVE  /\ acc_empty[j] \in BarrierType /\ acc_empty[j].done = 0
             /\ Counted(acc_empty[j], ConsumerWarps,
                        [w \in ConsumerWarps |-> StageReleases(w, j)])
  <2> DEFINE r == [w \in ConsumerWarps |-> StageReleases(w, j)]
  <2>1. IsFiniteSet(ConsumerWarps) /\ ConsumerWarps # {}
    <3>1. WarpsOf(0) # {} /\ WarpsOf(0) \subseteq ConsumerWarps
      BY Threads DEF CTAs
    <3> QED BY <3>1, Threads
  <2>2. \A w \in ConsumerWarps : r[w] = 0
    BY <1>2
  <2>3. acc_empty[j] = NewBarrier(Cardinality(ConsumerWarps))
    BY <1>1
  <2> HIDE DEF r
  <2>4. /\ acc_empty[j] \in BarrierType /\ acc_empty[j].done = 0
        /\ Counted(acc_empty[j], ConsumerWarps, r)
    BY <2>1, <2>2, <2>3, CountedNew
  <2> QED BY <2>4 DEF r
<1>4. ASSUME NEW c \in CTAs, NEW j \in Stages
      PROVE  /\ acc_full[c][j] \in BarrierType /\ acc_full[c][j].done = 0
             /\ Settled(acc_full[c][j], 1) /\ acc_full[c][j].left = 1
  <2>1. acc_full[c][j] = Barrier(1, 1, 0, 0)
    BY <1>1
  <2> QED BY <2>1 DEF Barrier, BarrierType, Settled
<1>5. StageTypes
  <2>1. acc_full \in [CTAs -> [Stages -> BarrierType]]
    BY <1>1, <1>4
  <2>2. acc_empty \in [Stages -> BarrierType]
    BY <1>1, <1>3
  <2> QED BY <2>1, <2>2, <1>1 DEF StageTypes
<1>6. ASSUME NEW j \in Stages PROVE StageRing(j)
  <2>1. Fills(mma, j, 2) = 0 /\ Fills(retired, j, 2) = 0
    BY <1>1, <1>2
  <2>2. Fills(mma, j, 2) <= acc_empty[j].done + 1
    <3>1. acc_empty[j].done = 0
      BY <1>3
    <3> QED BY <2>1, <3>1
  <2>3. ASSUME NEW c \in CTAs
        PROVE  /\ owed_full[c][j] = Fills(retired, j, 2) - acc_full[c][j].done
               /\ ~(Fills(mma, j, 2) > 0)
    BY <2>1, <1>1, <1>4
  <2>4. ASSUME NEW c \in CTAs, NEW w \in WarpsOf(c) PROVE StageReads(w, j) <= acc_full[c][j].done
    <3>1. StageReads(w, j) = 0 /\ acc_full[c][j].done = 0
      BY <1>2, <1>4, Threads
    <3> QED BY <3>1
  <2> QED BY <2>2, <2>3, <2>4, <1>3, <1>4 DEF StageRing
<1> QED BY <1>5, <1>6 DEF StageInv

LEMMA StageNext ==
  ASSUME OperandInv, StageInv, ConsumerTypes, [Next]_vars
  PROVE  StageInv'
<1>1. CASE \E c \in CTAs : TmaIssue(c)
  BY <1>1, StageUnchanged DEF TmaIssue, consumers, matrix
<1>2. CASE \E c \in CTAs, k \in Slots : TmaLand(c, k)
  BY <1>2, StageUnchanged DEF TmaLand, consumers, matrix
<1>3. CASE \E c \in CTAs, l \in ScaleLanes : ScaleIssue(c, l) \/ ScalePublish(c, l)
  BY <1>3, StageUnchanged DEF ScaleIssue, ScalePublish, consumers, matrix, barriers
<1>4. CASE MmaIssue
  BY <1>4, MmaIssueStage
<1>5. CASE MmaRetire
  BY <1>5, MmaRetireStage
<1>6. CASE \E c \in CTAs, k \in Slots : CommitEmpty(c, k)
  BY <1>6, StageUnchanged DEF CommitEmpty, consumers
<1>7. CASE \E c \in CTAs, j \in Stages : CommitFull(c, j)
  BY <1>7, CommitFullStage
<1>8. CASE \E w \in ConsumerWarps : ConsumerRead(w)
  BY <1>8, ConsumerReadStage
<1>9. CASE \E w \in ConsumerWarps, l \in Lanes : ConsumerRelease(w, l)
  BY <1>9, ConsumerReleaseStage
<1>10. CASE \E w \in ConsumerWarps : WriteExchange(w) \/ StoreRows(w)
  BY <1>10, StageUnchanged DEF WriteExchange, StoreRows, consumers, matrix, barriers
<1>11. CASE \E c \in CTAs, p \in Parts : SyncWritten(c, p) \/ SyncStored(c, p)
  BY <1>11, StageUnchanged DEF SyncWritten, SyncStored, consumers, matrix, barriers
<1>12. CASE FreeTmem \/ UNCHANGED vars
  BY <1>12, StageUnchanged DEF FreeTmem, vars, consumers, matrix, barriers
<1> QED BY <1>1, <1>2, <1>3, <1>4, <1>5, <1>6, <1>7, <1>8, <1>9, <1>10, <1>11, <1>12
        DEF Next, Terminated

-----------------------------------------------------------------------------
(* What follows from the rings.                                            *)

LEMMA CountedRange ==
  ASSUME NEW S, IsFiniteSet(S), NEW b, NEW r, Counted(b, S, r)
  PROVE  b.left \in 0 .. b.count
<1>1. {x \in S : r[x] = b.done} \subseteq S
  OBVIOUS
<1>2. /\ Cardinality({x \in S : r[x] = b.done}) <= Cardinality(S)
      /\ Cardinality({x \in S : r[x] = b.done}) \in Nat /\ Cardinality(S) \in Nat
  BY <1>1, FS_Subset, FS_CardinalityType
<1> QED BY <1>2 DEF Counted, Settled

LEMMA RingsInRange ==
  ASSUME RingInv
  PROVE  ArrivalsInRange
<1>1. ASSUME NEW k \in Slots PROVE ab_full[k].left \in 0 .. ab_full[k].count
  BY DEF RingInv, OperandInv, OperandBarrier
<1>2. ASSUME NEW c \in CTAs, NEW k \in Slots
      PROVE  ab_empty[c][k].left \in 0 .. ab_empty[c][k].count
  BY DEF RingInv, OperandInv, OperandRing, Settled
<1>3. ASSUME NEW c \in CTAs, NEW k \in Slots
      PROVE  /\ sf_full[c][k].left \in 0 .. sf_full[c][k].count
             /\ sf_empty[c][k].left \in 0 .. sf_empty[c][k].count
  <2>1. ScaleRing(c, k)
    BY DEF RingInv, ScaleInv
  <2>2. sf_full[c][k].left \in 0 .. sf_full[c][k].count
    BY <2>1, Threads, CountedRange DEF ScaleRing
  <2>3. sf_empty[c][k].left \in 0 .. sf_empty[c][k].count
    BY <2>1, Threads, CountedRange DEF ScaleRing
  <2> QED BY <2>2, <2>3
<1>4. ASSUME NEW j \in Stages PROVE acc_empty[j].left \in 0 .. acc_empty[j].count
  BY Threads, CountedRange DEF RingInv, StageInv, StageRing
<1>5. ASSUME NEW c \in CTAs, NEW j \in Stages
      PROVE  acc_full[c][j].left \in 0 .. acc_full[c][j].count
  <2>1. StageRing(j)
    BY DEF RingInv, StageInv
  <2>2. acc_full[c][j].count = 1 /\ acc_full[c][j].left = 1
    BY <2>1 DEF StageRing, Settled
  <2> QED BY <2>2
<1> QED BY <1>1, <1>2, <1>3, <1>4, <1>5 DEF ArrivalsInRange

\* RingInv holds initially and every step preserves it.
LEMMA RingInit == Init => RingInv
BY OperandInit, ConsumerInit, ScaleInit, StageInit DEF RingInv

LEMMA RingNext == RingInv /\ [Next]_vars => RingInv'
BY OperandNext, ConsumerNext, ScaleNext, StageNext DEF RingInv

\* The invariant of the three rings holds in every reachable state, for any
\* number of tiles, groups, warps and lanes and for two or three slots.
THEOREM RingsHold == Spec => []RingInv
BY RingInit, RingNext, PTL DEF Spec

\* Every variable keeps its type, and no mbarrier of the kernel ever gets
\* more arrivals in a phase than it was initialised for.
THEOREM TypesHold == Spec => []TypeOK
<1>1. RingInv => TypeOK
  BY RingsInRange DEF RingInv, TypeOK, OperandInv, ScaleInv, StageInv
<1> QED BY <1>1, RingsHold, PTL

\* No MMA touches a TMEM stage before lane 0 of every consumer warp of both
\* CTAs has released it.
THEOREM AccumulatorsSafe == Spec => []AccumulatorStable
<1>1. RingInv => AccumulatorStable
  BY StageHeld DEF RingInv, AccumulatorStable
<1> QED BY <1>1, RingsHold, PTL

\* No scale producer lane overwrites a slot any consumer lane still reads.
THEOREM ScalesSafe == Spec => []ScaleStable
<1>1. RingInv => ScaleStable
  BY ScaleHeld DEF RingInv, ScaleStable
<1> QED BY <1>1, RingsHold, PTL

\* The lap of every phase a role is about to wait for is at most one away
\* from the barrier's own, so its parity cannot be mistaken.
LEMMA RingsTrackLaps ==
  ASSUME RingInv
  PROVE  PhasesTrackLaps
<1> USE DEF RingInv
<1>1. ASSUME NEW c \in CTAs, tma[c] >= P
      PROVE  ab_empty[c][Slot(tma[c])].done - tma[c] \div P \in {-1, 0}
  <2> SUFFICES ASSUME NEW s, s = tma[c], NEW lap, lap = s \div P
               PROVE  ab_empty[c][Slot(s)].done - lap \in {-1, 0}
    OBVIOUS
  <2>1. s \in Nat
    BY Sizes DEF OperandInv, OperandTypes
  <2>2. Slot(s) \in Slots /\ lap \in Nat /\ Issued(c, Slot(s)) = lap
    BY <2>1, SlotAt DEF Issued
  <2>3. Chain(c, Slot(s))
    BY <2>2, OperandChain
  <2> QED BY <2>2, <2>3 DEF Chain
<1>2. ASSUME NEW c \in CTAs, NEW l \in ScaleLanes, sf[c][l] >= P
      PROVE  sf_empty[c][Slot(sf[c][l])].done - sf[c][l] \div P \in {-1, 0}
  <2> SUFFICES ASSUME NEW s, s = sf[c][l], NEW lap, lap = s \div P, NEW k, k = Slot(s)
               PROVE  sf_empty[c][k].done - lap \in {-1, 0}
    OBVIOUS
  <2>1. s \in Nat
    BY Sizes DEF ScaleInv, ScaleTypes
  <2>2. k \in Slots /\ lap \in Nat /\ Fills(s, k, P) = lap
    BY <2>1, SlotAt
  <2>3. ScaleChain(c, k)
    BY <2>2, ScaleChains
  <2>4. /\ sf_empty[c][k].done \in Nat /\ sf_full[c][k].done \in Nat
        /\ sf_empty[c][k].done <= sf_full[c][k].done
    <3> HIDE DEF RingInv
    <3> QED BY <2>3 DEF ScaleChain
  <2>5. /\ Fills(s, k, P) \in {sf_full[c][k].done, sf_full[c][k].done + 1}
        /\ Fills(s, k, P) <= sf_empty[c][k].done + 1
    <3> HIDE DEF RingInv
    <3> QED BY <2>3 DEF ScaleChain
  <2> QED
    <3> HIDE DEF RingInv
    <3> QED BY <2>2, <2>4, <2>5
<1>3. mma >= 2 => acc_empty[Stage(mma)].done - mma \div 2 \in {-1, 0}
  <2> SUFFICES ASSUME NEW s, s = mma, NEW lap, lap = s \div 2, NEW j, j = Stage(s)
               PROVE  acc_empty[j].done - lap \in {-1, 0}
    OBVIOUS
  <2>1. s \in Nat
    BY Sizes DEF OperandInv, OperandTypes
  <2>2. j \in Stages /\ lap \in Nat /\ Fills(s, j, 2) = lap
    BY <2>1, StageAt
  <2>3. StageChain(0, j)
    BY <2>2, StageChains DEF CTAs
  <2>4. acc_empty[j].done \in Nat /\ acc_empty[j].done <= lap /\ lap <= acc_empty[j].done + 1
    BY <2>2, <2>3 DEF StageChain
  <2> QED BY <2>2, <2>4
<1>4. ab_full[Slot(mma)].done - mma \div P \in {0, 1}
  <2> SUFFICES ASSUME NEW s, s = mma, NEW lap, lap = s \div P, NEW k, k = Slot(s)
               PROVE  ab_full[k].done - lap \in {0, 1}
    OBVIOUS
  <2>1. s \in Nat
    BY Sizes DEF OperandInv, OperandTypes
  <2>2. k \in Slots /\ lap \in Nat /\ Fills(s, k, P) = lap
    BY <2>1, SlotAt
  <2>3. Chain(0, k)
    BY <2>2, OperandChain DEF CTAs
  <2>4. ab_full[k].done \in Nat /\ lap <= ab_full[k].done /\ ab_full[k].done <= lap + 1
    BY <2>2, <2>3 DEF Chain
  <2> QED BY <2>2, <2>4
<1>5. ASSUME NEW w \in ConsumerWarps, held[w] = {}
      PROVE  acc_full[Cta(w)][Stage(sequence[w])].done - sequence[w] \div 2 \in {0, 1}
  <2> SUFFICES ASSUME NEW s, s = sequence[w], NEW lap, lap = s \div 2,
                      NEW j, j = Stage(s), NEW c, c = Cta(w)
               PROVE  acc_full[c][j].done - lap \in {0, 1}
    OBVIOUS
  <2>1. s \in Nat /\ c \in CTAs /\ w \in WarpsOf(c)
    BY Sizes, Threads DEF ConsumerTypes
  <2>2. j \in Stages /\ lap \in Nat /\ Fills(s, j, 2) = lap
    BY <2>1, StageAt
  <2>3. StageChain(c, j)
    BY <2>1, <2>2, StageChains
  <2>4. /\ StageReads(w, j) = lap /\ StageReleases(w, j) = lap
        /\ StageReads(w, j) <= acc_full[c][j].done
        /\ StageReleases(w, j) \in {acc_empty[j].done, acc_empty[j].done + 1}
    BY <2>1, <2>2, <2>3, <1>5 DEF StageChain
  <2>5. /\ acc_empty[j].done \in Nat /\ acc_full[c][j].done \in Nat
        /\ acc_full[c][j].done <= acc_empty[j].done + 1
    BY <2>3 DEF StageChain
  <2> QED BY <2>2, <2>4, <2>5
<1>6. ASSUME NEW w \in ConsumerWarps, held[w] = {}
      PROVE  sf_full[Cta(w)][Slot(sequence[w])].done - sequence[w] \div P \in {0, 1}
  <2> SUFFICES ASSUME NEW s, s = sequence[w], NEW lap, lap = s \div P,
                      NEW k, k = Slot(s), NEW c, c = Cta(w)
               PROVE  sf_full[c][k].done - lap \in {0, 1}
    OBVIOUS
  <2>1. s \in Nat /\ c \in CTAs /\ w \in WarpsOf(c) /\ Lane0 \in Lanes
    BY Sizes, Threads DEF ConsumerTypes
  <2>2. k \in Slots /\ lap \in Nat /\ Fills(s, k, P) = lap
    BY <2>1, SlotAt
  <2>3. ScaleChain(c, k)
    BY <2>1, <2>2, ScaleChains
  <2>4. /\ SlotReads(w, k) = lap /\ SlotReleases(w, Lane0, k) = lap
        /\ SlotReads(w, k) <= sf_full[c][k].done
        /\ SlotReleases(w, Lane0, k) \in {sf_empty[c][k].done, sf_empty[c][k].done + 1}
    BY <2>1, <2>2, <2>3, <1>6 DEF ScaleChain
  <2>5. /\ sf_empty[c][k].done \in Nat /\ sf_full[c][k].done \in Nat
        /\ sf_full[c][k].done <= sf_empty[c][k].done + 1
    BY <2>3 DEF ScaleChain
  <2> QED BY <2>2, <2>4, <2>5
<1> QED BY <1>1, <1>2, <1>3, <1>4, <1>5, <1>6 DEF PhasesTrackLaps

\* No parity wait of the kernel can mistake a phase for another.
THEOREM PhasesSafe == Spec => []PhasesTrackLaps
BY RingsTrackLaps, RingsHold, PTL

-----------------------------------------------------------------------------
(* The final join.                                                         *)

\* Once the roles have joined, none of them can move again.
LEMMA JoinedStays ==
  ASSUME RingInv, RolesJoined, [Next]_vars
  PROVE  RolesJoined'
<1>1. \A c \in CTAs : ~TmaIssue(c)
  BY Sizes DEF TmaIssue, RolesJoined
<1>2. CASE \E c \in CTAs, k \in Slots : TmaLand(c, k)
  BY <1>2 DEF TmaLand, RolesJoined, producers, matrix, consumers
<1>3. \A c \in CTAs, l \in ScaleLanes : ~ScaleIssue(c, l) /\ ~ScalePublish(c, l)
  BY Sizes DEF ScaleIssue, ScalePublish, RolesJoined, RingInv, ScaleInv, ScaleTypes
<1>4. ~MmaIssue
  BY Sizes DEF MmaIssue, RolesJoined
<1>5. CASE MmaRetire
  BY <1>5 DEF MmaRetire, RolesJoined, producers, consumers
<1>6. CASE \E c \in CTAs, k \in Slots : CommitEmpty(c, k)
  BY <1>6 DEF CommitEmpty, RolesJoined, producers, consumers
<1>7. CASE \E c \in CTAs, j \in Stages : CommitFull(c, j)
  BY <1>7 DEF CommitFull, RolesJoined, producers, consumers
<1>8. \A w \in ConsumerWarps : ~ConsumerRead(w) /\ ~WriteExchange(w) /\ ~StoreRows(w)
  BY Sizes DEF ConsumerRead, WriteExchange, StoreRows, RolesJoined
<1>9. \A w \in ConsumerWarps, l \in Lanes : ~ConsumerRelease(w, l)
  BY Sizes DEF ConsumerRelease, RolesJoined, RingInv, ConsumerTypes
<1>10. ASSUME NEW c \in CTAs, NEW p \in Parts PROVE ~SyncWritten(c, p) /\ ~SyncStored(c, p)
  <2>1. PICK i \in PartWarps : TRUE
    BY ThreadAssumption
  <2>2. <<c, <<p, i>>>> \in PartOf(c, p) /\ <<c, <<p, i>>>> \in ConsumerWarps
    BY <2>1 DEF PartOf, ConsumerWarps
  <2> QED BY <2>2 DEF SyncWritten, SyncStored, AllWarpsAt, RolesJoined
<1>11. CASE FreeTmem \/ UNCHANGED vars
  BY <1>11 DEF FreeTmem, vars, RolesJoined, producers, matrix, consumers
<1> QED BY <1>1, <1>2, <1>3, <1>4, <1>5, <1>6, <1>7, <1>8, <1>9, <1>10, <1>11
        DEF Next, Terminated

LEMMA StagesCount ==
  ASSUME NEW x \in Nat, NEW y \in Nat, \A j \in Stages : Fills(x, j, 2) = Fills(y, j, 2)
  PROVE  x = y
<1>1. Fills(x, 0, 2) = Fills(y, 0, 2) /\ Fills(x, 1, 2) = Fills(y, 1, 2)
  BY DEF Stages
<1> QED BY <1>1 DEF Fills

\* At the join every copy has landed, every MMA has been read, and of the
\* commits only the last at each operand slot may be on its way.
LEMMA JoinedDrained ==
  ASSUME RingInv, RolesJoined
  PROVE  /\ \A c \in CTAs, k \in Slots : operand[c][k].landed /\ owed_empty[c][k] <= 1
         /\ \A c \in CTAs : copying[c] = {}
         /\ mma = Steps /\ retired = Steps
         /\ \A c \in CTAs, j \in Stages : owed_full[c][j] = 0
         /\ \A w \in ConsumerWarps : held[w] = {} /\ sequence[w] = Steps
<1> USE DEF RingInv
<1>1. mma = Steps /\ (\A c \in CTAs : tma[c] = Steps) /\ mma \in Nat /\ retired \in Nat
  BY Sizes DEF RolesJoined, OperandInv, OperandTypes
<1>2. ASSUME NEW c \in CTAs, NEW k \in Slots PROVE operand[c][k].landed
  <2>1. Chain(c, k) /\ Fills(mma, k, P) = Issued(c, k)
    BY <1>1, OperandChain DEF Issued
  <2> QED BY <2>1 DEF Chain
<1>3. \A c \in CTAs : copying[c] = {}
  BY Sizes DEF RolesJoined, ScaleInv, ScaleTypes
<1>4. \A w \in ConsumerWarps : held[w] = {} /\ sequence[w] = Steps
  BY Sizes DEF RolesJoined, ConsumerTypes
<1>5. ASSUME NEW c \in CTAs, NEW j \in Stages
      PROVE  Fills(retired, j, 2) = Fills(mma, j, 2) /\ acc_full[c][j].done = Fills(retired, j, 2)
  <2>1. PICK w \in WarpsOf(c) : TRUE
    BY Threads
  <2>2. StageChain(c, j) /\ w \in ConsumerWarps
    BY <2>1, StageChains, Threads
  <2>3. held[w] = {} /\ sequence[w] = mma
    BY <2>2, <1>1, <1>4
  <2>4. StageReads(w, j) = Fills(mma, j, 2) /\ StageReads(w, j) <= acc_full[c][j].done
    BY <2>1, <2>2, <2>3 DEF StageChain
  <2> QED BY <2>2, <2>4 DEF StageChain
<1>6. retired = mma
  BY ONLY <1>1, <1>5, StagesCount, 0 \in CTAs DEF CTAs
<1>7. ASSUME NEW c \in CTAs, NEW j \in Stages PROVE owed_full[c][j] = 0
  <2>1. owed_full[c][j] = Fills(retired, j, 2) - acc_full[c][j].done
    BY DEF StageInv, StageRing
  <2>2. acc_full[c][j].done \in Nat /\ acc_full[c][j].done = Fills(retired, j, 2)
    BY <1>5, StageChains DEF StageChain
  <2> QED BY ONLY <2>1, <2>2
<1>8. ASSUME NEW c \in CTAs, NEW k \in Slots PROVE owed_empty[c][k] <= 1
  <2>1. owed_empty[c][k] = Fills(retired, k, P) - ab_empty[c][k].done
    BY DEF OperandInv, OperandRing
  <2>2. /\ ab_empty[c][k].done \in Nat /\ Fills(retired, k, P) \in Nat
        /\ Issued(c, k) <= ab_empty[c][k].done + 1
    BY OperandChain DEF Chain
  <2>3. Issued(c, k) = Fills(retired, k, P)
    BY <1>1, <1>6 DEF Issued
  <2> QED BY ONLY <2>1, <2>2, <2>3
<1> QED BY ONLY <1>1, <1>2, <1>3, <1>4, <1>6, <1>7, <1>8

\* When the TMEM is freed every group has been promoted, no copy, MMA, TMEM read
\* or commit to acc_full is outstanding, and of the commits to ab_empty at most
\* the last of each slot, for which nobody waits.
THEOREM FreeSafe == Spec => []DrainedWhenFreed
<1> DEFINE J == freed => RolesJoined
<1>1. Init => J
  BY DEF Init
<1>2. ASSUME RingInv, J, [Next]_vars PROVE J'
  <2>1. CASE freed
    BY <2>1, <1>2, JoinedStays
  <2>2. CASE ~freed /\ FreeTmem
    BY <2>2, <1>2, JoinedStays DEF FreeTmem
  <2>3. CASE ~freed /\ ~FreeTmem
    <3>1. freed' = freed
      BY <2>3, <1>2 DEF Next, vars, TmaIssue, TmaLand, ScaleIssue, ScalePublish, MmaIssue,
         MmaRetire, CommitEmpty, CommitFull, ConsumerRead, ConsumerRelease, WriteExchange,
         SyncWritten, StoreRows, SyncStored, Terminated
    <3> QED BY <2>3, <3>1
  <2> QED BY <2>1, <2>2, <2>3
<1>3. RingInv /\ J => DrainedWhenFreed
  BY JoinedDrained DEF DrainedWhenFreed
<1>4. RingInv /\ J /\ [Next]_vars => J'
  BY <1>2
<1> HIDE DEF J
<1> QED BY <1>1, <1>3, <1>4, RingsHold, PTL DEF Spec
-----------------------------------------------------------------------------
(* Tiles, groups and blocks.                                               *)

\* The sum of the first n groups of tile t.
Sum(t, n) == [i \in 1 .. n |-> t * Groups + i - 1]

LEMMA Modulo ==
  ASSUME NEW s \in Nat, NEW d \in Nat \ {0}
  PROVE  s \div d \in Nat /\ s % d \in 0 .. d - 1 /\ s = (s \div d) * d + (s % d)
<1>1. s \div d \in Int /\ s % d \in 0 .. d - 1
  OBVIOUS
<1>2. s = d * (s \div d) + (s % d)
  OBVIOUS
<1>3. \A q \in Int, r \in 0 .. d - 1 : s = d * q + r => q >= 0 /\ d * q = q * d
  OBVIOUS
<1> QED BY <1>1, <1>2, <1>3

LEMMA Unique ==
  ASSUME NEW d \in Nat \ {0}, NEW q \in Int, NEW r \in 0 .. d - 1,
         NEW p \in Int, NEW x \in 0 .. d - 1, q * d + r = p * d + x
  PROVE  q = p /\ r = x
<1>1. q = p
  OBVIOUS
<1> QED BY <1>1

LEMMA Division ==
  ASSUME NEW d \in Nat \ {0}, NEW q \in Nat, NEW r \in 0 .. d - 1
  PROVE  (q * d + r) \div d = q /\ (q * d + r) % d = r
<1>1. PICK s : s = q * d + r
  OBVIOUS
<1>2. s \in Nat
  <2>1. q * d \in Nat
    OBVIOUS
  <2> QED BY <2>1, <1>1
<1>3. s \div d \in Nat /\ s % d \in 0 .. d - 1 /\ s = (s \div d) * d + (s % d)
  BY <1>2, Modulo
<1>4. PICK p, x : p = s \div d /\ x = s % d
  OBVIOUS
<1>5. p \in Int /\ x \in 0 .. d - 1 /\ q * d + r = p * d + x
  BY <1>1, <1>3, <1>4
<1>6. q = p /\ r = x
  BY <1>5, Unique
<1> QED BY <1>1, <1>4, <1>6

LEMMA GroupAt ==
  ASSUME NEW s \in Nat
  PROVE  /\ s \div Groups \in Nat /\ s % Groups \in 0 .. Groups - 1
         /\ s = (s \div Groups) * Groups + (s % Groups)
         /\ IF (s + 1) % Groups = 0
              THEN s % Groups = Groups - 1 /\ (s + 1) \div Groups = s \div Groups + 1
              ELSE (s % Groups) + 1 < Groups /\ (s + 1) \div Groups = s \div Groups
                   /\ (s + 1) % Groups = (s % Groups) + 1
<1> DEFINE q == s \div Groups
           r == s % Groups
<1>1. Groups \in Nat \ {0}
  BY SizeAssumption
<1>2. q \in Nat /\ r \in 0 .. Groups - 1 /\ s = q * Groups + r
  BY <1>1, Modulo
<1> HIDE DEF q, r
<1>3. CASE r = Groups - 1
  <2>1. q + 1 \in Nat /\ 0 \in 0 .. Groups - 1
    BY <1>1, <1>2
  <2>2. s + 1 = (q + 1) * Groups + 0
    BY <1>1, <1>2, <1>3
  <2>3. (s + 1) \div Groups = q + 1 /\ (s + 1) % Groups = 0
    <3>1. PICK p, z : p = q + 1 /\ z = 0
      OBVIOUS
    <3>2. p \in Nat /\ z \in 0 .. Groups - 1 /\ s + 1 = p * Groups + z
      BY <2>1, <2>2, <3>1
    <3>3. (p * Groups + z) \div Groups = p /\ (p * Groups + z) % Groups = z
      BY ONLY <3>2, <1>1, Division
    <3> QED BY <3>1, <3>2, <3>3
  <2> QED BY <2>3, <1>2, <1>3 DEF q, r
<1>4. CASE r # Groups - 1
  <2>1. r + 1 \in 0 .. Groups - 1
    BY <1>1, <1>2, <1>4
  <2>2. s + 1 = q * Groups + (r + 1)
    BY <1>1, <1>2
  <2>3. (s + 1) \div Groups = q /\ (s + 1) % Groups = r + 1
    BY ONLY <2>1, <2>2, <1>1, <1>2, Division
  <2>4. (s + 1) % Groups # 0 /\ r + 1 < Groups
    BY <2>1, <2>3, <1>1, <1>2
  <2> QED BY <2>3, <2>4, <1>2 DEF q, r
<1> QED BY <1>3, <1>4

LEMMA SumAppend ==
  ASSUME NEW t \in Nat, NEW n \in Nat
  PROVE  Append(Sum(t, n), t * Groups + n) = Sum(t, n + 1)
<1>1. Groups \in Nat /\ t * Groups \in Nat
  BY SizeAssumption
<1> DEFINE base == t * Groups
<1>2. base \in Nat /\ Sum(t, n) = [i \in 1 .. n |-> base + i - 1]
      /\ Sum(t, n + 1) = [i \in 1 .. n + 1 |-> base + i - 1]
  BY <1>1 DEF Sum
<1> HIDE DEF base
<1>3. [i \in 1 .. n |-> base + i - 1] \in Seq(Int) /\ Len([i \in 1 .. n |-> base + i - 1]) = n
  BY <1>2
<1>4. Append([i \in 1 .. n |-> base + i - 1], base + n) = [i \in 1 .. n + 1 |-> base + i - 1]
  BY <1>2, <1>3
<1> QED BY <1>2, <1>4 DEF base

\* The first n blocks of a writer.
Stored(w, n) == [i \in 1 .. n |-> Block(w, i - 1)]

LEMMA StoredAppend ==
  ASSUME NEW w, NEW n \in Nat
  PROVE  /\ Len(Stored(w, n)) = n
         /\ Append(Stored(w, n), Block(w, n)) = Stored(w, n + 1)
<1> DEFINE S == {Block(w, i) : i \in Nat}
<1>1. Stored(w, n) \in Seq(S) /\ Len(Stored(w, n)) = n
  BY DEF Stored
<1>2. Append(Stored(w, n), Block(w, n)) = Stored(w, n + 1)
  BY <1>1 DEF Stored
<1> QED BY <1>1, <1>2

-----------------------------------------------------------------------------
(* The invariant of a consumer warp.                                       *)

\* The tile a warp is in, and the blocks before the sub-tile it is in.
TileAt(p, s) == IF p = "groups" THEN s \div Groups ELSE s \div Groups - 1
PositionAt(p, s, b) == TileAt(p, s) * Subs + b

\* The groups of the tile that lane l has promoted.
Promotions(p, s, h, l) ==
  IF p = "groups" THEN (s % Groups) + Bit(h # {} /\ l \notin h) ELSE Groups

\* Of the warp w: p and b are where it is, s its sequence, h the lanes that
\* still read, then its registers, its exchange buffer and what it stored.
WarpOk(w, p, s, h, b, part, tot, ex, out) ==
  /\ p = "groups" => b = 0
  /\ p # "groups" => h = {} /\ s % Groups = 0 /\ s > 0
  /\ h # {} => part = s
  /\ tot = [l \in Lanes |-> Sum(TileAt(p, s), Promotions(p, s, h, l))]
  /\ p \in {"written", "store", "stored"} => ex = [sub |-> b, rows |-> tot]
  /\ out = Stored(w, PositionAt(p, s, b) + Bit(p = "stored"))

LEMMA ReadOk ==
  ASSUME NEW w, NEW s \in Nat, NEW b, NEW part, NEW tot, NEW ex, NEW out,
         WarpOk(w, "groups", s, {}, b, part, tot, ex, out)
  PROVE  WarpOk(w, "groups", s, Lanes, b, s, tot, ex, out)
<1>1. \A l \in Lanes : Promotions("groups", s, Lanes, l) = Promotions("groups", s, {}, l)
  BY DEF Promotions
<1> QED BY <1>1 DEF WarpOk, PositionAt

\* The registers after lane l has promoted sequence s.
Appended(tot, l, s, new) == new = [tot EXCEPT ![l] = Append(@, s)]

LEMMA PromotedOk ==
  ASSUME NEW w, NEW s \in Nat, NEW h \in SUBSET Lanes, NEW l \in h, NEW b, NEW part, NEW tot,
         NEW ex, NEW out, WarpOk(w, "groups", s, h, b, part, tot, ex, out),
         NEW new, Appended(tot, l, s, new)
  PROVE  \A m \in Lanes :
           new[m] = Sum(s \div Groups, IF m = l \/ m \notin h THEN (s % Groups) + 1 ELSE s % Groups)
<1>1. /\ s \div Groups \in Nat /\ s % Groups \in Nat
      /\ s = (s \div Groups) * Groups + (s % Groups)
  <2>1. Groups \in Nat \ {0}
    BY SizeAssumption
  <2> QED BY <2>1, GroupAt
<1>2. PICK t, n : t = s \div Groups /\ n = s % Groups
  OBVIOUS
<1>3. t \in Nat /\ n \in Nat /\ s = t * Groups + n
  BY <1>1, <1>2
<1>4. tot = [m \in Lanes |-> Sum(t, IF m \in h THEN n ELSE n + 1)]
  <2>1. \A m \in Lanes : Promotions("groups", s, h, m) = IF m \in h THEN n ELSE n + 1
    BY <1>2, <1>3 DEF Promotions, Bit
  <2> QED BY <2>1, <1>2 DEF WarpOk, TileAt
<1>5. Append(Sum(t, n), s) = Sum(t, n + 1)
  BY <1>3, SumAppend
<1>6. tot[l] = Sum(t, n)
  BY <1>4
<1> QED BY <1>2, <1>4, <1>5, <1>6 DEF Appended

LEMMA ReleaseOk ==
  ASSUME NEW w, NEW s \in Nat, NEW h \in SUBSET Lanes, NEW l \in h, h # {l}, NEW b, NEW tot,
         NEW ex, NEW out, WarpOk(w, "groups", s, h, b, s, tot, ex, out),
         NEW new, Appended(tot, l, s, new)
  PROVE  WarpOk(w, "groups", s, h \ {l}, b, s, new, ex, out)
<1>1. \A m \in Lanes :
        new[m] = Sum(s \div Groups, IF m = l \/ m \notin h THEN (s % Groups) + 1 ELSE s % Groups)
  BY PromotedOk
<1>2. \A m \in Lanes : Promotions("groups", s, h \ {l}, m) =
                         IF m = l \/ m \notin h THEN (s % Groups) + 1 ELSE s % Groups
  <2>1. s % Groups \in Nat
    BY GroupAt, SizeAssumption
  <2> QED BY <2>1 DEF Promotions, Bit
<1>3. new = [m \in Lanes |-> new[m]]
  BY DEF WarpOk, Appended
<1>4. new = [m \in Lanes |-> Sum(TileAt("groups", s), Promotions("groups", s, h \ {l}, m))]
  BY <1>1, <1>2, <1>3 DEF TileAt
<1> QED BY <1>4 DEF WarpOk

\* The last lane ends the group, and with the last group the tile.
LEMMA LastOk ==
  ASSUME NEW w, NEW s \in Nat, NEW l \in Lanes, NEW b, NEW tot, NEW ex, NEW out,
         WarpOk(w, "groups", s, {l}, b, s, tot, ex, out),
         NEW new, Appended(tot, l, s, new),
         NEW p, p = IF (s + 1) % Groups = 0 THEN "write" ELSE "groups"
  PROVE  /\ WarpOk(w, p, s + 1, {}, b, s, new, ex, out)
         /\ PositionAt(p, s + 1, b) = PositionAt("groups", s, b)
<1>1. \A m \in Lanes : new[m] = Sum(s \div Groups, (s % Groups) + 1)
  BY PromotedOk
<1>2. TileAt(p, s + 1) = s \div Groups /\ \A m \in Lanes : Promotions(p, s + 1, {}, m) = (s % Groups) + 1
  <2>1. Groups \in Nat
    BY SizeAssumption
  <2>2. CASE (s + 1) % Groups = 0
    <3>1. /\ p = "write" /\ s \div Groups \in Nat /\ s % Groups = Groups - 1
          /\ (s + 1) \div Groups = s \div Groups + 1
      BY <2>2, GroupAt
    <3>2. TileAt(p, s + 1) = (s + 1) \div Groups - 1
      BY <3>1 DEF TileAt
    <3>3. \A m \in Lanes : Promotions(p, s + 1, {}, m) = Groups
      BY <3>1 DEF Promotions
    <3> QED BY <2>1, <3>1, <3>2, <3>3
  <2>3. CASE (s + 1) % Groups # 0
    <3>1. /\ p = "groups" /\ s % Groups \in Nat /\ (s + 1) % Groups = (s % Groups) + 1
          /\ (s + 1) \div Groups = s \div Groups
      BY <2>1, <2>3, GroupAt
    <3>2. TileAt(p, s + 1) = (s + 1) \div Groups
      BY <3>1 DEF TileAt
    <3>3. \A m \in Lanes : Promotions(p, s + 1, {}, m) = ((s + 1) % Groups) + 0
      BY <3>1 DEF Promotions, Bit
    <3> QED BY <3>1, <3>2, <3>3
  <2> QED BY <2>2, <2>3
<1>3. new = [m \in Lanes |-> new[m]]
  BY DEF WarpOk, Appended
<1>4. new = [m \in Lanes |-> Sum(TileAt(p, s + 1), Promotions(p, s + 1, {}, m))]
  BY <1>1, <1>2, <1>3
<1>5. PositionAt(p, s + 1, b) = PositionAt("groups", s, b)
  BY <1>2 DEF PositionAt, TileAt
<1>6. p # "groups" => (s + 1) % Groups = 0 /\ s + 1 > 0
  OBVIOUS
<1>7. out = Stored(w, PositionAt(p, s + 1, b) + Bit(p = "stored"))
  BY <1>5 DEF WarpOk, Bit
<1>8. WarpOk(w, p, s + 1, {}, b, s, new, ex, out)
  BY <1>4, <1>6, <1>7 DEF WarpOk
<1> QED BY <1>5, <1>8

LEMMA TileRange ==
  ASSUME NEW s \in 0 .. Steps, NEW b \in 0 .. Subs - 1, s % Groups = 0, s > 0
  PROVE  /\ s \div Groups - 1 \in Nat /\ s \div Groups <= Tiles
         /\ (s \div Groups - 1) * Subs + b \in 0 .. Tiles * Subs - 1
<1>1. /\ Groups \in Nat \ {0} /\ Subs \in Nat \ {0} /\ Tiles \in Nat /\ s \in Nat
      /\ s <= Tiles * Groups
  BY SizeAssumption DEF Steps
<1>2. PICK q : q = s \div Groups
  OBVIOUS
<1>3. q \in Nat /\ s = q * Groups
  <2>1. s \div Groups \in Nat /\ s = (s \div Groups) * Groups + (s % Groups)
    BY <1>1, Modulo
  <2>2. q \in Nat /\ q * Groups \in Nat
    BY <2>1, <1>1, <1>2
  <2> QED BY <2>1, <2>2, <1>2
<1>4. q >= 1
  BY <1>1, <1>3
<1>5. q <= Tiles
  <2>1. \A x \in Nat : x > Tiles => x * Groups > Tiles * Groups
    BY <1>1
  <2> QED BY <2>1, <1>1, <1>3
<1>6. (q - 1) * Subs + b >= 0 /\ (q - 1) * Subs + b < Tiles * Subs
  <2>1. (q - 1) * Subs >= 0 /\ (q - 1) * Subs <= (Tiles - 1) * Subs
    BY <1>1, <1>4, <1>5, <1>3
  <2>2. (Tiles - 1) * Subs + Subs = Tiles * Subs
    BY <1>1
  <2>3. (q - 1) * Subs \in Int /\ (Tiles - 1) * Subs \in Int /\ Tiles * Subs \in Int
    BY <1>1, <1>3
  <2> QED BY <2>1, <2>2, <2>3, <1>1
<1> QED BY <1>2, <1>3, <1>4, <1>5, <1>6, <1>1

-----------------------------------------------------------------------------
(* The invariant of the consumers: each warp's, and that the warps of a    *)
(* promotion group, which meet twice a sub-tile, are always in the same.   *)

Progress(w) ==
  WarpOk(w, pc[w], sequence[w], held[w], sub[w], partial[w], total[w], exchange[w], output[w])
Position(w) == PositionAt(pc[w], sequence[w], sub[w])
Late(p) == p \in {"store", "stored"}
Mates(v, w) == Position(v) = Position(w) /\ (Late(pc[v]) <=> Late(pc[w]))
EpilogueInv ==
  /\ partial = [w \in ConsumerWarps |-> partial[w]] /\ total = [w \in ConsumerWarps |-> total[w]]
  /\ exchange = [w \in ConsumerWarps |-> exchange[w]]
  /\ output = [w \in ConsumerWarps |-> output[w]]
  /\ \A w \in ConsumerWarps : Progress(w)
  /\ \A c \in CTAs, p \in Parts : \A v, w \in PartOf(c, p) : Mates(v, w)

LEMMA EpilogueInit == Init => EpilogueInv
<1> SUFFICES ASSUME Init PROVE EpilogueInv
  OBVIOUS
<1>1. /\ partial = [w \in ConsumerWarps |-> Garbage]
      /\ total = [w \in ConsumerWarps |-> [l \in Lanes |-> <<>>]]
      /\ exchange = [w \in ConsumerWarps |-> <<>>] /\ output = [w \in ConsumerWarps |-> <<>>]
      /\ pc = [w \in ConsumerWarps |-> "groups"] /\ sequence = [w \in ConsumerWarps |-> 0]
      /\ held = [w \in ConsumerWarps |-> {}] /\ sub = [w \in ConsumerWarps |-> 0]
  BY DEF Init
<1>2. 0 \div Groups = 0 /\ 0 % Groups = 0 /\ Groups \in Nat /\ Subs \in Nat
  <2>1. Groups \in Nat \ {0} /\ Subs \in Nat
    BY SizeAssumption
  <2>2. PICK z : z = 0
    OBVIOUS
  <2>3. (z * Groups + z) \div Groups = z /\ (z * Groups + z) % Groups = z
    BY <2>1, <2>2, Division
  <2>4. z * Groups + z = 0
    BY <2>1, <2>2
  <2> QED BY <2>1, <2>2, <2>3, <2>4
<1>3. ASSUME NEW w \in ConsumerWarps PROVE Progress(w) /\ Position(w) = 0 /\ ~Late(pc[w])
  <2>1. TileAt("groups", 0) = 0 /\ PositionAt("groups", 0, 0) = 0
    BY <1>2 DEF TileAt, PositionAt
  <2>2. \A l \in Lanes : Promotions("groups", 0, {}, l) = 0
    BY <1>2 DEF Promotions, Bit
  <2>3. Sum(0, 0) = <<>> /\ Stored(w, 0) = <<>>
    BY DEF Sum, Stored
  <2>4. WarpOk(w, "groups", 0, {}, 0, Garbage, [l \in Lanes |-> <<>>], <<>>, <<>>)
    BY <2>1, <2>2, <2>3 DEF WarpOk, Bit
  <2> QED BY <1>1, <2>1, <2>4 DEF Progress, Position, Late
<1>4. \A c \in CTAs, p \in Parts : PartOf(c, p) \subseteq ConsumerWarps
  BY DEF PartOf
<1> QED BY <1>1, <1>3, <1>4 DEF EpilogueInv, Mates

\* A warp moves within its sub-tile.
LEMMA OneWarp ==
  ASSUME EpilogueInv, ConsumerTypes, NEW w \in ConsumerWarps,
         NEW p, NEW s, NEW h, NEW part, NEW tot, NEW ex, NEW out,
         pc' = [pc EXCEPT ![w] = p], sequence' = [sequence EXCEPT ![w] = s],
         held' = [held EXCEPT ![w] = h], UNCHANGED sub,
         partial' = [partial EXCEPT ![w] = part], total' = [total EXCEPT ![w] = tot],
         exchange' = [exchange EXCEPT ![w] = ex], output' = [output EXCEPT ![w] = out],
         NEW b, b = sub[w], WarpOk(w, p, s, h, b, part, tot, ex, out),
         PositionAt(p, s, b) = Position(w), Late(p) <=> Late(pc[w])
  PROVE  EpilogueInv'
<1>1. /\ pc \in [ConsumerWarps -> {"groups", "write", "written", "store", "stored"}]
      /\ sequence \in [ConsumerWarps -> 0 .. Steps] /\ held \in [ConsumerWarps -> SUBSET Lanes]
      /\ partial = [v \in ConsumerWarps |-> partial[v]] /\ total = [v \in ConsumerWarps |-> total[v]]
      /\ exchange = [v \in ConsumerWarps |-> exchange[v]]
      /\ output = [v \in ConsumerWarps |-> output[v]]
  BY DEF ConsumerTypes, EpilogueInv
<1>2. ASSUME NEW v \in ConsumerWarps
      PROVE  Progress(v)' /\ Position(v)' = Position(v) /\ (Late(pc[v])' <=> Late(pc[v]))
  <2>1. CASE v = w
    <3>1. /\ pc'[v] = p /\ sequence'[v] = s /\ held'[v] = h /\ sub'[v] = sub[w]
          /\ partial'[v] = part /\ total'[v] = tot /\ exchange'[v] = ex /\ output'[v] = out
      BY <1>1, <2>1
    <3> QED BY <2>1, <3>1 DEF Progress, Position
  <2>2. CASE v # w
    <3>1. /\ pc'[v] = pc[v] /\ sequence'[v] = sequence[v] /\ held'[v] = held[v]
          /\ sub'[v] = sub[v] /\ partial'[v] = partial[v] /\ total'[v] = total[v]
          /\ exchange'[v] = exchange[v] /\ output'[v] = output[v]
      BY <1>1, <2>2
    <3>2. Progress(v)
      BY DEF EpilogueInv
    <3> QED BY <3>1, <3>2 DEF Progress, Position
  <2> QED BY <2>1, <2>2
<1>3. ASSUME NEW c \in CTAs, NEW q \in Parts, NEW u \in PartOf(c, q), NEW v \in PartOf(c, q)
      PROVE  Mates(u, v)'
  <2>1. u \in ConsumerWarps /\ v \in ConsumerWarps
    BY DEF PartOf
  <2>2. Mates(u, v)
    BY DEF EpilogueInv
  <2> QED BY <1>2, <2>1, <2>2 DEF Mates
<1>4. /\ partial' = [v \in ConsumerWarps |-> partial'[v]] /\ total' = [v \in ConsumerWarps |-> total'[v]]
      /\ exchange' = [v \in ConsumerWarps |-> exchange'[v]]
      /\ output' = [v \in ConsumerWarps |-> output'[v]]
  BY <1>1
<1> QED BY <1>2, <1>3, <1>4 DEF EpilogueInv

LEMMA EpilogueUnchanged ==
  ASSUME EpilogueInv, UNCHANGED <<pc, sequence, held, sub, partial, total, exchange, output>>
  PROVE  EpilogueInv'
BY DEF EpilogueInv, Progress, Position, Mates

-----------------------------------------------------------------------------
(* The steps.                                                              *)

\* A variable that keeps its value keeps it at every warp.
LEMMA Keeps ==
  ASSUME EpilogueInv, ConsumerTypes, NEW w \in ConsumerWarps
  PROVE  /\ pc = [pc EXCEPT ![w] = pc[w]] /\ sequence = [sequence EXCEPT ![w] = sequence[w]]
         /\ held = [held EXCEPT ![w] = held[w]] /\ partial = [partial EXCEPT ![w] = partial[w]]
         /\ total = [total EXCEPT ![w] = total[w]]
         /\ exchange = [exchange EXCEPT ![w] = exchange[w]]
         /\ output = [output EXCEPT ![w] = output[w]]
BY DEF EpilogueInv, ConsumerTypes

LEMMA AccumulatorsHeld == RingInv => AccumulatorStable
BY StageHeld DEF RingInv, AccumulatorStable
LEMMA AccumulatorsNext == RingInv' => AccumulatorStable'
BY AccumulatorsHeld, PTL

LEMMA ConsumerReadEpilogue ==
  ASSUME RingInv, EpilogueInv, NEW w \in ConsumerWarps, ConsumerRead(w), RingInv'
  PROVE  EpilogueInv'
<1> SUFFICES ASSUME NEW s, s = sequence[w], NEW tot, tot = total[w], NEW ex, ex = exchange[w],
                    NEW out, out = output[w], NEW part, part = partial[w],
                    NEW b, b = sub[w]
             PROVE  EpilogueInv'
  OBVIOUS
<1>1. /\ ConsumerTypes /\ s \in Nat /\ pc[w] = "groups" /\ held[w] = {} /\ Lane0 \in Lanes
      /\ UNCHANGED <<pc, sequence, sub, total, exchange, output, tmem>>
      /\ held' = [held EXCEPT ![w] = Lanes]
      /\ partial' = [partial EXCEPT ![w] = tmem[Cta(w)][Stage(s)]]
  BY Sizes, Threads DEF RingInv, ConsumerTypes, ConsumerRead, epilogue
<1>2. tmem[Cta(w)][Stage(s)] = s
  <2>1. AccumulatorStable'
    BY AccumulatorsNext
  <2>2. held'[w] = Lanes /\ sequence'[w] = s
    BY <1>1 DEF ConsumerTypes
  <2> QED BY <1>1, <2>1, <2>2 DEF AccumulatorStable
<1>3. WarpOk(w, "groups", s, {}, b, part, tot, ex, out)
  BY <1>1 DEF EpilogueInv, Progress
<1>4. WarpOk(w, "groups", s, Lanes, b, s, tot, ex, out)
  BY <1>1, <1>3, ReadOk
<1>5. PositionAt("groups", s, b) = Position(w)
  BY <1>1 DEF Position
<1>6. /\ pc' = [pc EXCEPT ![w] = "groups"] /\ sequence' = [sequence EXCEPT ![w] = s]
      /\ held' = [held EXCEPT ![w] = Lanes] /\ partial' = [partial EXCEPT ![w] = s]
      /\ total' = [total EXCEPT ![w] = tot] /\ exchange' = [exchange EXCEPT ![w] = ex]
      /\ output' = [output EXCEPT ![w] = out] /\ UNCHANGED sub
  BY <1>1, <1>2, Keeps
<1>7. EpilogueInv /\ ConsumerTypes /\ b = sub[w] /\ (Late("groups") <=> Late(pc[w]))
  BY <1>1
<1> QED BY ONLY <1>4, <1>5, <1>6, <1>7, w \in ConsumerWarps, OneWarp

LEMMA ConsumerReleaseEpilogue ==
  ASSUME RingInv, EpilogueInv, NEW w \in ConsumerWarps, NEW l \in Lanes, ConsumerRelease(w, l)
  PROVE  EpilogueInv'
<1> SUFFICES ASSUME NEW s, s = sequence[w], NEW h, h = held[w], NEW tot, tot = total[w],
                    NEW ex, ex = exchange[w], NEW out, out = output[w], NEW part, part = partial[w],
                    NEW new, Appended(tot, l, s, new), NEW b, b = sub[w]
             PROVE  EpilogueInv'
  BY DEF Appended
<1>1. /\ ConsumerTypes /\ s \in Nat /\ h \in SUBSET Lanes /\ l \in h
      /\ UNCHANGED <<sub, partial, exchange, output>>
      /\ held' = [held EXCEPT ![w] = h \ {l}]
      /\ total' = [total EXCEPT ![w][l] = Append(@, Promoted(w, Slot(s)))]
      /\ sequence' = IF h = {l} THEN [sequence EXCEPT ![w] = s + 1] ELSE sequence
      /\ pc' = IF h = {l} /\ (s + 1) % Groups = 0 THEN [pc EXCEPT ![w] = "write"] ELSE pc
  BY Sizes DEF RingInv, ConsumerTypes, ConsumerRelease, epilogue
<1>2. WarpOk(w, pc[w], s, h, b, part, tot, ex, out)
  BY DEF EpilogueInv, Progress
<1>3. pc[w] = "groups" /\ part = s
  BY <1>1, <1>2 DEF WarpOk
<1>4. Promoted(w, Slot(s)) = s
  <2>1. \A m \in ScaleLanes : scale[Cta(w)][Slot(s)][m] = s
    BY <1>1, ScaleHeld DEF RingInv
  <2> QED BY <2>1, <1>3 DEF Promoted
<1>5. total' = [total EXCEPT ![w] = new]
  <2>1. total' = [total EXCEPT ![w][l] = Append(@, s)]
    BY <1>1, <1>4
  <2> QED BY <2>1 DEF Appended
<1>6. part = s /\ partial' = [partial EXCEPT ![w] = s] /\ exchange' = [exchange EXCEPT ![w] = ex]
      /\ output' = [output EXCEPT ![w] = out]
  BY <1>1, <1>3, Keeps
<1>7. CASE h # {l}
  <2>1. WarpOk(w, "groups", s, h \ {l}, b, s, new, ex, out)
    BY <1>1, <1>2, <1>3, <1>7, ReleaseOk
  <2>2. pc' = [pc EXCEPT ![w] = "groups"] /\ sequence' = [sequence EXCEPT ![w] = s]
    BY <1>1, <1>3, <1>7, Keeps
  <2>3. PositionAt("groups", s, b) = Position(w)
    BY <1>3 DEF Position
  <2>4. /\ EpilogueInv /\ ConsumerTypes /\ b = sub[w] /\ (Late("groups") <=> Late(pc[w]))
        /\ held' = [held EXCEPT ![w] = h \ {l}] /\ UNCHANGED sub
    BY <1>1, <1>3
  <2> QED BY ONLY <1>5, <1>6, <2>1, <2>2, <2>3, <2>4, w \in ConsumerWarps, OneWarp
<1>8. CASE h = {l}
  <2>1. PICK p : p = IF (s + 1) % Groups = 0 THEN "write" ELSE "groups"
    OBVIOUS
  <2>2. WarpOk(w, "groups", s, {l}, b, s, tot, ex, out)
    BY <1>2, <1>3, <1>8
  <2>3. /\ WarpOk(w, p, s + 1, {}, b, s, new, ex, out)
        /\ PositionAt(p, s + 1, b) = PositionAt("groups", s, b)
    BY <1>1, <2>1, <2>2, LastOk
  <2>4. pc' = [pc EXCEPT ![w] = p] /\ sequence' = [sequence EXCEPT ![w] = s + 1]
        /\ held' = [held EXCEPT ![w] = {}]
    BY <1>1, <1>3, <1>8, <2>1, Keeps
  <2>5. PositionAt(p, s + 1, b) = Position(w) /\ ~Late(p) /\ ~Late(pc[w])
    BY <1>3, <2>1, <2>3 DEF Position, Late
  <2>6. EpilogueInv /\ ConsumerTypes /\ b = sub[w] /\ UNCHANGED sub
    BY <1>1
  <2> QED BY ONLY <1>5, <1>6, <2>3, <2>4, <2>5, <2>6, w \in ConsumerWarps, OneWarp
<1> QED BY <1>7, <1>8

LEMMA WriteExchangeEpilogue ==
  ASSUME RingInv, EpilogueInv, NEW w \in ConsumerWarps, WriteExchange(w)
  PROVE  EpilogueInv'
<1> SUFFICES ASSUME NEW s, s = sequence[w], NEW h, h = held[w], NEW tot, tot = total[w],
                    NEW old, old = exchange[w], NEW out, out = output[w],
                    NEW part, part = partial[w], NEW b, b = sub[w], NEW ex, ex = [sub |-> b, rows |-> tot]
             PROVE  EpilogueInv'
  OBVIOUS
<1>1. /\ ConsumerTypes /\ pc[w] = "write"
      /\ UNCHANGED <<sequence, held, partial, total, sub, output>>
      /\ exchange' = [exchange EXCEPT ![w] = ex] /\ pc' = [pc EXCEPT ![w] = "written"]
  BY DEF RingInv, WriteExchange, consumers
<1>2. WarpOk(w, "write", s, h, b, part, tot, old, out)
  BY <1>1 DEF EpilogueInv, Progress
<1>3. WarpOk(w, "written", s, h, b, part, tot, ex, out)
  BY <1>2 DEF WarpOk, TileAt, PositionAt, Promotions, Bit
<1>4. PositionAt("written", s, b) = Position(w) /\ ~Late("written") /\ ~Late(pc[w])
  BY <1>1 DEF Position, PositionAt, TileAt, Late
<1>5. /\ sequence' = [sequence EXCEPT ![w] = s] /\ held' = [held EXCEPT ![w] = h]
      /\ partial' = [partial EXCEPT ![w] = part] /\ total' = [total EXCEPT ![w] = tot]
      /\ output' = [output EXCEPT ![w] = out]
  BY <1>1, Keeps
<1>6. EpilogueInv /\ b = sub[w]
  OBVIOUS
<1> QED BY ONLY <1>1, <1>3, <1>4, <1>5, <1>6, w \in ConsumerWarps, OneWarp

\* The promotion groups are disjoint.
LEMMA PartsApart ==
  ASSUME NEW c, NEW p, NEW d, NEW q, NEW w \in PartOf(c, p), w \in PartOf(d, q)
  PROVE  c = d /\ p = q
BY DEF PartOf

LEMMA MatesOf ==
  ASSUME NEW w \in ConsumerWarps
  PROVE  /\ w \in PartMates(w) /\ PartMates(w) \subseteq ConsumerWarps
         /\ \E c \in CTAs, p \in Parts : PartMates(w) = PartOf(c, p)
BY DEF PartMates, PartOf, ConsumerWarps

\* Between the two barriers, an exchange buffer holds the warp's share of the
\* block of its position.
LEMMA LateExchange ==
  ASSUME RingInv, EpilogueInv, NEW v \in ConsumerWarps, Late(pc[v]), NEW n, n = Position(v)
  PROVE  /\ n \in 0 .. Tiles * Subs - 1
         /\ exchange[v] = [sub |-> n % Subs, rows |-> [l \in Lanes |-> TileSum(n \div Subs)]]
<1> SUFFICES ASSUME NEW s, s = sequence[v], NEW b, b = sub[v], NEW p, p = pc[v],
                    NEW t, t = s \div Groups - 1
             PROVE  /\ n \in 0 .. Tiles * Subs - 1
                    /\ exchange[v] = [sub |-> n % Subs,
                                      rows |-> [l \in Lanes |-> TileSum(n \div Subs)]]
  OBVIOUS
<1>1. WarpOk(v, p, s, held[v], b, partial[v], total[v], exchange[v], output[v])
  BY DEF EpilogueInv, Progress
<1>2. /\ p # "groups" /\ s \in 0 .. Steps /\ b \in 0 .. Subs - 1 /\ s % Groups = 0 /\ s > 0
      /\ Subs \in Nat \ {0}
  BY <1>1, SizeAssumption DEF WarpOk, Late, RingInv, ConsumerTypes
<1>3. TileAt(p, s) = t /\ n = t * Subs + b
  BY <1>2 DEF TileAt, Position, PositionAt
<1>4. t \in Nat /\ t * Subs + b \in 0 .. Tiles * Subs - 1
  BY <1>2, TileRange
<1>5. n \div Subs = t /\ n % Subs = b
  <2>1. (t * Subs + b) \div Subs = t /\ (t * Subs + b) % Subs = b
    BY ONLY <1>2, <1>4, Division
  <2> QED BY <2>1, <1>3
<1>6. exchange[v] = [sub |-> b, rows |-> [l \in Lanes |-> Sum(t, Groups)]]
  BY <1>1, <1>2, <1>3 DEF WarpOk, Promotions, Late
<1>7. Sum(t, Groups) = TileSum(t)
  BY DEF Sum, TileSum
<1> QED BY <1>3, <1>4, <1>5, <1>6, <1>7

\* What StoreRows appends is the next block of the warp.
LEMMA StoresBlock ==
  ASSUME RingInv, EpilogueInv, NEW w \in ConsumerWarps, pc[w] = "store", NEW n, n = Position(w)
  PROVE  /\ n \in 0 .. Tiles * Subs - 1 /\ output[w] = Stored(w, n)
         /\ [v \in PartMates(w) |-> exchange[v]] = Block(w, n)
<1>1. \A v \in PartMates(w) : v \in ConsumerWarps /\ Mates(v, w)
  BY MatesOf DEF EpilogueInv
<1>2. \A v \in PartMates(w) : Late(pc[v]) /\ n = Position(v)
  BY <1>1 DEF Mates, Late
<1>3. \A v \in PartMates(w) :
        exchange[v] = [sub |-> n % Subs, rows |-> [l \in Lanes |-> TileSum(n \div Subs)]]
  BY <1>1, <1>2, LateExchange
<1>4. n \in 0 .. Tiles * Subs - 1
  BY LateExchange DEF Late
<1>5. n \in Nat
  BY <1>4, SizeAssumption
<1>6. output[w] = Stored(w, n)
  BY <1>5 DEF EpilogueInv, Progress, WarpOk, Position, Bit
<1> QED BY <1>3, <1>4, <1>6 DEF Block

LEMMA StoreRowsEpilogue ==
  ASSUME RingInv, EpilogueInv, NEW w \in ConsumerWarps, StoreRows(w)
  PROVE  EpilogueInv'
<1> SUFFICES ASSUME NEW s, s = sequence[w], NEW h, h = held[w], NEW tot, tot = total[w],
                    NEW ex, ex = exchange[w], NEW out, out = output[w],
                    NEW part, part = partial[w], NEW b, b = sub[w], NEW n, n = Position(w),
                    NEW new, new = Stored(w, n + 1)
             PROVE  EpilogueInv'
  OBVIOUS
<1>1. /\ ConsumerTypes /\ pc[w] = "store"
      /\ UNCHANGED <<sequence, held, partial, total, sub, exchange>>
      /\ output' = [output EXCEPT ![w] = Append(@, [v \in PartMates(w) |-> exchange[v]])]
      /\ pc' = [pc EXCEPT ![w] = "stored"]
  BY DEF RingInv, StoreRows, consumers
<1>2. WarpOk(w, "store", s, h, b, part, tot, ex, out)
  BY <1>1 DEF EpilogueInv, Progress
<1>3. n \in Nat /\ out = Stored(w, n) /\ [v \in PartMates(w) |-> exchange[v]] = Block(w, n)
  <2>1. n \in 0 .. Tiles * Subs - 1
    BY <1>1, StoresBlock
  <2> QED BY <1>1, <2>1, StoresBlock, SizeAssumption
<1>4. Append(out, Block(w, n)) = new
  BY <1>3, StoredAppend
<1>5. output' = [output EXCEPT ![w] = new]
  BY <1>1, <1>3, <1>4
<1>6. PositionAt("stored", s, b) = n /\ PositionAt("store", s, b) = n
  BY <1>1 DEF Position, PositionAt, TileAt
<1>7. WarpOk(w, "stored", s, h, b, part, tot, ex, new)
  BY <1>2, <1>6 DEF WarpOk, TileAt, Promotions, Bit
<1>8. /\ sequence' = [sequence EXCEPT ![w] = s] /\ held' = [held EXCEPT ![w] = h]
      /\ partial' = [partial EXCEPT ![w] = part] /\ total' = [total EXCEPT ![w] = tot]
      /\ exchange' = [exchange EXCEPT ![w] = ex] /\ pc' = [pc EXCEPT ![w] = "stored"]
      /\ UNCHANGED sub /\ EpilogueInv /\ ConsumerTypes /\ b = sub[w]
  BY <1>1, Keeps
<1>9. PositionAt("stored", s, b) = Position(w) /\ (Late("stored") <=> Late(pc[w]))
  BY <1>1, <1>6 DEF Late
<1> QED BY ONLY <1>5, <1>7, <1>8, <1>9, w \in ConsumerWarps, OneWarp

LEMMA SyncWrittenEpilogue ==
  ASSUME RingInv, EpilogueInv, NEW c \in CTAs, NEW p \in Parts, SyncWritten(c, p)
  PROVE  EpilogueInv'
<1>1. /\ UNCHANGED <<sequence, held, partial, total, sub, exchange, output>>
      /\ pc' = [w \in ConsumerWarps |-> IF w \in PartOf(c, p) THEN "store" ELSE pc[w]]
      /\ \A w \in PartOf(c, p) : pc[w] = "written"
  BY DEF SyncWritten, AllWarpsAt, consumers, epilogue
<1>2. \A d \in CTAs, q \in Parts : PartOf(d, q) \subseteq ConsumerWarps
  BY DEF PartOf
<1>3. ASSUME NEW w \in ConsumerWarps
      PROVE  /\ Progress(w)' /\ Position(w)' = Position(w)
             /\ Late(pc[w])' <=> (w \in PartOf(c, p) \/ Late(pc[w]))
  <2>1. Progress(w)
    BY DEF EpilogueInv
  <2>2. CASE w \in PartOf(c, p)
    <3>1. pc[w] = "written" /\ pc'[w] = "store"
      BY <1>1, <2>2
    <3> QED BY <1>1, <2>1, <2>2, <3>1
            DEF Progress, WarpOk, TileAt, Position, PositionAt, Promotions, Bit, Late
  <2>3. CASE w \notin PartOf(c, p)
    <3>1. pc'[w] = pc[w]
      BY <1>1, <2>3
    <3> QED BY <1>1, <2>1, <2>3, <3>1 DEF Progress, Position
  <2> QED BY <2>2, <2>3
<1>4. ASSUME NEW d \in CTAs, NEW q \in Parts, NEW u \in PartOf(d, q), NEW v \in PartOf(d, q)
      PROVE  Mates(u, v)'
  <2>1. Mates(u, v) /\ u \in ConsumerWarps /\ v \in ConsumerWarps
    BY <1>2 DEF EpilogueInv
  <2>2. u \in PartOf(c, p) <=> v \in PartOf(c, p)
    BY PartsApart
  <2> QED BY <1>3, <2>1, <2>2 DEF Mates
<1> QED BY <1>1, <1>3, <1>4 DEF EpilogueInv

\* A warp goes on to its next sub-tile, or to the next tile from zero.
GoesOn(b, tot, p, a, new) ==
  /\ p = IF b + 1 = Subs THEN "groups" ELSE "write"
  /\ a = IF b + 1 = Subs THEN 0 ELSE b + 1
  /\ new = IF b + 1 = Subs THEN [l \in Lanes |-> <<>>] ELSE tot

LEMMA StoredOk ==
  ASSUME NEW w, NEW s \in Nat, NEW h, NEW b \in 0 .. Subs - 1, NEW part, NEW tot, NEW ex, NEW out,
         WarpOk(w, "stored", s, h, b, part, tot, ex, out),
         NEW p, NEW a, NEW new, GoesOn(b, tot, p, a, new)
  PROVE  /\ WarpOk(w, p, s, h, a, part, new, ex, out)
         /\ PositionAt(p, s, a) = PositionAt("stored", s, b) + 1
<1> USE DEF GoesOn
<1>1. Groups \in Nat \ {0} /\ Subs \in Nat \ {0} /\ s % Groups = 0 /\ s > 0 /\ h = {}
  BY SizeAssumption DEF WarpOk
<1>2. PICK t : t = s \div Groups
  OBVIOUS
<1>3. t \in Nat
  BY <1>1, <1>2, Modulo
<1>4. TileAt("stored", s) = t - 1 /\ TileAt("groups", s) = t /\ TileAt("write", s) = t - 1
  BY <1>2 DEF TileAt
<1>5. PositionAt(p, s, a) = PositionAt("stored", s, b) + 1
  <2>1. CASE b + 1 = Subs
    <3>1. t * Subs + 0 = (t - 1) * Subs + b + 1
      BY <1>1, <1>3, <2>1
    <3> QED BY <1>4, <2>1, <3>1 DEF PositionAt
  <2>2. CASE b + 1 # Subs
    <3>1. (t - 1) * Subs \in Int
      BY <1>1, <1>3
    <3> QED BY <1>4, <2>2, <3>1 DEF PositionAt
  <2> QED BY <2>1, <2>2
<1>6. PositionAt("stored", s, b) \in Int
  <2>1. (t - 1) * Subs \in Int
    BY <1>1, <1>3
  <2> QED BY <1>4, <2>1 DEF PositionAt
<1>7. out = Stored(w, PositionAt(p, s, a) + Bit(p = "stored"))
  <2>1. p # "stored"
    OBVIOUS
  <2>2. out = Stored(w, PositionAt("stored", s, b) + 1)
    BY DEF WarpOk, Bit
  <2> QED BY <1>5, <1>6, <2>1, <2>2 DEF Bit
<1>8. new = [l \in Lanes |-> Sum(TileAt(p, s), Promotions(p, s, h, l))]
  <2>1. CASE b + 1 = Subs
    <3>1. \A l \in Lanes : Promotions(p, s, h, l) = 0
      BY <1>1, <2>1 DEF Promotions, Bit
    <3>2. Sum(t, 0) = <<>>
      BY DEF Sum
    <3> QED BY <1>4, <2>1, <3>1, <3>2
  <2>2. CASE b + 1 # Subs
    <3>1. \A l \in Lanes : Promotions(p, s, h, l) = Promotions("stored", s, h, l)
      BY <2>2 DEF Promotions
    <3> QED BY <1>4, <2>2, <3>1 DEF WarpOk
  <2> QED BY <2>1, <2>2
<1> QED BY <1>1, <1>5, <1>7, <1>8 DEF WarpOk

LEMMA SyncStoredEpilogue ==
  ASSUME RingInv, EpilogueInv, NEW c \in CTAs, NEW p \in Parts, SyncStored(c, p)
  PROVE  EpilogueInv'
<1> DEFINE Last(w) == sub[w] + 1 = Subs
<1>1. /\ UNCHANGED <<sequence, held, partial, exchange, output>>
      /\ \A w \in PartOf(c, p) : pc[w] = "stored"
      /\ pc' = [w \in ConsumerWarps |-> IF w \notin PartOf(c, p) THEN pc[w]
                                       ELSE IF Last(w) THEN "groups" ELSE "write"]
      /\ sub' = [w \in ConsumerWarps |-> IF w \notin PartOf(c, p) THEN sub[w]
                                        ELSE IF Last(w) THEN 0 ELSE sub[w] + 1]
      /\ total' = [w \in ConsumerWarps |-> IF w \in PartOf(c, p) THEN SumAfter(w, Last(w))
                                          ELSE total[w]]
  BY DEF SyncStored, AllWarpsAt
<1>2. \A d \in CTAs, q \in Parts : PartOf(d, q) \subseteq ConsumerWarps
  BY DEF PartOf
<1>3. ASSUME NEW w \in ConsumerWarps, w \notin PartOf(c, p)
      PROVE  Progress(w)' /\ Position(w)' = Position(w) /\ (Late(pc[w])' <=> Late(pc[w]))
  <2>1. pc'[w] = pc[w] /\ sub'[w] = sub[w] /\ total'[w] = total[w]
    BY <1>1, <1>3
  <2>2. Progress(w)
    BY DEF EpilogueInv
  <2> QED BY <1>1, <2>1, <2>2 DEF Progress, Position
<1>4. ASSUME NEW w \in ConsumerWarps, w \in PartOf(c, p)
      PROVE  Progress(w)' /\ Position(w)' = Position(w) + 1 /\ ~Late(pc[w])'
  <2> SUFFICES ASSUME NEW s, s = sequence[w], NEW h, h = held[w], NEW b, b = sub[w],
                      NEW part, part = partial[w], NEW tot, tot = total[w],
                      NEW ex, ex = exchange[w], NEW out, out = output[w],
                      NEW at, NEW a, NEW new, GoesOn(b, tot, at, a, new)
               PROVE  Progress(w)' /\ Position(w)' = Position(w) + 1 /\ ~Late(pc[w])'
    BY DEF GoesOn
  <2>1. WarpOk(w, "stored", s, h, b, part, tot, ex, out)
    BY <1>1, <1>4 DEF EpilogueInv, Progress
  <2>2. s \in Nat /\ b \in 0 .. Subs - 1
    BY Sizes DEF RingInv, ConsumerTypes
  <2>3. /\ WarpOk(w, at, s, h, a, part, new, ex, out)
        /\ PositionAt(at, s, a) = PositionAt("stored", s, b) + 1
    BY <2>1, <2>2, StoredOk
  <2>4. pc'[w] = at /\ sub'[w] = a /\ total'[w] = new
    BY <1>1, <1>4 DEF SumAfter, GoesOn
  <2>5. sequence'[w] = s /\ held'[w] = h /\ partial'[w] = part /\ exchange'[w] = ex /\ output'[w] = out
    BY <1>1
  <2>6. Progress(w)'
    BY <2>3, <2>4, <2>5 DEF Progress
  <2>7. Position(w) = PositionAt("stored", s, b) /\ Position(w)' = PositionAt(at, s, a)
    BY <1>1, <1>4, <2>4, <2>5 DEF Position
  <2>8. ~Late(pc[w])'
    BY <2>4 DEF Late, GoesOn
  <2> QED BY <2>3, <2>6, <2>7, <2>8
<1>5. ASSUME NEW d \in CTAs, NEW q \in Parts, NEW u \in PartOf(d, q), NEW v \in PartOf(d, q)
      PROVE  Mates(u, v)'
  <2>1. Mates(u, v) /\ u \in ConsumerWarps /\ v \in ConsumerWarps
    BY <1>2 DEF EpilogueInv
  <2>2. CASE u \in PartOf(c, p) /\ v \in PartOf(c, p)
    BY <1>4, <2>1, <2>2 DEF Mates
  <2>3. CASE u \notin PartOf(c, p) /\ v \notin PartOf(c, p)
    BY <1>3, <2>1, <2>3 DEF Mates
  <2> QED BY <2>2, <2>3, PartsApart
<1>6. total' = [w \in ConsumerWarps |-> total'[w]]
  BY <1>1
<1> QED BY <1>1, <1>3, <1>4, <1>5, <1>6 DEF EpilogueInv

LEMMA EpilogueNext ==
  ASSUME RingInv, EpilogueInv, [Next]_vars
  PROVE  EpilogueInv'
<1>0. RingInv'
  BY RingNext
<1>1. CASE \E c \in CTAs : TmaIssue(c)
  BY <1>1, EpilogueUnchanged DEF TmaIssue, consumers, epilogue
<1>2. CASE \E c \in CTAs, k \in Slots : TmaLand(c, k)
  BY <1>2, EpilogueUnchanged DEF TmaLand, consumers, epilogue
<1>3. CASE \E c \in CTAs, l \in ScaleLanes : ScaleIssue(c, l) \/ ScalePublish(c, l)
  BY <1>3, EpilogueUnchanged DEF ScaleIssue, ScalePublish, consumers, epilogue
<1>4. CASE MmaIssue \/ MmaRetire
  BY <1>4, EpilogueUnchanged DEF MmaIssue, MmaRetire, consumers, epilogue
<1>5. CASE \E c \in CTAs, k \in Slots : CommitEmpty(c, k)
  BY <1>5, EpilogueUnchanged DEF CommitEmpty, consumers, epilogue
<1>6. CASE \E c \in CTAs, j \in Stages : CommitFull(c, j)
  BY <1>6, EpilogueUnchanged DEF CommitFull, consumers, epilogue
<1>7. CASE \E w \in ConsumerWarps : ConsumerRead(w)
  BY <1>0, <1>7, ConsumerReadEpilogue
<1>8. CASE \E w \in ConsumerWarps, l \in Lanes : ConsumerRelease(w, l)
  BY <1>8, ConsumerReleaseEpilogue
<1>9. CASE \E w \in ConsumerWarps : WriteExchange(w)
  BY <1>9, WriteExchangeEpilogue
<1>10. CASE \E w \in ConsumerWarps : StoreRows(w)
  BY <1>10, StoreRowsEpilogue
<1>11. CASE \E c \in CTAs, p \in Parts : SyncWritten(c, p)
  BY <1>11, SyncWrittenEpilogue
<1>12. CASE \E c \in CTAs, p \in Parts : SyncStored(c, p)
  BY <1>12, SyncStoredEpilogue
<1>13. CASE FreeTmem \/ UNCHANGED vars
  BY <1>13, EpilogueUnchanged DEF FreeTmem, vars, consumers, epilogue
<1> QED BY <1>1, <1>2, <1>3, <1>4, <1>5, <1>6, <1>7, <1>8, <1>9, <1>10, <1>11, <1>12, <1>13
        DEF Next, Terminated

-----------------------------------------------------------------------------
(* The refinement.                                                         *)

LEMMA StreamStore ==
  ASSUME RingInv, EpilogueInv, NEW w \in ConsumerWarps, StoreRows(w)
  PROVE  Stream!Store(w)
<1> SUFFICES ASSUME NEW n, n = Position(w) PROVE Stream!Store(w)
  OBVIOUS
<1>1. /\ pc[w] = "store" /\ UNCHANGED freed
      /\ output' = [output EXCEPT ![w] = Append(@, [v \in PartMates(w) |-> exchange[v]])]
  BY DEF StoreRows
<1>2. /\ n \in 0 .. Tiles * Subs - 1 /\ output[w] = Stored(w, n)
      /\ [v \in PartMates(w) |-> exchange[v]] = Block(w, n)
  BY <1>1, StoresBlock
<1>3. Tiles * Subs \in Nat
  BY SizeAssumption
<1>4. Len(output[w]) = n
  BY <1>2, <1>3, StoredAppend
<1>5. BlocksOf[w][n + 1] = Block(w, n)
  <2>1. PICK i : i = n + 1
    OBVIOUS
  <2>2. i \in 1 .. Tiles * Subs /\ i - 1 = n
    BY <1>2, <1>3, <2>1
  <2>3. BlocksOf[w] = [j \in 1 .. Tiles * Subs |-> Block(w, j - 1)]
    BY DEF BlocksOf
  <2>4. BlocksOf[w][i] = Block(w, i - 1)
    BY <2>2, <2>3
  <2> QED BY <2>1, <2>2, <2>4
<1>6. Len(output[w]) < Tiles * Subs
  BY <1>2, <1>3, <1>4
<1>7. output' = [output EXCEPT ![w] = Append(@, BlocksOf[w][Len(@) + 1])]
  BY <1>1, <1>2, <1>4, <1>5
<1> QED BY <1>1, <1>6, <1>7 DEF Stream!Store

LEMMA StreamReturn ==
  ASSUME RingInv, EpilogueInv, FreeTmem
  PROVE  Stream!Return
<1>1. ~freed /\ freed' = TRUE /\ UNCHANGED output /\ RolesJoined
  BY DEF FreeTmem, epilogue
<1>2. ASSUME NEW w \in ConsumerWarps PROVE Len(output[w]) = Tiles * Subs
  <2>1. pc[w] = "groups" /\ sequence[w] = Tiles * Groups /\ sub[w] = 0
    BY <1>1 DEF RolesJoined, Steps, EpilogueInv, Progress, WarpOk
  <2>2. PICK z : z = 0
    OBVIOUS
  <2>3. Tiles \in Nat /\ Groups \in Nat \ {0} /\ Subs \in Nat /\ z \in 0 .. Groups - 1
    BY <2>2, SizeAssumption
  <2>4. (Tiles * Groups + z) \div Groups = Tiles
    BY ONLY <2>3, Division
  <2>5. Tiles * Groups + z = Tiles * Groups
    BY <2>2, <2>3
  <2>6. Position(w) = Tiles * Subs /\ Tiles * Subs \in Nat
    BY <2>1, <2>3, <2>4, <2>5 DEF Position, PositionAt, TileAt
  <2>7. output[w] = Stored(w, Tiles * Subs)
    BY <2>1, <2>6 DEF EpilogueInv, Progress, WarpOk, Position, Bit
  <2> QED BY <2>6, <2>7, StoredAppend
<1> QED BY <1>1, <1>2 DEF Stream!Return

LEMMA StreamStep ==
  ASSUME RingInv, EpilogueInv, [Next]_vars
  PROVE  [Stream!Next]_Stream!vars
<1>1. CASE \E w \in ConsumerWarps : StoreRows(w)
  BY <1>1, StreamStore DEF Stream!Next
<1>2. CASE FreeTmem
  BY <1>2, StreamReturn DEF Stream!Next
<1>3. CASE ~FreeTmem /\ ~(\E w \in ConsumerWarps : StoreRows(w))
  <2>1. UNCHANGED <<output, freed>>
    BY <1>3 DEF Next, vars, TmaIssue, TmaLand, ScaleIssue, ScalePublish, MmaIssue, MmaRetire,
       CommitEmpty, CommitFull, ConsumerRead, ConsumerRelease, WriteExchange, SyncWritten,
       SyncStored, Terminated, epilogue
  <2> QED BY <2>1 DEF Stream!vars
<1> QED BY <1>1, <1>2, <1>3

\* The pipeline implements the promise of a tiled kernel, for any number of
\* tiles, groups, sub-tiles, warps and lanes: the blocks each consumer warp
\* stores are those of TileStream, in order, and the kernel returns only when
\* all are stored.
THEOREM PipelineImplements == Spec => ImplementsTileStream
<1>1. Init => EpilogueInv
  BY EpilogueInit
<1>2. RingInv /\ EpilogueInv /\ [Next]_vars => EpilogueInv'
  BY EpilogueNext
<1>3. Init => Stream!Init
  BY DEF Init, Stream!Init
<1>4. RingInv /\ EpilogueInv /\ [Next]_vars => [Stream!Next]_Stream!vars
  BY StreamStep
<1> QED BY <1>1, <1>2, <1>3, <1>4, RingsHold, PTL DEF Spec, ImplementsTileStream, Stream!Spec
=============================================================================
