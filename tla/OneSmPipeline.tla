---------------------------- MODULE OneSmPipeline ----------------------------
(***************************************************************************)
(* One block of the warp-specialised one-SM G256 kernel (thor_ws1): three  *)
(* rings over the K groups of a single tile, then an epilogue that stages  *)
(* the BF16 result in the operands' own shared memory.                     *)
(*                                                                         *)
(* Data are tags: a buffer holds the group it was filled for, Garbage      *)
(* while it is being written, or Staged once the epilogue has it.          *)
(***************************************************************************)
EXTENDS Mbarrier, FiniteSets, Sequences

CONSTANTS
  P,           \* operand and scale slots
  Groups,      \* K groups of the tile
  ScaleLanes,  \* lanes of the scale producer warp
  Warps, Lanes \* consumer warps, and the lanes of each

SizeAssumption == P \in Nat \ {0, 1} /\ Groups \in Nat \ {0}
ThreadAssumption ==
  /\ IsFiniteSet(ScaleLanes) /\ ScaleLanes # {}
  /\ IsFiniteSet(Warps) /\ Warps # {} /\ IsFiniteSet(Lanes) /\ Lanes # {}

VARIABLES
  operand_full, operand_empty, accumulator_full, accumulator_empty,
  scale_full, scale_empty,
  operand, scale, tmem,   \* what the buffers hold
  tma, sf, mma, retired,  \* groups issued by each producer; MMAs completed
  owed_empty, owed_full,  \* commit arrivals not yet delivered
  group, held,            \* consumer warps: next group; lanes still reading
  partial, total,         \* registers
  phase, at_barrier,      \* between which __syncthreads; warps at the next
  exchange, output        \* rows staged by each warp; rows each warp's store read

full_empty == <<operand_full, operand_empty, accumulator_full, accumulator_empty,
                scale_full, scale_empty>>
buffers == <<operand, scale, tmem>>
matrix == <<mma, retired, owed_empty, owed_full>>
consumers == <<group, held, partial, total>>
epilogue == <<phase, at_barrier, exchange, output>>
vars == <<full_empty, buffers, tma, sf, matrix, consumers, epilogue>>

Slots == 0 .. P - 1
Stages == {0, 1}
Garbage == -1
Staged == -2
ThisLap(g, n) == (g \div n) % 2
LastLap(g, n) == ((g \div n) - 1) % 2
Threads == Warps \X Lanes
PerThread == Cardinality(Threads)
ScaleWriters == Cardinality(ScaleLanes)

Init ==
  /\ operand_full = [k \in Slots |-> NewBarrier(1)]
  /\ operand_empty = [k \in Slots |-> NewBarrier(1)]
  /\ scale_full = [k \in Slots |-> NewBarrier(ScaleWriters)]
  /\ scale_empty = [k \in Slots |-> NewBarrier(PerThread)]
  /\ accumulator_full = [j \in Stages |-> NewBarrier(1)]
  /\ accumulator_empty = [j \in Stages |-> NewBarrier(PerThread)]
  /\ operand = [k \in Slots |-> [group |-> Garbage, landed |-> TRUE]]
  /\ scale = [k \in Slots |-> [l \in ScaleLanes |-> Garbage]]
  /\ tmem = [j \in Stages |-> Garbage]
  /\ tma = 0 /\ sf = [l \in ScaleLanes |-> 0] /\ mma = 0 /\ retired = 0
  /\ owed_empty = [k \in Slots |-> 0] /\ owed_full = [j \in Stages |-> 0]
  /\ group = [w \in Warps |-> 0] /\ held = [w \in Warps |-> {}]
  /\ partial = [w \in Warps |-> Garbage]
  /\ total = [t \in Threads |-> <<>>]
  /\ phase = "rings" /\ at_barrier = {} /\ exchange = [w \in Warps |-> {}] /\ output = [w \in Warps |-> {}]

-----------------------------------------------------------------------------
SlotFreeSameParity(g) == g >= P => Passes(operand_empty[g % P], ThisLap(g, P))
SlotFree(g) == g >= P => Passes(operand_empty[g % P], LastLap(g, P))

TmaIssue ==
  LET k == tma % P
  IN /\ tma < Groups /\ SlotFree(tma)
     /\ operand_full' = [operand_full EXCEPT ![k] = ArriveExpectTx(@, 1)]
     /\ operand' = [operand EXCEPT ![k] = [group |-> tma, landed |-> FALSE]]
     /\ tma' = tma + 1
     /\ UNCHANGED <<operand_empty, accumulator_full, accumulator_empty, scale_full,
                    scale_empty, scale, tmem, sf, matrix, consumers, epilogue>>

TmaLand(k) ==
  /\ ~operand[k].landed
  /\ operand' = [operand EXCEPT ![k].landed = TRUE]
  /\ operand_full' = [operand_full EXCEPT ![k] = CompleteTx(@, 1)]
  /\ UNCHANGED <<operand_empty, accumulator_full, accumulator_empty, scale_full,
                 scale_empty, scale, tmem, tma, sf, matrix, consumers, epilogue>>

\* A lane stores its scales and publishes them itself; no lane waits for the
\* others between groups.
ScaleSlotFree(g) == g >= P => Passes(scale_empty[g % P], LastLap(g, P))

ScaleStore(l) ==
  LET g == sf[l]
  IN /\ g < Groups /\ ScaleSlotFree(g)
     /\ scale' = [scale EXCEPT ![g % P][l] = g]
     /\ scale_full' = [scale_full EXCEPT ![g % P] = Arrive(@)]
     /\ sf' = [sf EXCEPT ![l] = g + 1]
     /\ UNCHANGED <<operand_full, operand_empty, accumulator_full, accumulator_empty,
                    scale_empty, operand, tmem, tma, matrix, consumers, epilogue>>

BufferFree(g) == g >= 2 => Passes(accumulator_empty[g % 2], LastLap(g, 2))

MmaIssue ==
  /\ mma < Groups /\ BufferFree(mma)
  /\ Passes(operand_full[mma % P], ThisLap(mma, P))
  /\ tmem' = [tmem EXCEPT ![mma % 2] = Garbage]
  /\ mma' = mma + 1
  /\ UNCHANGED <<full_empty, operand, scale, tma, sf, retired, owed_empty, owed_full,
                 consumers, epilogue>>

Product(k) == IF operand[k].landed THEN operand[k].group ELSE Garbage
MmaRetire ==
  /\ retired < mma
  /\ tmem' = [tmem EXCEPT ![retired % 2] = Product(retired % P)]
  /\ retired' = retired + 1
  /\ owed_empty' = [owed_empty EXCEPT ![retired % P] = @ + 1]
  /\ owed_full' = [owed_full EXCEPT ![retired % 2] = @ + 1]
  /\ UNCHANGED <<full_empty, operand, scale, tma, sf, mma, consumers, epilogue>>

CommitEmpty(k) ==
  /\ owed_empty[k] > 0
  /\ owed_empty' = [owed_empty EXCEPT ![k] = @ - 1]
  /\ operand_empty' = [operand_empty EXCEPT ![k] = Arrive(@)]
  /\ UNCHANGED <<operand_full, accumulator_full, accumulator_empty, scale_full,
                 scale_empty, buffers, tma, sf, mma, retired, owed_full, consumers,
                 epilogue>>

CommitFull(j) ==
  /\ owed_full[j] > 0
  /\ owed_full' = [owed_full EXCEPT ![j] = @ - 1]
  /\ accumulator_full' = [accumulator_full EXCEPT ![j] = Arrive(@)]
  /\ UNCHANGED <<operand_full, operand_empty, accumulator_empty, scale_full,
                 scale_empty, buffers, tma, sf, mma, retired, owed_empty, consumers,
                 epilogue>>

ConsumerRead(w) ==
  LET g == group[w]
  IN /\ g < Groups /\ held[w] = {}
     /\ Passes(accumulator_full[g % 2], ThisLap(g, 2))
     /\ Passes(scale_full[g % P], ThisLap(g, P))
     /\ held' = [held EXCEPT ![w] = Lanes]
     /\ partial' = [partial EXCEPT ![w] = tmem[g % 2]]
     /\ UNCHANGED <<full_empty, buffers, tma, sf, matrix, group, total, epilogue>>

\* A fragment times the slot's scales; anything mixed is garbage.
Promoted(w, k) ==
  IF \A l \in ScaleLanes : scale[k][l] = partial[w] THEN partial[w] ELSE Garbage

ConsumerRelease(w, l) ==
  LET g == group[w]
  IN /\ l \in held[w]
     /\ held' = [held EXCEPT ![w] = @ \ {l}]
     /\ total' = [total EXCEPT ![<<w, l>>] = Append(@, Promoted(w, g % P))]
     /\ accumulator_empty' = [accumulator_empty EXCEPT ![g % 2] = Arrive(@)]
     /\ scale_empty' = [scale_empty EXCEPT ![g % P] = Arrive(@)]
     /\ group' = IF held[w] = {l} THEN [group EXCEPT ![w] = g + 1] ELSE group
     /\ UNCHANGED <<operand_full, operand_empty, accumulator_full, scale_full, buffers,
                    tma, sf, matrix, partial, epilogue>>

-----------------------------------------------------------------------------
ProducersDone == tma = Groups /\ mma = Groups /\ \A l \in ScaleLanes : sf[l] = Groups
AllRolesDone == ProducersDone /\ \A w \in Warps : group[w] = Groups

Joined ==
  /\ phase = "rings" /\ AllRolesDone
  /\ phase' = "write"
  /\ UNCHANGED <<full_empty, buffers, tma, sf, matrix, consumers, at_barrier, exchange, output>>

\* A warp rounds its sums to BF16 into the storage of the operands.
WriteExchange(w) ==
  /\ phase = "write" /\ w \notin at_barrier
  /\ operand' = [k \in Slots |-> [group |-> Staged, landed |-> operand[k].landed]]
  /\ exchange' = [exchange EXCEPT ![w] = {total[<<w, l>>] : l \in Lanes}]
  /\ at_barrier' = at_barrier \cup {w}
  /\ UNCHANGED <<full_empty, scale, tmem, tma, sf, matrix, consumers, phase, output>>

Everyone == at_barrier = Warps

\* A __syncthreads of the epilogue.
Sync ==
  /\ phase \in {"write", "store"} /\ Everyone
  /\ phase' = IF phase = "write" THEN "store" ELSE "freed"
  /\ at_barrier' = {}
  /\ UNCHANGED <<full_empty, buffers, tma, sf, matrix, consumers, exchange, output>>

\* The threads of a warp store rows that any warp may have staged.
StoreRows(w) ==
  /\ phase = "store" /\ w \notin at_barrier
  /\ output' = [output EXCEPT ![w] = {exchange[v] : v \in Warps}]
  /\ at_barrier' = at_barrier \cup {w}
  /\ UNCHANGED <<full_empty, buffers, tma, sf, matrix, consumers, phase, exchange>>

Terminated == phase = "freed" /\ UNCHANGED vars

Next ==
  \/ TmaIssue \/ MmaIssue \/ MmaRetire \/ Joined \/ Sync \/ Terminated
  \/ \E k \in Slots : TmaLand(k) \/ CommitEmpty(k)
  \/ \E j \in Stages : CommitFull(j)
  \/ \E l \in ScaleLanes : ScaleStore(l)
  \/ \E w \in Warps : ConsumerRead(w) \/ WriteExchange(w) \/ StoreRows(w)
  \/ \E w \in Warps, l \in Lanes : ConsumerRelease(w, l)

Spec == Init /\ [][Next]_vars

\* Resident warps and the two engines do not all stop while one can move.
FairSpec == Spec /\ WF_vars(Next)

-----------------------------------------------------------------------------
(* Correctness.                                                            *)

InRange(b) == b \in BarrierType /\ b.left \in 0 .. b.count
TypeOK ==
  /\ \A k \in Slots : InRange(operand_full[k]) /\ InRange(operand_empty[k])
                      /\ InRange(scale_full[k]) /\ InRange(scale_empty[k])
  /\ \A j \in Stages : InRange(accumulator_full[j]) /\ InRange(accumulator_empty[j])
  /\ operand \in [Slots -> [group : {Staged, Garbage} \cup 0 .. Groups, landed : BOOLEAN]]
  /\ tma \in 0 .. Groups /\ mma \in 0 .. tma /\ retired \in 0 .. mma
  /\ group \in [Warps -> 0 .. Groups] /\ held \in [Warps -> SUBSET Lanes]
  /\ phase \in {"rings", "write", "store", "freed"} /\ at_barrier \subseteq Warps

\* An MMA in flight reads the operands of its own group, all of them landed
\* and neither refilled by TMA nor overwritten by the epilogue.
OperandStable ==
  \A g \in retired .. mma - 1 : operand[g % P] = [group |-> g, landed |-> TRUE]

\* A warp that still reads finds the product and the scales of its group.
FragmentStable ==
  \A w \in Warps : held[w] # {} =>
    /\ tmem[group[w] % 2] = group[w]
    /\ \A l \in ScaleLanes : scale[group[w] % P][l] = group[w]

\* When the epilogue takes the operand storage over, no copy and no MMA that
\* uses it is in flight, and every sum has each group once and in order.
InOrder == [g \in 1 .. Groups |-> g - 1]
ExchangeAlone ==
  phase # "rings" =>
    /\ retired = Groups
    /\ \A k \in Slots : operand[k].landed
    /\ \A t \in Threads : total[t] = InOrder

\* A store reads the rows of every warp, staged.
StoresComplete == \A w \in Warps : output[w] # {} => output[w] = {{InOrder}}

\* The epilogue as a whole: the exchange disturbs nothing and loses nothing.
ExchangeSound == ExchangeAlone /\ StoresComplete

\* The block always reaches its end.
KernelReturns == <>(phase = "freed")
=============================================================================
