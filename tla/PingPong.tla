------------------------------ MODULE PingPong ------------------------------
(***************************************************************************)
(* One block of the one-kernel G256 GEMM on SM110 (thor::kernel).  Four    *)
(* warps walk the K groups together: while the tensor core multiplies a    *)
(* group they prefetch a later one and promote the one before, from the    *)
(* other half of tensor memory.                                            *)
(*                                                                         *)
(* Data are tags, as in OneSmPipeline: a buffer holds a group, Garbage     *)
(* while it is written, or Staged in the epilogue.                         *)
(***************************************************************************)
EXTENDS Mbarrier, FiniteSets, Sequences

CONSTANTS
  P,       \* operand stages
  Groups,  \* K groups
  Warps,   \* warps of the block
  Leader   \* the warp that issues copies and MMAs

ShapeAssumption ==
  /\ P \in Nat \ {0, 1} /\ Groups \in Nat \ {0}
  /\ IsFiniteSet(Warps) /\ Leader \in Warps

VARIABLES
  tma, barrier,          \* operands landed, per stage; MMA done, per buffer
  operand, scale, tmem,  \* what the buffers hold
  mma, retired, owed,    \* MMAs issued and completed; commits not delivered
  pc, iteration,         \* per warp
  total,                 \* per warp: the groups promoted
  exchange, output       \* rows staged; rows each warp's store read

buffers == <<operand, scale, tmem>>
matrix == <<mma, retired, owed>>
epilogue == <<exchange, output>>
vars == <<tma, barrier, buffers, matrix, pc, iteration, total, epilogue>>

Stages == 0 .. P - 1
Halves == {0, 1}
ScaleRingAsOperands == P
ScaleRing == P + 1
ScaleSlots == 0 .. ScaleRing - 1
Garbage == -1
Staged == -2

Init ==
  /\ tma = [k \in Stages |-> NewBarrier(1)] /\ barrier = [h \in Halves |-> NewBarrier(1)]
  /\ operand = [k \in Stages |-> [group |-> Garbage, landed |-> TRUE]]
  /\ scale = [k \in ScaleSlots |-> [w \in Warps |-> Garbage]]
  /\ tmem = [h \in Halves |-> Garbage]
  /\ mma = 0 /\ retired = 0 /\ owed = [h \in Halves |-> 0]
  /\ pc = [w \in Warps |-> "prologue"] /\ iteration = [w \in Warps |-> 0]
  /\ total = [w \in Warps |-> <<>>]
  /\ exchange = [w \in Warps |-> <<>>] /\ output = [w \in Warps |-> {}]

Goes(w, step) == pc' = [pc EXCEPT ![w] = step]

\* load(): a warp stores its share of the group's scales, and the leader has
\* the operands copied.
Load(w, group) ==
  LET k == group % P
  IN /\ scale' = [scale EXCEPT ![group % ScaleRing][w] = group]
     /\ IF w = Leader
          THEN /\ tma' = [tma EXCEPT ![k] = ArriveExpectTx(@, 1)]
               /\ operand' = [operand EXCEPT ![k] = [group |-> group, landed |-> FALSE]]
          ELSE UNCHANGED <<tma, operand>>

\* During the prologue iteration counts the stages loaded.
Prologue(w) ==
  /\ pc[w] = "prologue"
  /\ IF iteration[w] < P - 1 /\ iteration[w] < Groups
       THEN /\ Load(w, iteration[w])
            /\ iteration' = [iteration EXCEPT ![w] = @ + 1]
            /\ UNCHANGED pc
       ELSE /\ iteration' = [iteration EXCEPT ![w] = 0]
            /\ Goes(w, "multiply")
            /\ UNCHANGED <<tma, operand, scale>>
  /\ UNCHANGED <<barrier, tmem, matrix, total, epilogue>>

-----------------------------------------------------------------------------
(* An iteration of a warp.                                                 *)

LandedParity(group) == (group \div P) % 2
Multiply(w) ==
  LET group == iteration[w]
  IN /\ pc[w] = "multiply" /\ group < Groups
     /\ Passes(tma[group % P], LandedParity(group))
     /\ IF w = Leader
          THEN mma' = mma + 1 /\ tmem' = [tmem EXCEPT ![group % 2] = Garbage]
          ELSE UNCHANGED <<mma, tmem>>
     /\ Goes(w, "prefetch")
     /\ UNCHANGED <<tma, barrier, operand, scale, retired, owed, iteration, total, epilogue>>

Ahead == P - 1
Prefetch(w) ==
  LET next == iteration[w] + Ahead
  IN /\ pc[w] = "prefetch"
     /\ IF next < Groups THEN Load(w, next) ELSE UNCHANGED <<tma, operand, scale>>
     /\ Goes(w, "promote")
     /\ UNCHANGED <<barrier, tmem, matrix, iteration, total, epilogue>>

\* The previous group's fragment and scales are being read from here on.
Last(w) == iteration[w] - 1
Reads(w) == pc[w] = "reading"

StartPromotion(w) ==
  /\ pc[w] = "promote" \/ (pc[w] = "multiply" /\ iteration[w] = Groups)
  /\ Goes(w, IF iteration[w] > 0 THEN "reading" ELSE "complete")
  /\ UNCHANGED <<tma, barrier, buffers, matrix, iteration, total, epilogue>>

Promoted(group) ==
  IF \A w \in Warps : scale[group % ScaleRing][w] = tmem[group % 2]
    THEN tmem[group % 2] ELSE Garbage
Promote(w) ==
  /\ Reads(w)
  /\ total' = [total EXCEPT ![w] = Append(@, Promoted(Last(w)))]
  /\ Goes(w, "complete")
  /\ UNCHANGED <<tma, barrier, buffers, matrix, iteration, epilogue>>

\* The wait that frees the operand stage for the next prefetch.
MmaComplete(group) == group < Groups => Passes(barrier[group % 2], (group \div 2) % 2)
Complete(w) ==
  /\ pc[w] = "complete"
  /\ MmaComplete(iteration[w])
  /\ Goes(w, "sync")
  /\ UNCHANGED <<tma, barrier, buffers, matrix, iteration, total, epilogue>>

-----------------------------------------------------------------------------
(* The engines.                                                            *)

TmaLand(k) ==
  /\ ~operand[k].landed
  /\ operand' = [operand EXCEPT ![k].landed = TRUE]
  /\ tma' = [tma EXCEPT ![k] = CompleteTx(@, 1)]
  /\ UNCHANGED <<barrier, scale, tmem, matrix, pc, iteration, total, epilogue>>

Product(k) == IF operand[k].landed THEN operand[k].group ELSE Garbage
MmaRetire ==
  /\ retired < mma
  /\ tmem' = [tmem EXCEPT ![retired % 2] = Product(retired % P)]
  /\ retired' = retired + 1
  /\ owed' = [owed EXCEPT ![retired % 2] = @ + 1]
  /\ UNCHANGED <<tma, barrier, operand, scale, mma, pc, iteration, total, epilogue>>

Commit(h) ==
  /\ owed[h] > 0
  /\ owed' = [owed EXCEPT ![h] = @ - 1]
  /\ barrier' = [barrier EXCEPT ![h] = Arrive(@)]
  /\ UNCHANGED <<tma, buffers, mma, retired, pc, iteration, total, epilogue>>

-----------------------------------------------------------------------------
(* The block's barriers and the epilogue.                                  *)

Everyone(step) == \A w \in Warps : pc[w] = step

\* One iteration more than groups, for the last promotion.
LastIteration == Groups

Syncthreads ==
  /\ Everyone("sync")
  /\ LET last == iteration[Leader] = LastIteration
     IN pc' = [w \in Warps |-> IF last THEN "write" ELSE "multiply"]
  /\ iteration' = [w \in Warps |-> iteration[w] + 1]
  /\ UNCHANGED <<tma, barrier, buffers, matrix, total, epilogue>>

WriteExchange(w) ==
  /\ pc[w] = "write"
  /\ operand' = [k \in Stages |-> [operand[k] EXCEPT !.group = Staged]]
  /\ exchange' = [exchange EXCEPT ![w] = total[w]]
  /\ Goes(w, "written")
  /\ UNCHANGED <<tma, barrier, scale, tmem, matrix, iteration, total, output>>

EveryoneWritten == \A w \in Warps : pc[w] \notin {"write"}
StoreRows(w) ==
  /\ pc[w] = "written" /\ EveryoneWritten
  /\ output' = [output EXCEPT ![w] = {exchange[v] : v \in Warps}]
  /\ Goes(w, "stored")
  /\ UNCHANGED <<tma, barrier, buffers, matrix, iteration, total, exchange>>

FreeTmem ==
  /\ Everyone("stored")
  /\ pc' = [w \in Warps |-> "done"]
  /\ UNCHANGED <<tma, barrier, buffers, matrix, iteration, total, epilogue>>

Terminated == Everyone("done") /\ UNCHANGED vars

Next ==
  \/ \E w \in Warps :
       \/ Prologue(w) \/ Multiply(w) \/ Prefetch(w) \/ StartPromotion(w) \/ Promote(w)
       \/ Complete(w) \/ WriteExchange(w) \/ StoreRows(w)
  \/ \E k \in Stages : TmaLand(k)
  \/ MmaRetire
  \/ \E h \in Halves : Commit(h)
  \/ Syncthreads \/ FreeTmem \/ Terminated

Spec == Init /\ [][Next]_vars

\* Resident warps and the engines do not all stop while one can move.
FairSpec == Spec /\ WF_vars(Next)

-----------------------------------------------------------------------------
(* Correctness.                                                            *)

InRange(b) == b \in BarrierType /\ b.left \in 0 .. b.count
TypeOK ==
  /\ \A k \in Stages : InRange(tma[k]) /\ \A h \in Halves : InRange(barrier[h])
  /\ operand \in [Stages -> [group : {Staged, Garbage} \cup 0 .. Groups - 1, landed : BOOLEAN]]
  /\ mma \in 0 .. Groups /\ retired \in 0 .. mma /\ owed \in [Halves -> 0 .. 1]
  /\ iteration \in [Warps -> 0 .. Groups + 1]
  /\ pc \in [Warps -> {"prologue", "multiply", "prefetch", "promote", "reading", "complete",
                       "sync", "write", "written", "stored", "done"}]

\* An MMA in flight reads the landed operands of its own group: the prefetch
\* that runs beside it goes to a stage whose MMA every warp has awaited.
OperandStable ==
  \A g \in retired .. mma - 1 : operand[g % P] = [group |-> g, landed |-> TRUE]

\* A warp that promotes a group finds its product in one half of tensor
\* memory, while the tensor core writes the other, and every warp's share of
\* its scales, although the prefetch of later scales runs beside it.
PromotionStable ==
  \A w \in Warps : Reads(w) =>
    /\ tmem[Last(w) % 2] = Last(w)
    /\ scale[Last(w) % ScaleRing] = [v \in Warps |-> Last(w)]

\* The comment at the epilogue, "all async operand copies are drained at this
\* point", with the MMAs that read them: the exchange has the storage alone.
InOrder == [g \in 1 .. Groups |-> g - 1]
ExchangeAlone ==
  (\E w \in Warps : pc[w] \in {"write", "written", "stored", "done"}) =>
    /\ retired = Groups /\ \A k \in Stages : operand[k].landed
    /\ \A w \in Warps : total[w] = InOrder

\* A warp stores rows other warps staged, complete.
StoresComplete == \A w \in Warps : output[w] # {} => output[w] = {InOrder}

\* The epilogue as a whole: the exchange disturbs nothing and loses nothing.
ExchangeSound == ExchangeAlone /\ StoresComplete

\* The block always reaches its end, for few groups as for many.
KernelReturns == <>Everyone("done")
=============================================================================
