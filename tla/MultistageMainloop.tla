-------------------------- MODULE MultistageMainloop --------------------------
(***************************************************************************)
(* The cp.async mainloop of the SM80-style kernels (CollectiveG256 and     *)
(* gemm_device).  Every thread copies its share of each K128 tile into a   *)
(* ring of stages, waits on a count of its own copy groups, meets the      *)
(* others at __syncthreads, and keeps one register fragment ahead of the   *)
(* MMA.  Two tiles make one G256 group, which is promoted with its scales. *)
(* The instantiation's StoreBits choose the epilogue of gemm_device; that  *)
(* of CollectiveG256 always drains and meets before its own, as 128 bits   *)
(* do here.                                                                *)
(*                                                                         *)
(* A thread's share of a stage holds the tile it was copied from, Garbage  *)
(* while a copy is in flight, or Staged in the epilogue; the scales copied *)
(* with a tile are those of the tile's group.                              *)
(***************************************************************************)
EXTENDS Integers, FiniteSets, Sequences, SequencesExt

CONSTANTS
  Threads,
  Kernels,     \* instantiations: [stages, async, bits]
  KBlocks,     \* K_BLOCK_MAX: MMA steps of a tile
  TileCounts   \* the K128 tiles a call may have

ShapeAssumption ==
  /\ IsFiniteSet(Threads) /\ Threads # {}
  /\ Kernels \subseteq [stages : {2, 3}, async : BOOLEAN, bits : {16, 32, 128}]
  /\ KBlocks \in Nat \ {0, 1}
  /\ \A n \in TileCounts : n \in Nat \ {0} /\ n % 2 = 0

VARIABLES
  kernel, tiles,              \* instantiation launched; K128 tiles of this call
  shared, pending,            \* the stages' shares; copy groups per thread
  pc, block,                  \* step; k_block
  count, next,                \* k_tile_count, k_tile_next
  read, write, slice,         \* smem_pipe_read, smem_pipe_write; stage sliced
  fragment, products, scales, \* registers: operands, group_accum's terms
  processed, sum,             \* processed_tiles; groups accumulated
  exchange, output            \* rows staged; rows each thread's store read

memory == <<shared, pending>>
source == <<count, next>>
pipes == <<read, write, slice>>
registers == <<fragment, products, scales>>
results == <<processed, sum>>
epilogue == <<exchange, output>>
call == <<kernel, tiles>>
vars == <<call, memory, pc, block, source, pipes, registers, results, epilogue>>

Stages == kernel.stages   \* DispatchPolicy::Stages, K_PIPE_MAX
AsyncScale == kernel.async \* scales through the ring, or straight to registers
StoreBits == kernel.bits   \* 128: rows exchanged through the stages' memory
Pipes == 0 .. Stages - 1
LastBlock == KBlocks - 1
Garbage == -1
Staged == -2
GroupOf(tile) == tile \div 2

Init ==
  /\ kernel \in Kernels /\ tiles \in TileCounts
  /\ shared = [k \in Pipes |-> [t \in Threads |-> Garbage]]
  /\ pending = [t \in Threads |-> <<>>]
  /\ pc = [t \in Threads |-> "prologue"] /\ block = [t \in Threads |-> 0]
  /\ count = [t \in Threads |-> tiles] /\ next = [t \in Threads |-> 0]
  /\ read = [t \in Threads |-> 0] /\ write = [t \in Threads |-> 0]
  /\ slice = [t \in Threads |-> 0]
  /\ fragment = [t \in Threads |-> [b \in 0 .. LastBlock |-> <<Garbage, b>>]]
  /\ products = [t \in Threads |-> <<>>] /\ scales = [t \in Threads |-> Garbage]
  /\ processed = [t \in Threads |-> 0] /\ sum = [t \in Threads |-> <<>>]
  /\ exchange = [t \in Threads |-> <<>>] /\ output = [t \in Threads |-> {}]

At(t, step) == pc[t] = step
Goes(t, step) == pc' = [pc EXCEPT ![t] = step]

\* What a read of a whole stage gives: its tile if every share is of it.
Content(k) ==
  IF \A t, u \in Threads : shared[k][t] = shared[k][u]
    THEN shared[k][CHOOSE t \in Threads : TRUE] ELSE Garbage

-----------------------------------------------------------------------------
(* Asynchronous copies.                                                    *)

\* After the last tile the loop keeps copying it, so that the number of
\* outstanding groups, which the waits count, stays the same.
Advanced(t) == IF count[t] - 1 > 0 THEN next[t] + 1 ELSE next[t]

Copy(t, k) ==
  /\ shared' = [shared EXCEPT ![k][t] = Garbage]
  /\ pending' = [pending EXCEPT ![t] =
       Append(@, [pipe |-> k, tile |-> next[t], landed |-> FALSE])]
  /\ count' = [count EXCEPT ![t] = @ - 1]
  /\ next' = [next EXCEPT ![t] = Advanced(t)]

\* The copies of a thread may land in any order.
Land(t, i) ==
  /\ i \in DOMAIN pending[t] /\ ~pending[t][i].landed
  /\ shared' = [shared EXCEPT ![pending[t][i].pipe][t] = pending[t][i].tile]
  /\ pending' = [pending EXCEPT ![t][i].landed = TRUE]
  /\ UNCHANGED <<call, pc, block, source, pipes, registers, results, epilogue>>

\* cp_async_wait<n>: all but the n most recent groups have landed.
Older(t, n) == {i \in DOMAIN pending[t] : i <= Len(pending[t]) - n}
Wait(t, n) ==
  /\ \A i \in Older(t, n) : pending[t][i].landed
  /\ pending' = [pending EXCEPT ![t] =
       SubSeq(@, Cardinality(Older(t, n)) + 1, Len(@))]

Prologue(t) ==
  /\ At(t, "prologue")
  /\ IF write[t] < Stages - 1
       THEN /\ Copy(t, write[t])
            /\ write' = [write EXCEPT ![t] = @ + 1]
            /\ UNCHANGED pc
       ELSE /\ Goes(t, "first")
            /\ UNCHANGED <<memory, source, write>>
  /\ UNCHANGED <<call, block, read, slice, registers, results, epilogue>>

Ahead == Stages - 2

FirstWait(t) ==
  /\ At(t, "first") /\ Wait(t, Ahead)
  /\ Goes(t, "first sync")
  /\ UNCHANGED <<call, shared, block, source, pipes, registers, results, epilogue>>

Fill(t) ==
  /\ At(t, "fill")
  /\ fragment' = [fragment EXCEPT ![t][0] = <<Content(slice[t]), 0>>]
  /\ Goes(t, "top")
  /\ UNCHANGED <<call, memory, block, source, pipes, products, scales, results, epilogue>>

-----------------------------------------------------------------------------
(* The main loop.                                                          *)

MoreTiles(t) == count[t] > -(Stages - 1)

\* With asynchronous scales they are read from the ring on the odd tile.
Top(t) ==
  /\ At(t, "top")
  /\ IF MoreTiles(t)
       THEN /\ scales' = [scales EXCEPT ![t] =
                 IF AsyncScale
                   THEN IF processed[t] % 2 = 1
                          THEN IF Content(read[t]) >= 0 THEN GroupOf(Content(read[t])) ELSE Garbage
                          ELSE @
                   ELSE IF processed[t] % 2 = 0 THEN GroupOf(processed[t]) ELSE @]
            /\ block' = [block EXCEPT ![t] = 0]
            /\ Goes(t, "load")
       ELSE /\ Goes(t, IF StoreBits = 128 THEN "drain" ELSE "direct")
            /\ UNCHANGED <<scales, block>>
  /\ UNCHANGED <<call, memory, source, pipes, fragment, products, results, epilogue>>

\* Last k_block: turn to the next tile's stage, then wait for it.
SliceAndWait(t) ==
  /\ At(t, "wait") /\ Wait(t, Ahead)
  /\ slice' = [slice EXCEPT ![t] = read[t]]
  /\ Goes(t, "sync")
  /\ UNCHANGED <<call, shared, block, source, read, write, registers, results, epilogue>>

NextBlock(t) == (block[t] + 1) % KBlocks

LoadFragment(t) ==
  /\ At(t, "load")
  /\ fragment' = [fragment EXCEPT ![t][NextBlock(t)] = <<Content(slice[t]), NextBlock(t)>>]
  /\ Goes(t, IF block[t] = 0 THEN "copy" ELSE "gemm")
  /\ UNCHANGED <<call, memory, block, source, pipes, products, scales, results, epilogue>>

\* The stage freed by the previous tile takes the copy; this tile's is next.
Freed(t) == write[t]
CopyAhead(t) ==
  /\ At(t, "copy")
  /\ Copy(t, Freed(t))
  /\ write' = [write EXCEPT ![t] = read[t]]
  /\ read' = [read EXCEPT ![t] = IF @ = Stages - 1 THEN 0 ELSE @ + 1]
  /\ Goes(t, "gemm")
  /\ UNCHANGED <<call, block, slice, registers, results, epilogue>>

\* The steps of group_accum a promotion must find, and no other.
Products(group) ==
  [i \in 1 .. 2 * KBlocks |-> <<2 * group + (i - 1) \div KBlocks, (i - 1) % KBlocks>>]
Promoted(terms, scale) == IF terms = Products(scale) THEN scale ELSE Garbage
EveryTile(tile) == TRUE
GroupEnds(tile) == tile % 2 = 1

Gemm(t) ==
  LET terms == Append(products[t], fragment[t][block[t]])
      ends == block[t] = LastBlock
      promotes == ends /\ GroupEnds(processed[t])
  IN /\ At(t, "gemm")
     /\ products' = [products EXCEPT ![t] = IF promotes THEN <<>> ELSE terms]
     /\ sum' = [sum EXCEPT ![t] = IF promotes THEN Append(@, Promoted(terms, scales[t])) ELSE @]
     /\ processed' = [processed EXCEPT ![t] = IF ends THEN @ + 1 ELSE @]
     /\ block' = [block EXCEPT ![t] = IF ends THEN @ ELSE @ + 1]
     /\ Goes(t, IF ends THEN "top" ELSE IF block[t] + 1 = LastBlock THEN "wait" ELSE "load")
     /\ UNCHANGED <<call, memory, source, pipes, fragment, scales, epilogue>>

-----------------------------------------------------------------------------
(* __syncthreads, and the epilogue that reuses the stages.                 *)

After ==
  [s \in {"first sync", "sync", "drained", "staged"} |->
     CASE s = "first sync" -> "fill" [] s = "sync" -> "load"
       [] s = "drained" -> "stage" [] OTHER -> "store"]

Syncthreads ==
  /\ \E s \in DOMAIN After :
       /\ \A t \in Threads : At(t, s)
       /\ pc' = [t \in Threads |-> After[s]]
  /\ UNCHANGED <<call, memory, block, source, pipes, registers, results, epilogue>>

None == 0
Drain(t) ==
  /\ At(t, "drain") /\ Wait(t, None)
  /\ Goes(t, "drained")
  /\ UNCHANGED <<call, shared, block, source, pipes, registers, results, epilogue>>

StageRows(t) ==
  /\ At(t, "stage")
  /\ shared' = [k \in Pipes |-> [u \in Threads |-> Staged]]
  /\ exchange' = [exchange EXCEPT ![t] = sum[t]]
  /\ Goes(t, "staged")
  /\ UNCHANGED <<call, pending, block, source, pipes, registers, results, output>>

StoreRows(t) ==
  /\ At(t, "store")
  /\ output' = [output EXCEPT ![t] = {exchange[u] : u \in Threads}]
  /\ Goes(t, "done")
  /\ UNCHANGED <<call, memory, block, source, pipes, registers, results, exchange>>

\* Narrower stores come straight from a thread's registers: it leaves without
\* waiting for its copies or for the others.
StoreDirect(t) ==
  /\ At(t, "direct")
  /\ output' = [output EXCEPT ![t] = {sum[t]}]
  /\ Goes(t, "exited")
  /\ UNCHANGED <<call, memory, block, source, pipes, registers, results, exchange>>

Terminated == (\A t \in Threads : pc[t] \in {"done", "exited"}) /\ UNCHANGED vars

Next ==
  \/ \E t \in Threads :
       \/ Prologue(t) \/ FirstWait(t) \/ Fill(t) \/ Top(t) \/ SliceAndWait(t)
       \/ LoadFragment(t) \/ CopyAhead(t) \/ Gemm(t) \/ Drain(t) \/ StageRows(t)
       \/ StoreRows(t) \/ StoreDirect(t)
  \/ \E t \in Threads : \E i \in DOMAIN pending[t] : Land(t, i)
  \/ Syncthreads \/ Terminated

Spec == Init /\ [][Next]_vars

-----------------------------------------------------------------------------
(* Correctness.                                                            *)

\* In particular no copy reads a tile past the last one.
TypeOK ==
  /\ kernel \in Kernels /\ tiles \in TileCounts
  /\ shared \in [Pipes -> [Threads -> {Garbage, Staged} \cup 0 .. tiles - 1]]
  /\ \A t \in Threads :
       /\ next[t] \in 0 .. tiles - 1 /\ count[t] \in -(Stages - 1) .. tiles
       /\ read[t] \in Pipes /\ write[t] \in Pipes /\ slice[t] \in Pipes
       /\ block[t] \in 0 .. LastBlock /\ processed[t] \in 0 .. tiles
       /\ Len(pending[t]) <= Stages
       /\ \A i \in DOMAIN pending[t] : pending[t][i].pipe \in Pipes

\* As long as a thread has fragments of its tile to load, or the tile's
\* scales, all threads' shares of it are in the stage: no wait is short, and
\* no thread that runs ahead copies over it.
StillReads(t) ==
  \/ At(t, "top") /\ MoreTiles(t)
  \/ At(t, "load") /\ block[t] < LastBlock
  \/ pc[t] \in {"copy", "gemm"} /\ block[t] + 1 < LastBlock
StageStable ==
  \A t \in Threads : StillReads(t) => \A u \in Threads : shared[slice[t]][u] = processed[t]

\* Each thread's sum has every group once, in order, made of exactly its MMA
\* steps and scaled by exactly its scales.
InOrder(n) == [g \in 1 .. n |-> g - 1]
GroupsExact ==
  \A t \in Threads :
    /\ sum[t] = InOrder(GroupOf(processed[t]))
    /\ pc[t] \in {"drain", "direct"} => processed[t] = tiles

\* The rows are staged in the stages' memory only when no copy of any thread,
\* the redundant ones at the end included, may still land there.
ExchangeAlone ==
  (\E t \in Threads : At(t, "stage")) =>
    \A t \in Threads : \A i \in DOMAIN pending[t] : pending[t][i].landed

\* What a thread stores, rows other threads staged or its own registers, has
\* every group.
StoresComplete == \A t \in Threads : output[t] \in {{}, {InOrder(GroupOf(tiles))}}

\* The epilogue as a whole: the exchange disturbs nothing and loses nothing.
ExchangeSound == ExchangeAlone /\ StoresComplete
=============================================================================
