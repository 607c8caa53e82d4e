------------------------------ MODULE TileStream ------------------------------
(***************************************************************************)
(* What a tiled GEMM kernel promises of one cluster of CTAs: every writer  *)
(* stores its blocks in order, each with the full sum of its tile, and the *)
(* kernel returns only after the last block of the last writer.            *)
(***************************************************************************)
EXTENDS Integers, Sequences

CONSTANTS
  Writers,   \* the warps that store to C
  Blocks,    \* how many blocks each writer stores
  Expected   \* Expected[w][n]: the block that writer w stores n-th

VARIABLES output, returned
vars == <<output, returned>>

Init ==
  /\ output = [w \in Writers |-> <<>>]
  /\ returned = FALSE

Store(w) ==
  /\ Len(output[w]) < Blocks
  /\ output' = [output EXCEPT ![w] = Append(@, Expected[w][Len(@) + 1])]
  /\ UNCHANGED returned

Return ==
  /\ \A w \in Writers : Len(output[w]) = Blocks
  /\ ~returned
  /\ returned' = TRUE
  /\ UNCHANGED output

Next == Return \/ \E w \in Writers : Store(w)

Spec == Init /\ [][Next]_vars
=============================================================================
