--------------------------- MODULE MCTwoSmPipeline ---------------------------
(***************************************************************************)
(* Instances of TwoSmPipeline for TLC.  Slots and stages wrap at the third *)
(* sequence when P = 2, so three steps already reuse every ring.           *)
(***************************************************************************)
EXTENDS TwoSmPipeline, TLC

CONSTANTS w0, w1
MCPartWarps == {w0, w1}
MCSymmetry == Permutations(MCPartWarps)
=============================================================================
