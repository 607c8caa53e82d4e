----------------------------- MODULE MCCuteLaunch -----------------------------
(***************************************************************************)
(* Instance of CuteLaunch for TLC: one configuration of every kernel, and  *)
(* of the cp.async kernel one for each ring size, scale path and epilogue. *)
(***************************************************************************)
EXTENDS CuteLaunch

CONSTANTS w0, w1, w2, s0, s1, l0, l1
MCConfigs == {0, 7, 9, 14, 25, 27, 29}
MCWarps == {w0, w1, w2}
MCCopyThreads == {w0, w1}
MCScaleLanes == {s0, s1}
MCLanes == {l0, l1}
MCTileCounts == {2, 6}
=============================================================================
