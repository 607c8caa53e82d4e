----------------------------- MODULE MCNativeBuild -----------------------------
(***************************************************************************)
(* Instances of NativeBuild for TLC.                                       *)
(***************************************************************************)
EXTENDS NativeBuild, TLC

CONSTANTS b1, b2, p1

MCBuilders == {b1, b2}
MCProcesses == {p1}
MCArchs == {"sm_110", "sm_121"}
MCSymmetry == Permutations(MCBuilders)
=============================================================================
