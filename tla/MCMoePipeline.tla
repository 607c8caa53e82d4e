---------------------------- MODULE MCMoePipeline ----------------------------
(***************************************************************************)
(* Instances of MoePipeline for TLC: A cached across the halves of two     *)
(* items with padding between them, and two warps a CTA on short items.    *)
(***************************************************************************)
EXTENDS MoePipeline, TLC

CONSTANTS w0, w1
MCSymmetry == Permutations({w0, w1})
Launch(kind, n, items, w) == [packed |-> kind, groups |-> n, live |-> items, warps |-> w]
MCCached == {Launch(FALSE, 2, <<TRUE, FALSE, TRUE>>, {w0}), Launch(TRUE, 2, <<TRUE, TRUE>>, {w0})}
MCWarps == {Launch(FALSE, n, <<FALSE, TRUE, TRUE>>, {w0, w1}) : n \in {1, 3}}
           \cup {Launch(TRUE, 1, <<TRUE, TRUE>>, {w0, w1})}
=============================================================================
