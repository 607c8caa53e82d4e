---------------------------- MODULE MCBenchmarks ----------------------------
(***************************************************************************)
(* Instance of Benchmarks for TLC: four uses that make three shapes, one   *)
(* of them used twice and one that the native kernel takes; two square     *)
(* sizes, all of them or the first; two checkpoints; two token counts.     *)
(***************************************************************************)
EXTENDS Benchmarks

MCOperations == <<"shared", "expert">>
MCTokenCounts == <<8, 64>>
\* An expert sees one in eight of the tokens.
MCDims(op, t) == IF op = "expert" THEN t \div 8 ELSE t
MCEligible(m) == m % 64 = 0
MCShapes == <<"a", "b">>
MCSizes == <<1, 2>>
MCSettings == {[name |-> "a", limit |-> n] : n \in {0, 1}}
MCClocks == {1}
=============================================================================
