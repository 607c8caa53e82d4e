---------------------------- MODULE MCMoeRouting ----------------------------
(***************************************************************************)
(* Instance of MoeRouting for TLC.  Among the ids are a negative one and   *)
(* one that wraps to a valid expert when it is narrowed; expert 1 is never *)
(* chosen.  A call may have any ids and mask; a replay finds two experts,  *)
(* one expert or nothing to route.                                         *)
(***************************************************************************)
EXTENDS MoeRouting

MCIds == {-1, 0, 2, 4}
MCReplayInputs ==
  {<<[a \in Assignments |-> IF a % 2 = 0 THEN 0 ELSE 2], [t \in 0 .. Tokens - 1 |-> TRUE]>>,
   <<[a \in Assignments |-> 2], [t \in 0 .. Tokens - 1 |-> t = 0]>>,
   <<[a \in Assignments |-> 4], [t \in 0 .. Tokens - 1 |-> TRUE]>>}
=============================================================================
