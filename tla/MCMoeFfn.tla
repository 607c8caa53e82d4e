------------------------------- MODULE MCMoeFfn -------------------------------
(***************************************************************************)
(* Instance of MoeFfn for TLC: every setup; an id outside the experts is   *)
(* among the inputs; one of the two widths leaves room for the capacity a  *)
(* capture asks for.                                                       *)
(***************************************************************************)
EXTENDS MoeFfn

MCIds == {0, 1, 2}
MCRooms == {6, 12}
=============================================================================
