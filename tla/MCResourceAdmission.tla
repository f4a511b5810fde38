------------------------- MODULE MCResourceAdmission -------------------------
(***************************************************************************)
(* Instances of ResourceAdmission for TLC.                                 *)
(***************************************************************************)
EXTENDS ResourceAdmission, TLC

RequestSymmetry == Permutations(Request)
=============================================================================
