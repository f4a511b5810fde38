---------------------------- MODULE MCPRPromotion ----------------------------
(* Instances of PRPromotion for model checking. *)
EXTENDS PRPromotion

TwoJobs == 1..2

==============================================================================
