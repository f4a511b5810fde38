------------------------- MODULE MCProcessAdmission -------------------------
(* An instance of ProcessAdmission: an API process and its successor in the  *)
(* same role, each with one caller.                                          *)
EXTENDS ProcessAdmission, TLC

CONSTANTS a1, a2, api, xa, xm

HandoffRoleOf == a1 :> api @@ a2 :> api
HandoffKey == api :> 20
HandoffSlots == api :> 2
HandoffHome == xa :> a1 @@ xm :> a2
HandoffPlan == xa :> {"interactive", "upgrade", "park"} @@ xm :> {"bulk"}

=============================================================================
