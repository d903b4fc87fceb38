------------------------- MODULE MCPlanPublication -------------------------
(* PlanPublication with two publishers. *)
EXTENDS PlanPublication

CONSTANTS p1, p2, planA, planB
=============================================================================
