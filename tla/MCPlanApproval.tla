--------------------------- MODULE MCPlanApproval ---------------------------
(* PlanApproval with a handful of people, plans and commits. *)
EXTENDS PlanApproval

CONSTANTS author, alice, bot

\* Two plans for one version of the issue and of the base.
TwoPlans == {[text |-> t, base |-> 0, contract |-> 0] : t \in {1, 2}}

\* The plan of the first issue and base, and the one that follows it.
PlanPerContract == {[text |-> 1, base |-> i, contract |-> i] : i \in {0, 1}}
=============================================================================
