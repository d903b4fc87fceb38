-------------------------- MODULE MCReviewedPlans --------------------------
(* ReviewedPlans with one reviewer and two plans. *)
EXTENDS ReviewedPlans

CONSTANTS author, alice

\* Two plans for one version of the issue and of the base.
TwoPlans == {[text |-> t, base |-> 0, contract |-> 0] : t \in {1, 2}}
=============================================================================
