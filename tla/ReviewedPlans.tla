--------------------------- MODULE ReviewedPlans ---------------------------
(***************************************************************************)
(* PlanApproval with a history of what a review reviewed: the description   *)
(* as it was when the review was submitted.  It is no part of a GitHub      *)
(* review and no script reads it.                                           *)
(***************************************************************************)
EXTENDS PlanApproval

VARIABLE seen  \* the plan that each review had before it

SeenInit == Init /\ seen = <<>>

SeenNext == Next /\ seen' = IF Len(reviews') > Len(reviews)
                           THEN Append(seen, plan) ELSE seen

SeenSpec == SeenInit /\ [][SeenNext]_<<vars, seen>>

\* plan-approval.mjs: "This durable record binds a human review to the
\* canonical plan", so the plan in a record is the one that was reviewed.
RecordsBindReviewedPlan ==
  \A r \in records : seen[r.review] = r.plan
=============================================================================
