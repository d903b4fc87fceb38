------------------------ MODULE MCEarnedAcceptance ------------------------
(* A plan of low risk and one of high risk; policy.json says what they ask. *)
EXTENDS EarnedAcceptance, TLC

CONSTANTS c1, c2, low, high, v1, v2, owner

MCPlanOf ==
  low :> [contract |-> v1, minimum |-> 0, owner |-> FALSE,
          checks |-> {"plan-contract", "scope-policy", "quality"}]
  @@ high :> [contract |-> v1, minimum |-> 1, owner |-> TRUE,
              checks |-> Evaluated \cup {"quality"}]
MCWithin == {<<c1, low>>, <<c1, high>>, <<c2, high>>}
Opened(c, p, a, r) ==
  [head |-> c, body |-> p, issue |-> v1, approved |-> a, reviews |-> (owner :> r)]
\* Ready to be accepted: by itself, as a change of the control plane, without
\* review; and with a description that is not the approved plan.
MCOpenings == {Opened(c1, high, high, c1), Opened(c2, high, high, c2),
               Opened(c1, low, low, None), Opened(c1, low, high, c1)}
=============================================================================
