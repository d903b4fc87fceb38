-------------------------- MODULE MCRepairBudget --------------------------
(* Failures that may be repaired, alike or not, and some that may not. *)
EXTENDS RepairBudget

Failure(check, text, layers) == [check |-> check, text |-> text, layers |-> layers]
\* "status 401" and "status 500" leave the same text.
MCFailures == {Failure("unit", "expected", {"reasoning"}), Failure("lint", "expected", {"tool"}),
               Failure("unit", "status", {"context", "tool"}),
               Failure("unit", "status", {"policy", "context"}),
               Failure("acceptance", "refused", {"environment"}),
               Failure("acceptance", "odd", {})}
=============================================================================
