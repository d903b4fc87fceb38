--------------------------- MODULE MCSessionTasks ---------------------------
(* SessionTasks with two tasks and a plan for each. *)
EXTENDS SessionTasks

OnePlanEach ==
  {[task |-> t, contract |-> 0, scope |-> {"f"}] : t \in Tasks}

TaskScope == [t \in Tasks |-> [v \in 0 .. MaxIssue |-> {"f"}]]
=============================================================================
