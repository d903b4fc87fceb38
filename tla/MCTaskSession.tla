--------------------------- MODULE MCTaskSession ---------------------------
(* TaskSession with two tasks and two paths. *)
EXTENDS TaskSession

\* Two rival plans for the first version of t1's issue; t2 has only a contract.
SomePlans ==
  {[task |-> "t1", contract |-> 0, scope |-> {"f", "g"}],
   [task |-> "t1", contract |-> 0, scope |-> {"f"}]}

\* The edit of t1's issue takes a path away.
TaskScope ==
  [t \in Tasks |-> [v \in 0 .. MaxIssue |->
     IF t = "t1" /\ v = 0 THEN {"f", "g"} ELSE {"g"}]]
=============================================================================
