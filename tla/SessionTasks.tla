---------------------------- MODULE SessionTasks ----------------------------
(***************************************************************************)
(* TaskSession with a history: the tasks resolved since the session began.  *)
(***************************************************************************)
EXTENDS TaskSession

VARIABLE resolved

TasksInit == Init /\ resolved = {}

TasksNext ==
  \/ /\ \E task \in Tasks \cup {None} : SessionStart(task)
     /\ resolved' = {}
  \/ \E r \in Runs : /\ CacheContract(r)
                     /\ resolved' = resolved \cup {run[r].contract.task}
  \/ /\ Work
     /\ ~\E r \in Runs : CacheContract(r)
     /\ UNCHANGED resolved

TasksSpec == TasksInit /\ [][TasksNext]_<<vars, resolved>>

\* session-start.mjs, on its clearContract: "Drop a contract left by an earlier
\* session so it cannot govern this one."  An edit is allowed only under a task
\* resolved since the session began.
EarlierSessionDoesNotGovern ==
  run["hook"].at = "allowed" => run["hook"].contract.task \in resolved
=============================================================================
