---------------------------- MODULE TaskSession ----------------------------
(***************************************************************************)
(* One working copy of the repository: the hooks and commands that write    *)
(* and read the cached task contract and plan under artifacts/, and the     *)
(* tool authorization that decides from these files what an agent may edit. *)
(*                                                                         *)
(* The host runs hooks one after another; commands, a human's or one that   *)
(* an agent's shell tool was allowed, run beside them.  A step reads or     *)
(* writes one file, or asks GitHub or git once.  A run may be killed        *)
(* between any two steps (hooks have a timeout).                            *)
(*                                                                         *)
(* fetchApprovedPlan is one step here: PlanApproval shows (FetchIsAtomic)   *)
(* that it answers as of one moment.  A plan stands for its digest.  People *)
(* edit issues and withdraw approvals at any time, so a run may find any    *)
(* version of an issue, and any plan that was ever approved, or none.       *)
(* task-plan.md, which no script reads, is left out.                       *)
(***************************************************************************)
EXTENDS Integers, FiniteSets

CONSTANTS Tasks,     \* task issues
          Plans,     \* northstar/plan/1 contracts
          Files,     \* paths an edit tool names
          Scope,     \* Scope[task][version of its issue]: the paths its contract allows
          None,      \* no file, no task, no plan
          MaxIssue   \* bound: versions of an issue

ASSUME SessionAssumption ==
  /\ MaxIssue \in Nat
  /\ Scope \in [Tasks -> [0 .. MaxIssue -> SUBSET Files]]
  /\ Plans \subseteq [task : Tasks, contract : 0 .. MaxIssue,
                      scope : SUBSET Files]
  /\ None \notin Tasks /\ None \notin Plans /\ None \notin Files

VARIABLES contractFile,  \* artifacts/task-contract.json
          planFile,      \* artifacts/plan.json
          run,           \* the hook and the command that are under way
          everApproved,  \* history: plans that people have approved
          carried        \* history: approvals that came inside a plan block

fileVars == <<contractFile, planFile>>
history  == <<everApproved, carried>>
vars     == <<fileVars, run, history>>

-----------------------------------------------------------------------------
(* Types *)

Runs == {"hook", "command"}

ContractType == [task : Tasks, version : 0 .. MaxIssue, trusted : BOOLEAN]

\* An approval stands for the plan it names: one whose task, contract and plan
\* digest are not all of the plan beside it is the approval of another plan.
\* Any writer of plan.json may write it with any approval (see Propose).
PlanFileType == [plan : Plans, approval : Plans \cup {None}]

\* contract and plan are what the run has read, task what it was started for.
Idle == [at |-> "idle", task |-> None, contract |-> None, plan |-> None, path |-> None]
RunType == [at : {"idle", "clear", "clearPlan",
                  "resolve", "cache", "fetch", "plan",
                  "fetchContract", "cacheOnly", "propose",
                  "loadPlan", "branch", "ancestor", "allowed"},
            task : Tasks \cup {None}, contract : ContractType \cup {None},
            plan : Plans \cup PlanFileType \cup {None}, path : Files \cup {None}]

-----------------------------------------------------------------------------
(* Helper operators *)

Goto(r, phase) == run' = [run EXCEPT ![r].at = phase]
Ends(r) == run' = [run EXCEPT ![r] = Idle]

\* validatePlanContract against the task contract.
ValidPlan(plan, contract) ==
  /\ contract # None
  /\ plan.task = contract.task
  /\ plan.contract = contract.version
  /\ plan.scope \subseteq Scope[contract.task][contract.version]

\* A bug: any approval in plan.json will do.
AnyApproval(contract, file) ==
  /\ contract # None /\ contract.trusted
  /\ file # None
  /\ file.plan.task = contract.task
  /\ file.plan.contract = contract.version
  /\ file.approval # None

\* approvedPlan of authorize-tool.mjs: plan and approval are both for this
\* contract, and the approval is of this plan.
PlanApproved(contract, file) ==
  /\ contract # None /\ contract.trusted
  /\ file # None
  /\ file.plan.task = contract.task
  /\ file.plan.contract = contract.version
  /\ file.approval # None
  /\ file.approval.task = contract.task
  /\ file.approval.contract = contract.version
  /\ file.approval = file.plan

\* The edit branch of evaluateToolCall, the branch being authorized.
EditAllowed(contract, file, path) ==
  /\ PlanApproved(contract, file)
  /\ path \in Scope[contract.task][contract.version]
  /\ path \in file.plan.scope

-----------------------------------------------------------------------------
Init ==
  /\ contractFile = None
  /\ planFile = None
  /\ run = [r \in Runs |-> Idle]
  /\ everApproved = {}
  /\ carried = {}

-----------------------------------------------------------------------------
(* session-start.mjs: without AGENT_TASK_ISSUE the files are removed,        *)
(* with it the task is resolved.                                            *)

SessionStart(task) ==
  /\ run["hook"].at = "idle"
  /\ run' = [run EXCEPT !["hook"] =
       [Idle EXCEPT !.at = IF task = None THEN "clear" ELSE "resolve", !.task = task]]
  /\ UNCHANGED <<history, fileVars>>

ClearContract(r) ==
  /\ run[r].at = "clear"
  /\ contractFile' = None
  /\ Goto(r, "clearPlan")
  /\ UNCHANGED <<history, planFile>>

ClearPlan(r) ==
  /\ run[r].at = "clearPlan"
  /\ planFile' = None
  /\ Ends(r)
  /\ UNCHANGED <<history, contractFile>>

-----------------------------------------------------------------------------
(* resolveTask: called by session-start.mjs, by resolve-task.mjs when a      *)
(* prompt names a task, and by the command plan:approved.                   *)

ResolveTask(r, task) ==
  /\ run[r].at = "idle"
  /\ run' = [run EXCEPT ![r] = [Idle EXCEPT !.at = "resolve", !.task = task]]
  /\ UNCHANGED <<history, fileVars>>

\* contractFromIssue.  If the issue cannot be read as a contract (no label, a
\* malformed body, no network) the run ends and leaves the files alone.
ReadIssue(r) ==
  /\ run[r].at \in {"resolve", "fetchContract"}
  /\ \/ \E version \in 0 .. MaxIssue :
          run' = [run EXCEPT
            ![r].at = IF run[r].at = "resolve" THEN "cache" ELSE "cacheOnly",
            ![r].contract = [task |-> run[r].task, version |-> version, trusted |-> TRUE]]
     \/ Ends(r)
  /\ UNCHANGED <<history, fileVars>>

CacheContract(r) ==
  /\ run[r].at \in {"cache", "cacheOnly"}
  /\ contractFile' = run[r].contract
  /\ IF run[r].at = "cache" THEN Goto(r, "fetch") ELSE Ends(r)
  /\ UNCHANGED <<history, planFile>>

\* fetchApprovedPlan for the contract that was read; no plan if it fails.
FetchPlan(r) ==
  /\ run[r].at = "fetch"
  /\ \E plan \in {p \in everApproved : /\ p.task = run[r].task
                                       /\ p.contract = run[r].contract.version} \cup {None} :
       run' = [run EXCEPT ![r].at = "plan", ![r].plan = plan]
  /\ UNCHANGED <<history, fileVars>>

\* A bug: plan.json holds the plan alone.
WriteBarePlan(r) ==
  /\ run[r].at = "plan"
  /\ planFile' = run[r].plan
  /\ Ends(r)
  /\ UNCHANGED <<history, contractFile>>

\* plan.json is written with the approval that was found, or removed.
WritePlan(r) ==
  /\ run[r].at = "plan"
  /\ planFile' = IF run[r].plan = None THEN None
                 ELSE [plan |-> run[r].plan, approval |-> run[r].plan]
  /\ Ends(r)
  /\ UNCHANGED <<history, contractFile>>

-----------------------------------------------------------------------------
(* The commands contract:fetch, plan:gate and plan:materialize, and the hook *)
(* that runs when the plan agent stops.                                     *)

FetchContract(task) ==
  /\ run["command"].at = "idle"
  /\ run' = [run EXCEPT !["command"] = [Idle EXCEPT !.at = "fetchContract", !.task = task]]
  /\ UNCHANGED <<history, fileVars>>

\* contract:fetch --file: a fixture, which is no trusted authority.
FetchFixture(task) ==
  /\ run["command"].at = "idle"
  /\ run' = [run EXCEPT !["command"] = [Idle EXCEPT !.at = "cacheOnly",
       !.contract = [task |-> task, version |-> 0, trusted |-> FALSE]]]
  /\ UNCHANGED <<history, fileVars>>

\* A plan block is validated against the cached contract before it is written.
Propose(r, plan, approval) ==
  /\ run[r].at = "idle"
  /\ ValidPlan(plan, contractFile)
  /\ run' = [run EXCEPT ![r] = [Idle EXCEPT !.at = "propose",
       !.plan = [plan |-> plan, approval |-> approval]]]
  /\ UNCHANGED <<everApproved, fileVars>>

\* All of the block is written, with the approval it carries, if any: neither
\* validatePlanContract nor the plan's digest looks at that key.
ProposeBlock(r, plan) ==
  \E approval \in Plans \cup {None} :
    /\ Propose(r, plan, approval)
    /\ carried' = carried \cup ({approval} \ {None})

\* The block in the transcript of the plan agent.
PlanStop(plan) == ProposeBlock("hook", plan)

\* The block in a pull request's description.
PlanGate(plan) == ProposeBlock("command", plan)

\* A bug: materializing a plan approves it.
MaterializeApproved(plan) == Propose("command", plan, plan) /\ UNCHANGED carried

\* The block in a file, say in an edited copy of plan.json.
Materialize(plan) == ProposeBlock("command", plan)

WriteProposal(r) ==
  /\ run[r].at = "propose"
  /\ planFile' = run[r].plan
  /\ Ends(r)
  /\ UNCHANGED <<history, contractFile>>

-----------------------------------------------------------------------------
(* authorize-tool.mjs for an edit of one path *)

Authorize(path) ==
  /\ run["hook"].at = "idle"
  /\ run' = [run EXCEPT !["hook"] =
       [Idle EXCEPT !.at = "loadPlan", !.path = path, !.contract = contractFile]]
  /\ UNCHANGED <<history, fileVars>>

LoadPlan(r) ==
  /\ run[r].at = "loadPlan"
  /\ run' = [run EXCEPT ![r].at = "branch", ![r].plan = planFile]
  /\ UNCHANGED <<history, fileVars>>

\* git branch --show-current: people check out what they like.  Whatever is
\* wrong so far ends in a denial.
CheckBranch(r) ==
  /\ run[r].at = "branch"
  /\ \E tasksBranch \in BOOLEAN :
       IF tasksBranch /\ EditAllowed(run[r].contract, run[r].plan, run[r].path)
       THEN Goto(r, "ancestor")
       ELSE Ends(r)
  /\ UNCHANGED <<history, fileVars>>

\* git merge-base --is-ancestor plan.baseSha HEAD: then the edit is allowed.
CheckAncestor(r) ==
  /\ run[r].at = "ancestor"
  /\ \E descends \in BOOLEAN : IF descends THEN Goto(r, "allowed") ELSE Ends(r)
  /\ UNCHANGED <<history, fileVars>>

\* The tool runs.
Edit(r) ==
  /\ run[r].at = "allowed"
  /\ Ends(r)
  /\ UNCHANGED <<history, fileVars>>

\* A hook times out, a command is interrupted.
Killed(r) ==
  /\ run[r].at # "idle"
  /\ Ends(r)
  /\ UNCHANGED <<history, fileVars>>

-----------------------------------------------------------------------------
(* What people do meanwhile *)

\* plan-approval.mjs validates a plan before it records an approval.
Approve(plan) ==
  /\ plan.scope \subseteq Scope[plan.task][plan.contract]
  /\ everApproved' = everApproved \cup {plan}
  /\ UNCHANGED <<fileVars, run, carried>>

-----------------------------------------------------------------------------
\* Whatever goes on in a session.
Work ==
  \/ \E r \in Runs : \E task \in Tasks : ResolveTask(r, task)
  \/ \E task \in Tasks : FetchContract(task) \/ FetchFixture(task)
  \/ \E plan \in Plans : PlanStop(plan) \/ PlanGate(plan) \/ Materialize(plan)
  \/ \E path \in Files : Authorize(path)
  \/ \E r \in Runs : \/ ClearContract(r) \/ ClearPlan(r)
                    \/ ReadIssue(r) \/ CacheContract(r) \/ FetchPlan(r)
                    \/ WritePlan(r) \/ WriteProposal(r)
                    \/ LoadPlan(r) \/ CheckBranch(r) \/ CheckAncestor(r)
                    \/ Edit(r) \/ Killed(r)
  \/ \E plan \in Plans : Approve(plan)

Next == Work \/ \E task \in Tasks \cup {None} : SessionStart(task)

Spec == Init /\ [][Next]_vars

-----------------------------------------------------------------------------
(* Properties *)

\* Every file and every run holds what its type says.
TypeOK ==
  /\ contractFile \in ContractType \cup {None}
  /\ planFile \in PlanFileType \cup {None}
  /\ run \in [Runs -> RunType]
  /\ everApproved \subseteq Plans
  /\ carried \subseteq Plans

\* An approval that the scripts did not make up: people gave it, or it came
\* inside a plan block that plan-stop, plan:gate or plan:materialize was given.
Vouched == everApproved \cup carried

\* An edit that authorize-tool.mjs allows is inside a plan that is vouched for,
\* that very plan and for the very contract that authorizes the edit, although
\* contract, plan and branch are read one after another and a command may rewrite
\* the files in between.  Where plan blocks carry no approvals but those people
\* gave, people approved the plan; that they do the scripts do not ensure.
WritesAreVouchedFor ==
  LET r == run["hook"]
  IN  r.at = "allowed" =>
        /\ r.contract.trusted
        /\ r.plan.plan \in Vouched
        /\ r.plan.plan.task = r.contract.task
        /\ r.plan.plan.contract = r.contract.version
        /\ r.path \in r.plan.plan.scope
        /\ r.path \in Scope[r.contract.task][r.contract.version]

\* No script has added the approval in plan.json, or in a copy of it.
Genuine(file) ==
  file # None /\ file.approval # None => file.approval \in Vouched

\* Why WritesAreVouchedFor holds: whichever of its writers has written plan.json,
\* and whatever a run has read of it or is about to write to it, an approval in
\* there was given or came with its block, what is fetched was approved, and a
\* hook that has passed the checks of an edit still holds the contract, the plan
\* and the path it checked.
SessionInv ==
  /\ Genuine(planFile)
  /\ \A r \in Runs :
       /\ run[r].at \in {"resolve", "fetchContract"} => run[r].task \in Tasks
       /\ run[r].at = "plan" => run[r].plan \in everApproved \cup {None}
       /\ run[r].at \in {"propose", "branch", "ancestor", "allowed"} =>
            run[r].plan \in PlanFileType \cup {None} /\ Genuine(run[r].plan)
       /\ run[r].at \in {"ancestor", "allowed"} =>
            EditAllowed(run[r].contract, run[r].plan, run[r].path)
=============================================================================
