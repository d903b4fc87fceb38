----------------------------- MODULE AgentLoop -----------------------------
(***************************************************************************)
(* A turn of the implementing agent and the gate that its Stop hook is:      *)
(* agent-stop.mjs runs seven checks on the working copy, records each for    *)
(* HEAD, builds the execution report and lets the agent stop or blocks it,   *)
(* once a turn.  Meanwhile other sessions and people edit, commit, run the   *)
(* suites and replace the cached contract and plan.                          *)
(*                                                                         *)
(* A run of one command is a step, and so is each record; a commit and a     *)
(* working copy are what the constants say of their tree.                    *)
(***************************************************************************)
EXTENDS Integers, Sequences, FiniteSets, PathPolicy

CONSTANTS Trees, Contracts, Plans, None,
          NoArtifact,  \* a check without an artifact, or one that nobody else writes
          ContractOf,  \* [Contracts -> [branch, scope, criteria]]
          PlanOf,      \* [Plans -> [contract, base, scope, operations, risk, checks]]
          ChecksOfRisk,   \* [risk -> checks], of policy.json
          Branch, History,  \* the contract whose branch is checked out; HEAD's ancestors
          Changed,     \* [Trees -> SUBSET paths], against any base
          Mergeable,   \* <<base, tree>> without a conflict
          Scans,       \* the checks that read nothing but the working copy
          Builds, Clean,    \* trees that lint and compile; that the scans pass
          UnitCases, AcceptanceCases,  \* [Trees -> test cases]
          Openings,    \* [tree, contract, plan] that a session may find
          Paths, Covers,    \* paths, and [pattern -> SUBSET Paths]: what it is for
          MaxTurns, MaxEvents  \* bounds: turns, and how often others intervene or
                               \*   the gate is killed

ASSUME AgentAssumption ==
  /\ \A p \in Plans : PlanOf[p].contract \in Contracts
  /\ Openings \subseteq [tree : Trees, contract : Contracts \cup {None}, plan : Plans \cup {None}]
  /\ Clean \subseteq Trees /\ Builds \subseteq Trees
  /\ None \notin Trees \cup Contracts \cup Plans /\ NoArtifact \notin Plans
  /\ Scans \in Seq({"dependency-review", "secret-scan", "governance-policy"})
  /\ \A m, n \in DOMAIN Scans : Scans[m] = Scans[n] => m = n
  /\ MaxTurns \in Nat \ {0} /\ MaxEvents \in Nat

\* policy.json asks for these at every risk.
ASSUME PolicyAssumption ==
  \A p \in Plans : {"plan-contract", "quality", "scope-policy", "merge-validation"}
                      \subseteq ChecksOfRisk[PlanOf[p].risk]

\* A pattern is for the paths that it matches.
ASSUME PatternAssumption ==
  /\ \A p \in Paths \cup DOMAIN Covers : p \in Seq(STRING) /\ p # <<>>
  /\ \A t \in Trees : Changed[t] \subseteq Paths
  /\ \A p \in DOMAIN Covers : IsPathPattern(p) /\ Covers[p] \subseteq Paths
  /\ \A p \in DOMAIN Covers, path \in Paths :
       path \in Covers[p] <=> MatchesPattern(path, p)
  /\ \A c \in Contracts : ContractOf[c].scope.allowed \subseteq DOMAIN Covers
  /\ \A p \in Plans : PlanOf[p].scope.allowed \subseteq DOMAIN Covers
  /\ \A rule \in PathRisk : rule.pattern \in DOMAIN Covers

\* Of the rules of policy.json one is for everything; no other begins with a star.
ASSUME RuleAssumption ==
  \A rule \in PathRisk : rule.pattern = <<"**">> \/ ~HasStar(<<rule.pattern[1]>>)

\* A test case is a name and an outcome.
ASSUME CaseAssumption ==
  \A t \in Trees : \A c \in UnitCases[t] \cup AcceptanceCases[t] :
    c = [name |-> c.name, outcome |-> c.outcome]

VARIABLES tree, commit,       \* the working copy and HEAD
          contract, plan,     \* task-contract.json and plan.json, or None
          unit, acceptance,   \* the two JUnit files
          records, report,    \* artifacts/checks and report.json
          gate,               \* the run of agent-stop.mjs
          turn, active, verdict,  \* the agent's turn, stop_hook_active, its end
          touched,            \* how often others moved HEAD, contract or plan since
                              \*   the gate began
          turns, events

files   == <<tree, commit, contract, plan>>
suites  == <<unit, acceptance>>
session == <<turn, active, verdict>>
bounds  == <<turns, events>>
vars == <<files, suites, records, report, gate, session, touched, bounds>>

Report == INSTANCE ExecutionReport WITH
  HostedOnly <- {"plan-approval", "codeql", "human-review", "production-environment",
                 "repository-controls", "validation-authority"},
  NoRun <- None, NoArtifact <- NoArtifact

-----------------------------------------------------------------------------
(* The gate's checks *)

Gated == <<"quality", "acceptance">> \o Scans \o <<"scope-policy", "merge-validation">>
Recorded == {"plan-contract"} \cup {Gated[n] : n \in DOMAIN Gated}

\* at: 0 no gate runs, 1 the plan is read next, 2 recorded; then each check runs
\* and is recorded, and last come the report and the verdict.
CheckStep(n)  == 2 * n + 1
RecordStep(n) == 2 * n + 2
ReportStep    == 2 * Len(Gated) + 3
VerdictStep   == ReportStep + 1

\* together: the plan was one of the contract when the gate began.
NoGate == [at |-> 0, base |-> None, ok |-> TRUE, failed |-> {}, together |-> TRUE]
GateType == [at : 0 .. VerdictStep, base : {PlanOf[p].base : p \in Plans} \cup {None},
             ok : BOOLEAN, failed : SUBSET Recorded, together : BOOLEAN]

Together == plan # None => PlanOf[plan].contract = contract

\* A JUnit file: the tree it is about, who made it (it has times in it, so that
\* two runs never make the same file), and whether a failure was forced on it by
\* the surroundings.
SuiteType == [tree : Trees, by : {"gate", "other"}, broken : BOOLEAN]
Ran(t, by) == [tree |-> t, by |-> by, broken |-> FALSE]

Suite(s, cases) ==
  IF s = None THEN Report!NoSuite
  ELSE LET junit == Report!JUnit(cases[s.tree])
       IN  IF s.broken THEN [junit EXCEPT !.passed = FALSE, !.names = {}] ELSE junit

PlanValid(p, c) ==
  /\ PlanOf[p].contract = c
  /\ ChecksOfRisk[PlanOf[p].risk] \subseteq PlanOf[p].checks
  /\ PlanScopeValid(PlanOf[p], ContractOf[c])

\* check-scope's isolation: the task's branch, the plan's base, and a HEAD that
\* descends from it.
ExecutionContext(c, p, base) ==
  /\ ContractOf[c].branch = Branch
  /\ base = PlanOf[p].base
  /\ PlanOf[p].base \in History

ScopeHolds(base) ==
  /\ contract # None /\ plan # None
  /\ EvaluateChangedPaths(Changed[commit], ContractOf[contract].scope, PlanOf[plan])
  /\ ExecutionContext(contract, plan, base)

\* check-merge: HEAD and the base merge without a conflict.
CheckMerge(base) == <<base, commit>> \in Mergeable

\* What a check answers about the files as they are now.
Passes(id) ==
  CASE id = "quality" -> tree \in Builds /\ Report!JUnit(UnitCases[tree]).passed
    [] id = "acceptance" -> Report!JUnit(AcceptanceCases[tree]).passed
    [] id = "scope-policy" -> ScopeHolds(gate.base)
    [] id = "merge-validation" -> CheckMerge(gate.base)
    [] OTHER -> tree \in Clean

ArtifactOfSuites(id) ==  \* a bug: the plan's record names no artifact
  CASE id = "quality" -> unit [] id = "acceptance" -> acceptance [] OTHER -> NoArtifact

\* The digest of a check's artifact.  What only the gate's own commands write
\* stays as they wrote it.
Artifact(id) ==
  CASE id = "plan-contract" -> plan [] id = "quality" -> unit
    [] id = "acceptance" -> acceptance [] OTHER -> NoArtifact

Record(id, ok) ==
  records' = Report!WriteRecord(records,
    Report!CheckRecord(id, IF ok THEN "pass" ELSE "fail", commit, None, Artifact(id)))

-----------------------------------------------------------------------------
(* The gate: main of agent-stop.mjs *)

Block ==
  /\ turn' = "working" /\ active' = TRUE /\ verdict' = "blocked"
  /\ gate' = [gate EXCEPT !.at = 0]

LetStop(v) ==
  /\ turn' = "over" /\ verdict' = v /\ UNCHANGED active
  /\ gate' = [gate EXCEPT !.at = 0]

BeginAlways ==  \* a bug: stop_hook_active is not looked at
  /\ turn = "stopping" /\ gate.at = 0
  /\ IF contract = None THEN LetStop("unverified") /\ UNCHANGED touched
     ELSE /\ gate' = [NoGate EXCEPT !.at = 1, !.together = Together]
          /\ touched' = 0 /\ UNCHANGED session
  /\ UNCHANGED <<files, suites, records, report, bounds>>

\* Never blocked twice, and nothing to verify without a contract.
Begin ==
  /\ turn = "stopping" /\ gate.at = 0
  /\ IF active \/ contract = None THEN LetStop("unverified") /\ UNCHANGED touched
     ELSE /\ gate' = [NoGate EXCEPT !.at = 1, !.together = Together]
          /\ touched' = 0 /\ UNCHANGED session
  /\ UNCHANGED <<files, suites, records, report, bounds>>

ReadPlan ==
  /\ gate.at = 1
  /\ IF plan = None THEN Block
     ELSE gate' = [gate EXCEPT !.at = 2, !.base = PlanOf[plan].base] /\ UNCHANGED session
  /\ UNCHANGED <<files, suites, records, report, touched, bounds>>

RecordPlan ==
  /\ gate.at = 2
  /\ Record("plan-contract", TRUE)
  /\ gate' = [gate EXCEPT !.at = CheckStep(1)]
  /\ UNCHANGED <<files, suites, report, session, touched, bounds>>

\* Quality runs the unit suite only when all before it passed; acceptance needs
\* a database, without which it leaves the old file or a broken one.
RunSuites(id, available) ==
  CASE id = "quality" ->
         /\ unit' = IF tree \in Builds THEN Ran(tree, "gate") ELSE unit
         /\ UNCHANGED acceptance
    [] id = "acceptance" ->
         /\ acceptance' \in IF available THEN {Ran(tree, "gate")}
                            ELSE {acceptance, [Ran(tree, "gate") EXCEPT !.broken = TRUE]}
         /\ UNCHANGED unit
    [] OTHER -> UNCHANGED suites

RunCheck(n) ==
  /\ gate.at = CheckStep(n)
  /\ \E available \in {TRUE, Gated[n] # "acceptance"} :
       /\ RunSuites(Gated[n], available)
       /\ gate' = [gate EXCEPT !.at = RecordStep(n),
                               !.ok = available /\ Passes(Gated[n])]
  /\ UNCHANGED <<files, records, report, session, touched, bounds>>

RecordPass(n) ==  \* a bug: what the check answered is lost
  /\ gate.at = RecordStep(n)
  /\ Record(Gated[n], TRUE)
  /\ gate' = [gate EXCEPT !.at = CheckStep(n + 1), !.ok = TRUE,
                          !.failed = IF gate.ok THEN @ ELSE @ \cup {Gated[n]}]
  /\ UNCHANGED <<files, suites, report, session, touched, bounds>>

RecordCheck(n) ==
  /\ gate.at = RecordStep(n)
  /\ Record(Gated[n], gate.ok)
  /\ gate' = [gate EXCEPT !.at = CheckStep(n + 1), !.ok = TRUE,
                          !.failed = IF gate.ok THEN @ ELSE @ \cup {Gated[n]}]
  /\ UNCHANGED <<files, suites, report, session, touched, bounds>>

Evidence ==
  [checks |-> IF plan = None THEN {} ELSE PlanOf[plan].checks,
   criteria |-> ContractOf[contract].criteria,
   planValid |-> plan # None /\ PlanValid(plan, contract),
   records |-> records, unit |-> Suite(unit, UnitCases),
   acceptance |-> Suite(acceptance, AcceptanceCases),
   hosted |-> FALSE, trusted |-> TRUE, head |-> commit, run |-> None,
   artifacts |-> [id \in Recorded |-> Artifact(id)]]

\* What a report is about, with how often others had intervened.
NewReport(e) ==
  [decision |-> Report!Decision(e), head |-> commit, plan |-> plan, contract |-> contract,
   unit |-> unit, acceptance |-> acceptance, touched |-> touched, together |-> gate.together]
ReportType == [decision : Report!Decisions, head : Trees, plan : Plans \cup {None},
               contract : Contracts, unit : SuiteType \cup {None},
               acceptance : SuiteType \cup {None}, touched : 0 .. MaxEvents,
               together : BOOLEAN]

\* No report is not a report.
ASSUME NoneAssumption == None \notin ReportType

BuildReportIfReady ==  \* a bug: the script ends before it writes a bad report
  /\ gate.at = ReportStep
  /\ IF contract = None THEN UNCHANGED report
     ELSE \E e \in {Evidence} :
            report' = IF Report!LocalReady(e) THEN NewReport(e) ELSE report
  /\ gate' = [gate EXCEPT !.at = VerdictStep]
  /\ UNCHANGED <<files, suites, records, session, touched, bounds>>

\* npm run evidence: without a contract the old report stays.  The gate does not
\* look at how it ended.
BuildReport ==
  /\ gate.at = ReportStep
  /\ IF contract = None THEN UNCHANGED report
     ELSE \E e \in {Evidence} : report' = NewReport(e)
  /\ gate' = [gate EXCEPT !.at = VerdictStep]
  /\ UNCHANGED <<files, suites, records, session, touched, bounds>>

Ready == report # None /\ report.decision # "review_required"

GiveVerdict ==
  /\ gate.at = VerdictStep
  /\ IF Ready THEN LetStop("passed") ELSE Block
  /\ UNCHANGED <<files, suites, records, report, touched, bounds>>

-----------------------------------------------------------------------------
(* The agent *)

\* Whatever it edits, and commits or not, it stops some time.
StopTurn ==
  /\ turn = "working"
  /\ tree' \in Trees /\ commit' \in {commit, tree'}
  /\ turn' = "stopping"
  /\ UNCHANGED <<contract, plan, suites, records, report, gate, active, verdict, touched,
                 bounds>>

-----------------------------------------------------------------------------
(* Others *)

Intervene == events < MaxEvents /\ events' = events + 1

\* Other sessions and people share the working copy and its artifacts.
TouchFiles ==
  /\ Intervene
  /\ \/ commit' \in Trees /\ UNCHANGED <<contract, plan>>
     \/ contract' \in Contracts \cup {None} /\ UNCHANGED <<commit, plan>>
     \/ plan' \in Plans \cup {None} /\ UNCHANGED <<commit, contract>>
  /\ touched' = touched + 1
  /\ UNCHANGED <<tree, suites, records, report, gate, session, turns>>

EditMeanwhile ==
  /\ Intervene
  /\ tree' \in Trees
  /\ UNCHANGED <<commit, contract, plan, suites, records, report, gate, session,
                 touched, turns>>

\* Somebody runs a suite for himself.
RunSuiteMeanwhile ==
  /\ Intervene
  /\ \/ unit' = Ran(tree, "other") /\ UNCHANGED acceptance
     \/ acceptance' = Ran(tree, "other") /\ UNCHANGED unit
  /\ UNCHANGED <<files, records, report, gate, session, touched, turns>>

\* The hook's 300 seconds are over, or it dies.
Killed ==
  /\ gate.at # 0 /\ Intervene
  /\ LetStop("unverified")
  /\ UNCHANGED <<files, suites, records, report, touched, turns>>

\* A person lets the agent work on.
Prompt ==
  /\ turn = "over" /\ turns < MaxTurns
  /\ turns' = turns + 1
  /\ turn' = "working" /\ active' = FALSE /\ verdict' = "none"
  /\ UNCHANGED <<files, suites, records, report, gate, touched, events>>

-----------------------------------------------------------------------------
Init ==
  /\ \E o \in Openings : tree = o.tree /\ commit = o.tree
                           /\ contract = o.contract /\ plan = o.plan
  /\ unit = None /\ acceptance = None /\ records = {} /\ report = None
  /\ gate = NoGate
  /\ turn = "working" /\ active = FALSE /\ verdict = "none"
  /\ touched = 0 /\ turns = 1 /\ events = 0

Gate == Begin \/ ReadPlan \/ RecordPlan \/ BuildReport \/ GiveVerdict
        \/ \E n \in DOMAIN Gated : RunCheck(n) \/ RecordCheck(n)
Others == TouchFiles \/ EditMeanwhile \/ RunSuiteMeanwhile \/ Prompt \/ Killed

Next == Gate \/ StopTurn \/ Others

\* The hook's process goes on; the agent, whose turn is limited, stops some time.
Fairness == WF_vars(Gate) /\ WF_vars(StopTurn)
Spec == Init /\ [][Next]_vars /\ Fairness

-----------------------------------------------------------------------------
(* Properties *)

\* Types; and of each check there is one record (evidence-record.mjs:86), since
\* the report counts none where there are two.
TypeOK ==
  /\ files \in Trees \X Trees \X (Contracts \cup {None}) \X (Plans \cup {None})
  /\ {unit, acceptance} \subseteq SuiteType \cup {None}
  /\ \A r \in records : /\ r.id \in Recorded /\ r.status \in Report!Statuses
                        /\ r.head \in Trees
                        /\ {q \in records : q.id = r.id} = {r}
  /\ report \in ReportType \cup {None}
  /\ gate \in GateType
  /\ session \in {"working", "stopping", "over"} \X BOOLEAN
                 \X {"none", "unverified", "passed", "blocked"}
  /\ gate.at # 0 => turn = "stopping" /\ ~active
  /\ touched \in 0 .. MaxEvents /\ turns \in 1 .. MaxTurns /\ events \in 0 .. MaxEvents

\* What the patterns of a scope are for.
InScope(path, scope) ==
  /\ \E p \in scope.allowed : path \in Covers[p]
  /\ ~\E p \in scope.prohibited : p \in DOMAIN Covers /\ path \in Covers[p]
HasHead(p) == \E i \in DOMAIN p : p[i] \in DOMAIN Heads
Riskier(path, risk) ==
  \E rule \in PathRisk : path \in Covers[rule.pattern] /\ Above(rule.risk, risk)

Supported(r) ==
  /\ r.plan # None
  /\ PlanOf[r.plan].contract = r.contract /\ ContractOf[r.contract].branch = Branch
  /\ <<PlanOf[r.plan].base, r.head>> \in Mergeable
  /\ \A path \in Changed[r.head] : /\ InScope(path, ContractOf[r.contract].scope)
                                   /\ InScope(path, PlanOf[r.plan].scope)
                                   /\ ~Riskier(path, PlanOf[r.plan].risk)
  /\ \A c \in ContractOf[r.contract].criteria :
       [name |-> c, outcome |-> "passed"] \in UnitCases[r.unit.tree]
                                              \cup AcceptanceCases[r.acceptance.tree]
  /\ \A c \in UnitCases[r.unit.tree] \cup AcceptanceCases[r.acceptance.tree] :
       c.outcome # "failed"

\* A report that says ready is about a head whose changes are inside task and
\* plan and no riskier than planned, and about suites that passed and prove every
\* criterion, whatever a previous run left behind and although HEAD, the contract
\* or the plan was replaced once while the checks ran (build-execution-report.mjs:
\* 140, agent-stop.mjs:127-161).  Replaced and put back, it may not be; nor when the
\* plan was already one of another contract, with which check-scope.mjs does not
\* compare it, and that contract arrives before the report is built.
ReadyIsSupported ==
  Ready /\ report.touched <= (IF report.together THEN 1 ELSE 0) => Supported(report)

\* The gate lets an agent stop only on a report about the head, contract and plan
\* that are there, and never on one of an earlier run, unless somebody replaced
\* them while it ran (agent-stop.mjs:161-175).
PassIsCurrent ==
  verdict = "passed" /\ touched = 0 =>
    /\ Ready
    /\ <<report.head, report.contract, report.plan>> = <<commit, contract, plan>>
    /\ gate.failed \cap PlanOf[plan].checks = {}

\* A valid plan allows no path that its task does not allow, with two exceptions; and
\* the risk that it declares is no lower than that of any path it allows
\* (plan-contract.mjs:81 and 156): the globs are compared with one another, not with
\* paths.  One exception is below a directory that both allow, the plan by its name (of
\* a task that allows dir/* a plan may allow dir/sub); the other is beside the
\* directory (of a task that allows dir/** a plan may allow dir*, which is for
\* dir.json).  Of a pattern that begins with its wildcard the risk is not known before
\* there are changes; and a task whose allowed scope is empty asks nothing of its plans
\* (:179).  check-scope.mjs, which asks both scopes, refuses later what slips through
\* (ReadyIsSupported).
ValidPlanIsBounded ==
  contract # None /\ plan # None /\ PlanValid(plan, contract) =>
    \A p \in PlanOf[plan].scope.allowed : \A path \in Covers[p] :
      /\ ContractOf[contract].scope.allowed # {} =>
           \E a \in ContractOf[contract].scope.allowed :
             \/ path \in Covers[a]
             \/ ~HasStar(p) /\ MatchesPattern(p, a) /\ IsStrictPrefix(p, path)
             \/ HasHead(p) /\ Last(a) = "**" /\ TextPrefix(Front(a), path)
      /\ Riskier(path, PlanOf[plan].risk) => PatternPrefix(p) = <<>>

\* An agent that stops is let go in the end, however often a check fails: it is
\* not blocked again and again (agent-stop.mjs:95).
EveryTurnEnds == turn = "stopping" ~> turn = "over"

\* How many steps of the agent and its hook are left of a turn, at most.
StepsLeft ==
  CASE turn = "over" -> 0
    [] turn = "stopping" -> IF active THEN 1 ELSE 3 + VerdictStep - gate.at
    [] OTHER -> IF active THEN 2 ELSE 4 + VerdictStep

\* Why it does: each step of the agent and of its hook leaves fewer, and nothing that
\* others do to the files, HEAD, contract or plan while it runs makes them more; only
\* a person's prompt begins again.  Blocked once, the agent has two steps left
\* (agent-stop.mjs:95), not the whole gate.
EachStepCounts ==
  [][/\ Gate \/ StopTurn => StepsLeft' < StepsLeft
     /\ StepsLeft' <= StepsLeft \/ Prompt]_vars

-----------------------------------------------------------------------------
(* Why the properties hold while nobody replaces HEAD, contract or plan *)

\* What the checks that read them have found of HEAD, contract and plan.
Found(id) ==
  /\ id = "scope-policy" => ScopeHolds(gate.base)
  /\ id = "merge-validation" => CheckMerge(gate.base)

\* The record of the gate's check n is of this run: it says what the check found.
Told(n) ==
  /\ \E r \in records : r.id = Gated[n] /\ (r.status = "pass" <=> Gated[n] \notin gate.failed)
  /\ touched = 0 /\ Gated[n] \notin gate.failed => Found(Gated[n])

\* The report is of this run.
ReportIsCurrent ==
  /\ report # None
  /\ <<report.head, report.contract, report.plan>> = <<commit, contract, plan>>
  /\ Ready => plan # None /\ gate.failed \cap PlanOf[plan].checks = {}

\* Together with TypeOK: step by step, what the gate has got from the files and
\* what its records and its report say of them is the same.
GateInv ==
  /\ touched <= events
  /\ gate.at # 0 => /\ gate.failed \subseteq {Gated[n] : n \in {m \in DOMAIN Gated : gate.at > RecordStep(m)}}
                    /\ \A n \in DOMAIN Gated : gate.at > RecordStep(n) => Told(n)
  /\ gate.at # 0 /\ touched = 0 =>
       /\ contract # None
       /\ gate.at >= 2 => plan # None /\ gate.base = PlanOf[plan].base
       /\ \A n \in DOMAIN Gated : gate.at = RecordStep(n) /\ gate.ok => Found(Gated[n])
       /\ gate.at = VerdictStep => ReportIsCurrent
  /\ verdict = "passed" => turn = "over" /\ (touched = 0 => Ready /\ ReportIsCurrent)
  /\ report # None /\ report.touched = 0 => ReadyIsSupported

\* What keeps the report from saying ready, whatever the checks still find.
Doomed ==
  \/ contract = None \/ plan = None \/ PlanOf[plan].contract # contract
  \/ gate.at > 2 /\ \E r \in records : r.id = "plan-contract" /\ r.digest \in Plans \ {plan}
  \/ gate.at > RecordStep(1) /\ \E r \in records : r.id = "quality" /\ r.head # commit

\* What the checks have found is still so.
Kept ==
  \A n \in DOMAIN Gated :
    \/ gate.at > RecordStep(n) /\ Gated[n] \notin gate.failed
    \/ gate.at = RecordStep(n) /\ gate.ok
    => Found(Gated[n])

\* The same with one replacement: it comes before what it makes false was found,
\* or it is one that the report notices.
OnceInv ==
  /\ gate.at # 0 /\ gate.together /\ touched = 0 =>
       /\ Together
       /\ gate.at > 2 => \E r \in records : r.id = "plan-contract" /\ r.digest = plan
       /\ gate.at > RecordStep(1) => \E r \in records : r.id = "quality" /\ r.head = commit
  /\ gate.at # 0 /\ gate.together /\ touched = 1 => Doomed \/ Kept
  /\ report # None => ReadyIsSupported
=============================================================================
