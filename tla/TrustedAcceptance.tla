------------------------- MODULE TrustedAcceptance -------------------------
(***************************************************************************)
(* How an implementation pull request gets the status trusted-acceptance:   *)
(* the workflows Governed Change (which tests the head), Publish Evidence    *)
(* (which evaluates everything else on trusted code, comments and posts the  *)
(* status) and System Maintenance Approval (which does so again for a change *)
(* of the control plane).  A run calls its scripts one by one and each asks  *)
(* GitHub several times, while people push, edit, review and approve.        *)
(*                                                                         *)
(* One step of a run is one answer of GitHub that may differ from the one    *)
(* before; file contents, digests and git ancestry are what the constants    *)
(* say of a commit.  PlanApproval models how a plan comes to be approved,    *)
(* ExecutionReport what the report decides.                                  *)
(***************************************************************************)
EXTENDS Integers, Sequences, FiniteSets

CONSTANTS Commits, Plans, Contracts,  \* heads, plans, versions of the task issue
          Reviewers, CodeOwners,      \* people who are not the author
          None,
          PlanOf,      \* [Plans -> [contract, checks, minimum, owner]]
          Green,       \* commits whose tests and scans pass and prove the criteria
          Within,      \* <<commit, plan>>: in scope, at the approved base and risk
          Authority,   \* commits that change workflows, hooks, scripts, ...
          Suite,       \* the checks that stand for the jobs of Governed Change
          MaxPolls,    \* answers that verify-maintenance-runs waits for
          Openings,    \* bounds: how the pull request may be found at first,
          MaxEvents    \*   how often people, or faults, intervene

Publish == "publish"
Runs == {Publish} \cup Commits  \* the maintenance run of a commit goes by it

OpeningType == [head : Commits, body : Plans \cup {None}, issue : Contracts,
                approved : Plans \cup {None}, reviews : [Reviewers -> Commits \cup {None}]]

ASSUME AcceptanceAssumption ==
  /\ CodeOwners \subseteq Reviewers
  /\ DOMAIN PlanOf = Plans /\ \A p \in Plans : PlanOf[p].contract \in Contracts
  /\ Green \subseteq Commits /\ Authority \subseteq Commits
  /\ Within \subseteq Commits \X Plans
  /\ Publish \notin Commits /\ None \notin Commits \cup Plans \cup Contracts \cup {Publish}
  /\ Openings \subseteq OpeningType
  /\ MaxPolls \in Nat \ {0} /\ MaxEvents \in Nat

VARIABLES head,      \* the pull request's head branch
          body,      \* the plan in its description; None: it links no task issue
          issue,     \* the version of the task issue
          approved,  \* the plan that resolveTask finds approved, or None
          reviews,   \* the commit that each reviewer's last review approves
          status,    \* trusted-acceptance of each commit
          comments,  \* the number of evidence comments
          governed,  \* the head that Governed Change is testing, or None
          waiting,   \* a Publish Evidence run that waits for its turn, or None;
                     \*   Skipped: the last one to come was of a dispatched run
          job,       \* the runs under way
          queued,    \* a maintenance run that waits behind another, or None
          events     \* how often people or faults have intervened

github == <<head, body, issue, approved, reviews>>
posted == <<status, comments>>
vars   == <<github, posted, governed, waiting, job, queued, events>>

Report == INSTANCE ExecutionReport WITH
  HostedOnly <- {"plan-approval", "codeql", "human-review", "production-environment",
                 "repository-controls", "validation-authority"},
  NoRun <- None, NoArtifact <- None

ASSUME NoneAssumption == None \notin Report!Decisions

-----------------------------------------------------------------------------
(* Runs and their files *)

\* The check that a step belongs to.
CheckOf == [plan |-> "plan-contract", planAgain |-> "plan-contract",
            approval |-> "plan-approval",
            scope |-> "scope-policy", scopeFiles |-> "scope-policy",
            scopeAgain |-> "scope-policy",
            review |-> "human-review", reviewList |-> "human-review",
            reviewAgain |-> "human-review",
            authority |-> "validation-authority",
            authorityFiles |-> "validation-authority",
            authorityAgain |-> "validation-authority",
            controls |-> "repository-controls"]
Evaluated == {CheckOf[s] : s \in DOMAIN CheckOf}

\* Some job of Governed Change (the unit tests, say) is judged by nobody else.
ASSUME SuiteAssumption == ~(Suite \subseteq Evaluated)

\* publish-evidence.yml, and system-maintenance-approval.yml without the first
\* round of checks, whose records and files the second round replaces.
Steps(r) ==
  IF r = Publish
  THEN <<"identify", "task", "plan", "planAgain", "approval", "scope",
         "scopeFiles", "scopeAgain", "review", "reviewList", "reviewAgain",
         "authority", "authorityFiles", "authorityAgain", "controls", "identify",
         "task", "plan", "planAgain", "report", "find", "comment", "status",
         "dispatch", "end">>
  ELSE <<"environment", "verify", "identify", "authority", "authorityFiles",
         "authorityAgain", "task", "plan", "planAgain", "approval", "scope",
         "scopeFiles", "scopeAgain", "review", "reviewList", "reviewAgain",
         "controls", "report", "find", "comment", "status">>
Controls == 15  \* the step of Publish Evidence after which nothing is tolerated
StatusStep == 23

\* What Governed Change hands over: the head it tested and how it went.
ResultType == [sha : Commits, ok : BOOLEAN]

\* What a dispatched run hands over: the job that it would start is skipped.
Skipped == [sha |-> None, ok |-> FALSE]

\* A fresh checkout.  plan, candidate and final are artifacts/plan.json,
\* candidate-plan.json and approved-plan.json; contract is task-contract.json;
\* good holds the checks recorded as passed; files and sofar belong to the
\* script that is running; evidence is the conclusion, as far as it is known, of
\* the Publish Evidence run that dispatched this one.
NoJob == [at |-> 0, sha |-> None, good |-> {}, contract |-> None, plan |-> None,
          candidate |-> None, final |-> None, files |-> None, sofar |-> FALSE,
          polls |-> 0, changed |-> FALSE, decision |-> None, failed |-> FALSE,
          cancelled |-> FALSE, evidence |-> None]
JobType == [at : 0 .. 25, sha : Commits \cup {None},
            good : SUBSET (Evaluated \cup Suite),
            contract : Contracts \cup {None}, plan : Plans \cup {None},
            candidate : Plans \cup {None}, final : Plans \cup {None},
            files : Commits \cup {None}, sofar : BOOLEAN, polls : 0 .. MaxPolls - 1,
            changed : BOOLEAN, decision : Report!Decisions \cup {None},
            failed : BOOLEAN, cancelled : BOOLEAN,
            evidence : {None, "running", "success", "other"}]

\* import-workflow-results: a record for each job of the run; those of
\* Evaluated are replaced before they are used.
PublishJob(result) ==
  [NoJob EXCEPT !.at = 1, !.sha = result.sha, !.good = IF result.ok THEN Suite ELSE {}]

\* The evidence bundle that the maintenance run imports, with its manifest.
MaintenanceJob(j) ==
  [j EXCEPT !.at = 1, !.changed = FALSE, !.decision = None, !.plan = None,
            !.sofar = FALSE, !.evidence = "running"]

At(r, s) == job[r].at # 0 /\ Steps(r)[job[r].at] = s

-----------------------------------------------------------------------------
(* How a run goes on *)

\* The end of a Publish Evidence run, as its maintenance run sees it.
Concluded(j, verdict) ==
  IF j # None /\ j.evidence = "running" THEN [j EXCEPT !.evidence = verdict] ELSE j

\* The run ends; a maintenance run that waited behind it takes its place.
End(r, failed) ==
  IF r = Publish
  THEN LET verdict == IF failed THEN "other" ELSE "success"
       IN  /\ job' = [q \in Runs |-> IF q = r THEN NoJob ELSE Concluded(job[q], verdict)]
           /\ queued' = [c \in Commits |-> Concluded(queued[c], verdict)]
  ELSE /\ job' = [job EXCEPT ![r] = IF queued[r] = None THEN NoJob ELSE queued[r]]
       /\ queued' = [queued EXCEPT ![r] = None]

Goto(r, j, n) == job' = [job EXCEPT ![r] = [j EXCEPT !.at = n]] /\ UNCHANGED queued
Continue(r, j) == Goto(r, j, j.at + 1)

\* A step fails.  In Publish Evidence the comment and the status are posted
\* `always() && hashFiles('artifacts/report.json') != ''`.
StopAtNextPost(r) ==  \* a bug: when the look-up fails, a comment is posted
  IF r = Publish /\ (At(r, "find") \/ At(r, "comment"))
  THEN Goto(r, [job[r] EXCEPT !.failed = TRUE], job[r].at + 1)
  ELSE End(r, TRUE)

Stop(r) ==
  IF r = Publish /\ (At(r, "find") \/ At(r, "comment"))
  THEN Goto(r, [job[r] EXCEPT !.failed = TRUE], StatusStep)
  ELSE End(r, TRUE)

\* The check at hand, or "none".
CheckAt(r, n) ==
  LET s == Steps(r)[n] IN IF s \in DOMAIN CheckOf THEN CheckOf[s] ELSE "none"
AfterCheck(r) ==
  CHOOSE n \in job[r].at + 1 .. job[r].at + 3 :
    /\ CheckAt(r, n) # CheckAt(r, job[r].at)
    /\ \A k \in job[r].at .. n - 1 : CheckAt(r, k) = CheckAt(r, job[r].at)

\* Under `set +e` a check is recorded whether it passed or failed; elsewhere a
\* failed check ends the run.
Tolerated(r) ==
  IF r = Publish
  THEN job[r].at <= Controls /\ CheckAt(r, job[r].at) # "none"
  ELSE CheckAt(r, job[r].at) = "validation-authority"

FailCheck(r, j) ==
  IF Tolerated(r)
  THEN Goto(r, [j EXCEPT !.good = @ \ {CheckAt(r, j.at)}, !.files = None,
                         !.sofar = FALSE], AfterCheck(r))
  ELSE Stop(r)

\* What follows the checks of Publish Evidence is not recorded.
PassCheck(r, j) ==
  Goto(r, [j EXCEPT !.good = IF r = Publish /\ j.at > Controls
                             THEN @ ELSE @ \cup {CheckAt(r, j.at)},
                    !.files = None, !.sofar = FALSE], AfterCheck(r))

OnHead(r) == head = job[r].sha
NextOrFail(r, j, ok) == IF ok THEN Continue(r, j) ELSE FailCheck(r, j)
PassOrFail(r, j, ok) == IF ok THEN PassCheck(r, j) ELSE FailCheck(r, j)

Intervenes == events < MaxEvents /\ events' = events + 1

\* Every step of a run leaves the rest alone.
Reads   == UNCHANGED <<github, posted, governed, waiting, events>>

-----------------------------------------------------------------------------
(* The steps, by the script that makes them *)

\* resolve-workflow-pr: the head's open pull request.
Identify(r) ==
  /\ At(r, "identify")
  /\ IF OnHead(r) THEN Continue(r, job[r]) ELSE Stop(r)
  /\ Reads

\* resolve-pr-task: the linked issue becomes the contract.
ResolvePrTask(r) ==
  /\ At(r, "task")
  /\ IF body # None THEN Continue(r, [job[r] EXCEPT !.contract = issue]) ELSE Stop(r)
  /\ Reads

\* check-plan writes a valid plan and looks again; the plan that is there then is
\* the candidate.
CheckPlan(r) ==
  /\ At(r, "plan")
  /\ LET j == job[r]
         valid == OnHead(r) /\ body # None /\ PlanOf[body].contract = j.contract
     IN  IF valid THEN Continue(r, [j EXCEPT !.plan = body])
                  ELSE FailCheck(r, [j EXCEPT !.candidate = j.plan])
  /\ Reads

CheckPlanAgain(r) ==
  /\ At(r, "planAgain")
  /\ LET j == IF r = Publish /\ job[r].at > Controls
              THEN job[r] ELSE [job[r] EXCEPT !.candidate = job[r].plan]
     IN  PassOrFail(r, j, OnHead(r) /\ body = j.plan)
  /\ Reads

\* fetch-approved-plan caches contract and approved plan, or removes plan.json.
FetchAnyApprovedPlan(r) ==  \* a bug: the expected plan is not compared
  /\ At(r, "approval")
  /\ LET j == job[r]
         found == approved # None /\ PlanOf[approved].contract = issue
         resolved == [j EXCEPT !.contract = issue, !.plan = IF found THEN approved ELSE None]
     IN  IF found THEN PassCheck(r, [resolved EXCEPT !.final = approved])
                  ELSE FailCheck(r, resolved)
  /\ Reads

FetchApprovedPlan(r) ==
  /\ At(r, "approval")
  /\ LET j == job[r]
         found == approved # None /\ PlanOf[approved].contract = issue
         resolved == [j EXCEPT !.contract = issue, !.plan = IF found THEN approved ELSE None]
     IN  IF j.candidate = None THEN FailCheck(r, j)
         ELSE IF found /\ approved = j.candidate
         THEN PassCheck(r, [resolved EXCEPT !.final = approved])
         ELSE FailCheck(r, resolved)
  /\ Reads

\* check-scope: the head before and after the list of its files.
CheckScope(r) ==
  /\ At(r, "scope")
  /\ NextOrFail(r, job[r], job[r].plan # None /\ OnHead(r))
  /\ Reads

ListFiles(r) ==
  /\ At(r, "scopeFiles") \/ At(r, "authorityFiles")
  /\ Continue(r, [job[r] EXCEPT !.files = head])
  /\ Reads

CheckScopeAgain(r) ==
  /\ At(r, "scopeAgain")
  /\ PassOrFail(r, job[r], OnHead(r) /\ <<job[r].files, job[r].plan>> \in Within)
  /\ Reads

\* check-human-review: GitHub's reviewDecision with the head, the list of
\* reviews, the head again.
CheckHumanReview(r) ==
  /\ At(r, "review")
  /\ LET j == job[r]
         decided == j.plan # None /\ (PlanOf[j.plan].owner
                                      => \E p \in CodeOwners : reviews[p] # None)
     IN  NextOrFail(r, [j EXCEPT !.sofar = decided], j.plan # None /\ OnHead(r))
  /\ Reads

EvaluateFinalApproval(r) ==
  /\ At(r, "reviewList")
  /\ LET j == job[r]
         approvals == {p \in Reviewers : reviews[p] = j.sha}
     IN  Continue(r, [j EXCEPT !.sofar = @ /\ Cardinality(approvals)
                                               >= PlanOf[j.plan].minimum])
  /\ Reads

CheckHumanReviewAgain(r) ==
  /\ At(r, "reviewAgain")
  /\ PassOrFail(r, job[r], OnHead(r) /\ job[r].sofar)
  /\ Reads

\* check-validation-authority, whose exit code 3 a maintenance run asks for.
CheckAuthority(r) ==
  /\ At(r, "authority")
  /\ NextOrFail(r, job[r], OnHead(r))
  /\ Reads

CheckAuthorityAgain(r) ==
  /\ At(r, "authorityAgain")
  /\ LET own == job[r].files \in Authority
     IN  PassOrFail(r, [job[r] EXCEPT !.changed = OnHead(r) /\ own],
                    OnHead(r) /\ (own <=> r # Publish))
  /\ Reads

\* governance-audit --online: the repository's settings are right.
RepositoryControls(r) == At(r, "controls") /\ PassCheck(r, job[r]) /\ Reads

\* The environment system-maintenance: a person lets the run in, or not.
ApproveDeployment(r) ==
  /\ At(r, "environment")
  /\ Continue(r, job[r]) \/ Stop(r)
  /\ Reads

\* verify-maintenance-runs: the run that dispatched this one is still ending.
VerifyRunsOnceMore(r) ==  \* a bug: one attempt too many
  /\ At(r, "verify")
  /\ LET j == job[r]
     IN  CASE j.evidence = "success" -> Continue(r, j)
           [] j.evidence = "running" /\ j.polls < MaxPolls
              -> Goto(r, [j EXCEPT !.polls = @ + 1], j.at)
           [] OTHER -> Stop(r)
  /\ Reads

VerifyRunsAnyway(r) ==  \* a bug: polling ends, and the last answer is as good as any
  /\ At(r, "verify")
  /\ LET j == job[r]
     IN  IF j.evidence = "running" /\ j.polls + 1 < MaxPolls
         THEN Goto(r, [j EXCEPT !.polls = @ + 1], j.at)
         ELSE IF j.evidence = "other" THEN Stop(r) ELSE Continue(r, j)
  /\ Reads

VerifyRuns(r) ==
  /\ At(r, "verify")
  /\ LET j == job[r]
     IN  CASE j.evidence = "success" -> Continue(r, j)
           [] j.evidence = "running" /\ j.polls + 1 < MaxPolls
              -> Goto(r, [j EXCEPT !.polls = @ + 1], j.at)
           [] OTHER -> Stop(r)
  /\ Reads

\* What the report is made from.
EvidenceOf(j) ==
  LET ran == Suite \subseteq j.good
      suite == IF ran THEN Report!JUnit({[name |-> "criterion", outcome |-> "passed"]})
                      ELSE Report!NoSuite
  IN  [checks |-> IF j.final = None THEN {} ELSE PlanOf[j.final].checks,
       planValid |-> j.final # None /\ PlanOf[j.final].contract = j.contract,
       records |-> {Report!CheckRecord(id, "pass", j.sha, "run", None) : id \in j.good},
       criteria |-> {"criterion"}, unit |-> suite, acceptance |-> suite,
       hosted |-> TRUE, trusted |-> TRUE, head |-> j.sha, run |-> "run"]

\* build-execution-report --hosted --plan artifacts/approved-plan.json.
BuildReport(r) ==
  /\ At(r, "report")
  /\ LET decision == Report!Decision(EvidenceOf(job[r]))
     IN  IF r = Publish \/ decision = "ready_for_acceptance"
         THEN Continue(r, [job[r] EXCEPT !.decision = decision])
         ELSE Stop(r)
  /\ Reads

\* publish-evidence replaces the comment it finds.
ExistingCommentId(r) ==
  /\ At(r, "find")
  /\ Continue(r, [job[r] EXCEPT !.sofar = comments > 0])
  /\ Reads

PostComment(r) ==
  /\ At(r, "comment")
  /\ Continue(r, [job[r] EXCEPT !.sofar = FALSE])
  /\ comments' = IF job[r].sofar THEN comments ELSE comments + 1
  /\ UNCHANGED <<github, status, governed, waiting, events>>

\* publish-acceptance-status.
PostStatusIfReady(r) ==  \* a bug: only good news is posted
  /\ At(r, "status")
  /\ status' = IF job[r].decision = "ready_for_acceptance"
               THEN [status EXCEPT ![job[r].sha] = "success"] ELSE status
  /\ IF r = Publish THEN Continue(r, job[r]) ELSE End(r, FALSE)
  /\ UNCHANGED <<github, comments, governed, waiting, events>>

PostStatus(r) ==
  /\ At(r, "status")
  /\ status' = [status EXCEPT ![job[r].sha] =
                  IF job[r].decision = "ready_for_acceptance" THEN "success" ELSE "failure"]
  /\ IF r = Publish THEN Continue(r, job[r]) ELSE End(r, FALSE)
  /\ UNCHANGED <<github, comments, governed, waiting, events>>

Dispatched(j) == ~j.failed /\ j.changed /\ j.decision = "ready_for_review"

\* The maintenance runs of a commit go one at a time; one of them may wait.
DispatchMaintenance(r) ==
  /\ At(r, "dispatch")
  /\ LET j == job[r]
         next == [job EXCEPT ![r].at = j.at + 1]
     IN  IF ~Dispatched(j) THEN job' = next /\ UNCHANGED queued
         ELSE IF job[j.sha].at = 0
         THEN job' = [next EXCEPT ![j.sha] = MaintenanceJob(j)] /\ UNCHANGED queued
         ELSE job' = next /\ queued' = [queued EXCEPT ![j.sha] = MaintenanceJob(j)]
  /\ Reads

EndRun(r) == At(r, "end") /\ End(r, job[r].failed) /\ Reads

\* Cancellation: without a report nothing more runs; with one, the step at hand
\* may be lost but the comment and the status keep their `always()`.
TakeCancellation(r) ==
  /\ r = Publish /\ job[r].at # 0 /\ job[r].cancelled
  /\ Stop(r)
  /\ Reads

-----------------------------------------------------------------------------
(* Governed Change and the start of Publish Evidence *)

\* A completed run of Governed Change replaces a waiting Publish Evidence run
\* and cancels the one in progress.
Cancelled == IF job[Publish].at = 0 THEN job ELSE [job EXCEPT ![Publish].cancelled = TRUE]

GovernedDoneOnce ==  \* a bug: the run in progress is cancelled, none is put in its place
  /\ governed # None
  /\ governed' = None
  /\ waiting' = IF job[Publish].at # 0 THEN waiting
                ELSE [sha |-> governed, ok |-> governed \in Green]
  /\ job' = Cancelled
  /\ UNCHANGED <<github, posted, queued, events>>

GovernedDone ==
  /\ governed # None
  /\ governed' = None
  /\ waiting' = [sha |-> governed, ok |-> governed \in Green]
  /\ job' = Cancelled
  /\ UNCHANGED <<github, posted, queued, events>>

StartPublish ==
  /\ job[Publish].at = 0 /\ waiting \notin {None, Skipped}
  /\ job' = [job EXCEPT ![Publish] = PublishJob(waiting)]
  /\ waiting' = None
  /\ UNCHANGED <<github, posted, governed, queued, events>>

\* An event of the pull request: Governed Change starts on the new head; the run
\* that was in progress is cancelled, and so completes, with some jobs done.
Trigger ==
  /\ governed' = head'
  /\ IF governed = None THEN UNCHANGED <<waiting, job>>
     ELSE /\ \E ok \in {FALSE, (governed \in Green)} :
               waiting' = [sha |-> governed, ok |-> ok]
          /\ job' = Cancelled

-----------------------------------------------------------------------------
(* People *)

Changed == Intervenes /\ UNCHANGED <<posted, queued>>

Push(c) ==
  /\ Changed /\ c # head /\ head' = c /\ Trigger
  /\ UNCHANGED <<body, issue, approved, reviews>>

EditBody(p) ==
  /\ Changed /\ p # body /\ body' = p /\ UNCHANGED head /\ Trigger
  /\ UNCHANGED <<issue, approved, reviews>>

\* A review approves the head, or asks for changes or is dismissed.
Review(p, c) ==
  /\ Changed /\ c \in {head, None} /\ c # reviews[p]
  /\ reviews' = [reviews EXCEPT ![p] = c] /\ UNCHANGED head /\ Trigger
  /\ UNCHANGED <<body, issue, approved>>

\* No event of the pull request tells of these.
EditIssue(v) ==
  /\ Changed /\ v # issue /\ issue' = v
  /\ UNCHANGED <<head, body, approved, reviews, governed, waiting, job>>

ApprovePlan(p) ==
  /\ Changed /\ p # approved /\ approved' = p
  /\ UNCHANGED <<head, body, issue, reviews, governed, waiting, job>>

\* A run of Governed Change that somebody dispatched on the branch completes (it
\* runs beside the one of an event).  The Publish Evidence run that follows
\* replaces and cancels those before it, though its only job is skipped.
DispatchedDone ==
  /\ Changed
  /\ waiting' = Skipped
  /\ job' = Cancelled
  /\ UNCHANGED <<github, governed>>

-----------------------------------------------------------------------------
Init ==
  /\ \E o \in Openings : /\ head = o.head /\ body = o.body /\ issue = o.issue
                         /\ approved = o.approved /\ reviews = o.reviews
  /\ status = [c \in Commits |-> "none"] /\ comments = 0
  /\ governed = head /\ waiting = None
  /\ job = [r \in Runs |-> NoJob] /\ queued = [c \in Commits |-> None]
  /\ events = 0

Evaluate(r) ==
  \/ Identify(r) \/ ResolvePrTask(r) \/ CheckPlan(r) \/ CheckPlanAgain(r)
  \/ FetchApprovedPlan(r) \/ CheckScope(r) \/ ListFiles(r) \/ CheckScopeAgain(r)
  \/ CheckHumanReview(r) \/ EvaluateFinalApproval(r) \/ CheckHumanReviewAgain(r)
  \/ CheckAuthority(r) \/ CheckAuthorityAgain(r) \/ RepositoryControls(r)
  \/ VerifyRuns(r)

Conclude(r) ==
  \/ BuildReport(r) \/ ExistingCommentId(r) \/ PostComment(r) \/ PostStatus(r)
  \/ DispatchMaintenance(r) \/ EndRun(r)

People ==
  \/ \E c \in Commits : Push(c)
  \/ \E p \in Plans \cup {None} : EditBody(p) \/ ApprovePlan(p)
  \/ \E p \in Reviewers, c \in Commits \cup {None} : Review(p, c)
  \/ \E v \in Contracts : EditIssue(v)
  \/ DispatchedDone

Next ==
  \/ \E r \in Runs : Evaluate(r) \/ Conclude(r) \/ ApproveDeployment(r)
                     \/ TakeCancellation(r)
  \/ GovernedDone \/ StartPublish \/ People

Fairness ==
  /\ WF_vars(GovernedDone) /\ WF_vars(StartPublish)
  /\ \A r \in Runs : WF_vars(Evaluate(r) \/ Conclude(r))

Spec == Init /\ [][Next]_vars /\ Fairness

-----------------------------------------------------------------------------
(* Properties *)

\* Every variable has its type; the files of a run hold plans and versions.
TypeOK ==
  /\ head \in Commits /\ body \in Plans \cup {None} /\ issue \in Contracts
  /\ approved \in Plans \cup {None} /\ reviews \in [Reviewers -> Commits \cup {None}]
  /\ status \in [Commits -> {"none", "success", "failure"}] /\ comments \in Nat
  /\ governed \in Commits \cup {None}
  /\ waiting \in ResultType \cup {None, Skipped}
  /\ job \in [Runs -> JobType] /\ queued \in [Commits -> JobType \cup {None}]
  /\ events \in 0 .. MaxEvents

\* However runs are cancelled, fail and overlap, the pull request never has two
\* evidence comments (publish-evidence.mjs: "Replace our previous comment rather
\* than adding one per run"): the look-up and the POST are two requests, and only
\* the order of the runs keeps another run from coming between them.
AtMostOneComment == comments <= 1

\* Why: while there is no comment the one Publish Evidence run is alone, for a
\* maintenance run is dispatched only after its own comment; and what a run
\* found out about the comment it is about to post still holds.  A maintenance run
\* has 21 steps.
CommentInv ==
  /\ comments \in {0, 1}
  /\ comments = 0 => \A c \in Commits : job[c].at = 0 /\ queued[c] = None
  /\ job[Publish].at > 22 /\ ~job[Publish].failed => comments = 1
  /\ \A r \in Runs : At(r, "comment") => (job[r].sofar <=> comments = 1)
  /\ \A c \in Commits : job[c].at <= 21 /\ (queued[c] # None => queued[c].at = 1)

Described == body # None /\ PlanOf[body].contract = issue
Reviewed ==
  /\ Cardinality({u \in Reviewers : reviews[u] = head}) >= PlanOf[body].minimum
  /\ PlanOf[body].owner => \E u \in CodeOwners : reviews[u] # None
Unreviewed == /\ Described /\ "human-review" \in PlanOf[body].checks /\ ~Reviewed
              /\ head \notin Authority

\* Everything that the status stands for, of a change that leaves the control
\* plane alone.
Good ==
  /\ Described /\ approved = body /\ <<head, body>> \in Within
  /\ head \in Green \ Authority
  /\ "human-review" \in PlanOf[body].checks => Reviewed

\* No Publish Evidence run is left for the last event: after Governed Change had
\* dealt with it, a dispatched run took the place of the one that followed
\* (governed-change.yml:8).  The next event puts an end to this.
Displaced == governed = None /\ waiting = Skipped

\* An event that finds everything in order, which then stays so, leads to the
\* status, although runs are cancelled and replaced (publish-evidence.yml:14),
\* also by dispatched runs that complete before Governed Change is done with the
\* event.  One that completes later may take the status away from it.
GoodHeadIsAccepted ==
  (governed # None /\ [](Good /\ ~Displaced)) ~> (status[head] = "success")

\* An event that finds the reviews wanting, with the description in order, leads
\* to a head without the status for good, also when an older run that saw the
\* reviews is about to post it (publish-acceptance-status.mjs:26), with the same
\* exception of a dispatched run that completes later.  A maintenance run is not
\* cancelled, and may post what it saw after that: no such heads here.
WithdrawnReviewFalls ==
  (governed # None /\ [](Unreviewed /\ ~Displaced)) ~> [](status[head] # "success")
=============================================================================
