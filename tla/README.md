# Northstar Orders API: specifications and proofs

TLA+ modules, TLC configurations and TLAPS proofs for the Northstar Orders API
and for the governance tooling that surrounds it.  Paths below are relative to
the repository.

The repository holds two systems.  The *product* is one endpoint,
`POST /orders`, with idempotent retries over PostgreSQL (`src/`,
`migrations/`).  The *governance* is a set of Node scripts, agent hooks and
GitHub workflows (`scripts/`, `.github/`) that decide what an agent may change
and whether a pull request is accepted.  Both are small programs whose
difficulty is in the order of things: statements of concurrent transactions in
the one, calls to GitHub and files in a working copy in the other.

## Inventory

| Component | State | Operations | What makes it correct |
| --- | --- | --- | --- |
| Idempotent order service (`src/services/postgres-idempotent-order-service.ts`, `src/app.ts`, `src/domain/order.ts`, `migrations/001_*.sql`, `src/telemetry`) | `orders` and `idempotency_records`, advisory locks, a connection pool and two counters per process | `placeOrder`: BEGIN, lock, delete expired, select, two inserts, COMMIT or ROLLBACK | one order per key and retention window; order and record together or not at all; true answers; no connection and no lock lost; counters never ahead of the facts |
| Baseline order service (`src/services/order-service.ts`, in-memory repository) | a Map | insert | nothing shared |
| Task contract, plan cache and session hooks (`resolve-task`, `session-start`, `fetch-task-contract`, `fetch-approved-plan`, `plan-contract`, `plan-stop`, `check-plan`, `agent-stop`) | `artifacts/task-contract.json`, `task-plan.md`, `plan.json` | resolve a task, clear a session, propose or materialize a plan, let an agent stop | files that do not belong together authorize nothing; a session does not inherit a task; an agent stops on evidence about what is there |
| Tool authorization and scope (`authorize-tool`, `check-scope`, `risk-policy`) | none of its own: reads the cached files and git | decide on one tool call | an edit is inside an approved plan for the contract that authorizes it |
| Plan publication and approval (`publish-plan`, `plan-approval`) | the branch `plan/<task>`, its pull request, reviews and approval comments on GitHub | publish, review, record, fetch | a plan is returned only if an approval of it held; one that stands is found |
| Repair budget (`repair-budget`) | a log of failed attempts | decide: repair or escalate | bounded attempts, never the same failure twice |
| Evidence and execution report (`evidence-record`, `build-execution-report`, `import-*`, `check-validation-authority`, `check-human-review`, `check-merge`) | records under `artifacts/checks`, `artifacts/report.json` | record a check, build the report | only records of this head and run count, all required ones present once |
| Acceptance publication (`governed-change.yml`, `publish-evidence.yml`, `system-maintenance-approval.yml`, `publish-evidence`, `publish-acceptance-status`, `verify-maintenance-runs`) | the evidence comment and the commit status `trusted-acceptance` | evaluate again, publish | a success status rests on facts about that head |
| Governance audit (`governance-audit`) | none | independent checks of configuration | - |
| Scanners and generators (`secret-scan`, `check-sarif`, `run-zizmor`, ...) | none | text matching, spawning processes | - |

**How they interact.**  API processes meet only in PostgreSQL: the advisory
lock of a key, the rows, the server's clock.  The scripts meet in three places:
the files under `artifacts/`, the pull request on GitHub, and the commit status.
`resolveTask` reads the issue and, through `fetchApprovedPlan`, the pull
request, and writes the files; `authorize-tool.mjs` reads them before every tool
call; the workflows run the same scripts again on the default branch.

**What is hard.**  A COMMIT whose outcome its sender does not learn; a process
that dies while its transaction lives on; a transaction's clock that stands still
while it waits for a lock; a pool in which everyone waits for one key.  On the
other side: state assembled from several GitHub calls while people go on
reviewing and pushing; scripts that are killed half way or whose second call
fails; files rewritten between two reads.  `PROJECT.json` lists these hazards at
their lines with the properties that cover them.

## Modules

| Module | Models | Kind |
| --- | --- | --- |
| `OrderService` | `placeOrder` under the route, statement by statement | detailed specification |
| `IdempotentOrders` | what `POST /orders` promises: an order and its key are bound in one step | abstract specification |
| `OrderServiceProofs` | theorems about the tables of `OrderService` | proofs |
| `OrderPromiseProofs` | theorems about its answers, its counters and the refinement | proofs |
| `PlanApproval` | reviews, approval records and `fetchApprovedPlan` on one plan pull request | specification |
| `PlanPublication` | how that pull request comes to be | specification |
| `TaskSession` | the cached contract and plan, the hooks and commands that write them, and the authorization of an edit | specification |
| `TrustedAcceptance` | the workflows that turn evidence into the status `trusted-acceptance` of a head | specification |
| `EarnedAcceptance` | `TrustedAcceptance` with a history: the facts that were true while each run was under way | history variable |
| `AgentLoop` | an agent's turn and the Stop hook `agent-stop.mjs` that gates its end | specification |
| `ExecutionReport` | check records and the report's decision, used by the two above | operators |
| `PathPolicy` | path patterns, scopes and the risk floor, used by `AgentLoop` | operators |
| `RepairBudget` | whether an automated repair may go on | specification |
| `PlanApprovalProofs`, `PlanPublicationProofs`, `TaskSessionProofs`, `AgentLoopProofs`, `RepairBudgetProofs` | theorems about the module of that name | proofs |
| `AcceptanceProofs` | theorems about `TrustedAcceptance` and `EarnedAcceptance` | proofs |
| `ReviewedPlans` | `PlanApproval` with a history: the description that each review had before it | history variable |
| `SessionTasks` | `TaskSession` with a history: the tasks resolved since the session began | history variable |
| `MC...` | instances of these for TLC | instances |

`OrderService` implements `IdempotentOrders` (`ImplementsPromise`).
`TaskSession` takes `fetchApprovedPlan` as one step, which is what `PlanApproval`
shows of it (`FetchIsAtomic`), and `PlanApproval` starts where a run of
`PlanPublication` ends, with an open pull request of one empty commit.
`TrustedAcceptance` and `AgentLoop` both make records and reports with the
operators of `ExecutionReport`: the one with hosted checks and a workflow run that
the records must name, the other with local checks and the artifacts' digests.
`TrustedAcceptance` takes from `PlanApproval` only which plan is approved now.

### OrderService

A call has two halves.  `call[c]` is the async function in an API process: where
it stands (`at`, the await it is at), its input and its reply.  `txn[c]` is the
transaction in the server: the time its BEGIN fixed (`now`), and whether it has
deleted the expired record, placed an order and bound the key.  Only an applied
COMMIT moves these into the tables `orders` and `records`.  Keeping the halves
apart is what lets a broken connection or a crash leave a transaction behind
(`Disconnect`, `Crash`, then `AbortOrphan` or `ApplyCommit`).

| Action | Code (`src/services/postgres-idempotent-order-service.ts`) |
| --- | --- |
| `Receive` | `src/app.ts` parses the body; the key's pattern is checked, 79-83 |
| `Connect`, `ConnectFails` | `pool.connect()`, 87 |
| `Begin`, `AcquireLock`, `DeleteExpired` | 90-95 |
| `SelectConflict`, `SelectReplay`, `SelectNothing` | the SELECT and what follows from its row, 97-121 |
| `InsertOrder`, `InsertRecord` | 44-52, 121-128 |
| `CommitReturns` | 116, 128: the answer and, for a replay, the counter |
| `StatementFails`, `Rollback`, `Disconnect` | the catch block and `finally`, 130-143 |
| `ApplyCommit`, `AbortOrphan`, `Tick` | PostgreSQL |

Hashes are taken to be injective: a key stands for its SHA-256 and an input for
the hash of its canonical JSON.  Two keys that share an advisory lock's 64 bits
would only wait for each other needlessly.  The branch at lines 112-114, a
stored response that no longer parses, cannot be reached with rows this code
wrote.

### PlanApproval

A run of `plan-approval.mjs` (`rec`) and one of `fetchApprovedPlan` (`fetch`) are
sequences of GitHub calls; between any two of them people edit the description,
review, dismiss, push, force the branch back or advance the base.  The issue is
edited too: each run finds it at any of its versions.
Of a review only its last state matters and of the states only whether it is
APPROVED.  Every approval comment is one that `plan-approval.mjs` posted
(`commentAuthor === reviewer` excludes others').  The number of reviews that an
unpaginated request returns, 30 on GitHub, is the constant `PageSize`.
`fetch.held` is history: what held when the pull request was read.  No action
reads it.

### PlanPublication

Each publisher looks for the open pull request and edits it, or pushes one empty
commit and opens it.  The commit is a fresh child of the base, so a push is
accepted only if it creates the branch; that is why retries after a half-done
publication cannot succeed (see Observations).

### TaskSession

The host runs hooks one after another (`run["hook"]`); one command, a human's or
one that an agent's shell tool was allowed, runs beside them
(`run["command"]`).  Git's answers about the branch are left open, since people
check out what they like.  `task-plan.md` is left out: people and agents read it,
no script does.  A step reads or writes one file or asks GitHub or git once,
and a run may be killed between any two steps, since hooks have a timeout
(`.github/hooks/agent-boundary.json`).  A plan stands for its digest; the field
`approval` of `plan.json` stands for `approval.planDigest`, its task and its
contract.  Only `resolveTask` adds that field.  The other three writers
(`PlanStop`, `PlanGate`, `Materialize`) write a plan block with every key it has, so in the
model a block carries any approval or none (`ProposeBlock`), and the history
variable `carried` keeps those that came so, as `everApproved` keeps those that people
gave.  People may edit issues and withdraw approvals at any time, so a
resolver may find any version of an issue and any plan that has ever been
approved for it, or none.

### TrustedAcceptance

Every event of the pull request starts Governed Change on its head (`Trigger`); a
completed or cancelled run of it replaces a waiting Publish Evidence run and
cancels the one in progress (`GovernedDone`, `StartPublish`, `TakeCancellation`).
Governed Change may also be dispatched by hand, on the same branch and beside the run
of an event.  When such a run completes (`DispatchedDone`), the Publish Evidence run that follows
replaces and cancels others as well, but its job is skipped: `waiting` is then `Skipped`
until the next run takes its place.
A run is a record in `job`: the step it is at (`Steps` lists them by script, one
step for each answer of GitHub that may differ from the one before), the files of
its checkout (`contract`, `plan`, `candidate`, `final`), the checks recorded as
passed, and what the script at hand remembers.  Between two steps people push,
edit the description, review or dismiss, edit the issue and approve or withdraw a
plan.  In Publish Evidence the checks run under `set +e`: a failed check is
recorded and the next one runs (`Tolerated`).  After them a failure ends the run, but once
a report is there the comment and the status keep their `always()` (`Stop`).  A
maintenance run goes by its head, one at a time with one waiting; its first round
of checks, which the second one repeats and replaces, is left out but for the
identity and the authority check.  The contents of a commit are constants: whether
its tests pass (`Green`), which plans it is within (`Within`), whether it changes
the control plane (`Authority`).  `EarnedAcceptance` adds steps that go wrong for
outside reasons (`Fault`) and, in `seen`, the facts that were true at some moment of
each run.

### AgentLoop

The gate's seven checks and their records are two steps each; HEAD, the working
copy, the cached contract and plan, the JUnit files, the records and the report are
variables that an agent, other sessions and people change in between.  A JUnit
file is the tree it was made from and who made it: no two runs make the same file,
since it has times in it, so a record's digest stands for that run alone.  The
scope check and the plan's validity are computed with `PathPolicy`, whose patterns
are sequences of segments, a glob being a segment with the text before its star.  `Covers` is the reference: the paths that a
pattern is *for*, given by hand in `MCAgentLoop` and not by the matching that is checked.
`touched` counts how often others moved HEAD, contract or plan since the gate
began, and `gate.together` whether the plan was one of the contract then; only
properties read them.

### RepairBudget

The log is kept by the agent and may be sent on by a person after an escalation.
A failure is its check, the text that normalization leaves of its message, and the
layers whose words occur in it; `classify` takes the first.

## Runs

| Run | Question | Bounds |
| --- | --- | --- |
| `order_safety` | do the tables, the pool and the answers stay right (`TypeOK`, `OneOrderPerWindow`, `OrdersAreBound`, `AnswersAreTrue`, `CheckStaysGood`, `PoolAccounted`, `IInv`), and does nobody wait for connections and locks in a circle (`NoCircularWait`)? | three calls, one key, two inputs, one process with a pool of two, one expiry |
| `order_promise` | do the steps implement `IdempotentOrders`, do live records stay (`LiveRecordsStay`), do the counters stay behind the facts (`MetricsNeverOvercount`, `AnswerInv`)? | two calls, two processes with a pool of two each, a good and a bad key, two inputs, two expiries |
| `order_liveness` | is every call answered, every lock given back? | three calls, one key, a pool of two |
| `plan_fetch` | is a fetch as good as a look at one moment, also for a reviewer who changes their mind, and is a record good only for the commit, base, plan and contract it names (`ApprovalInv` and the properties that rest on it)? | the author, a reviewer and a bot, two reviews, one record, a plan for each version of base and issue, two commits of which one changes files |
| `plan_publish` | do concurrent publishers leave an open pull request's head alone (`OpenPrKeepsHead`)? | two publishers, three commits |
| `session_files` | is every allowed edit inside one plan for the very contract that allows it, with an approval that people gave or a plan block carried (`WritesAreVouchedFor`, `SessionInv`)? | two tasks, two versions of their issues, two rival plans for one of them, blocks with any approval or none, two paths |
| `acceptance_safety` | does a run decide `ready_for_acceptance` only on facts of its own time, and a maintenance run only after the run that dispatched it has ended well (`ReadyWasEarned`), and is there never a second evidence comment (`AtMostOneComment`), with the invariant that the first rests on (`EarnedInv`)? | two heads of which one changes the control plane, a low-risk and a high-risk plan, two versions of the issue, one reviewer who owns the code, four ways to find the pull request, two interventions of people, dispatched runs or outages, two polls |
| `acceptance_liveness` | does a head that stays in order get the status (`GoodHeadIsAccepted`), and one whose reviews stay withdrawn lose it (`WithdrawnReviewFalls`), unless a dispatched run completes after the last event's (`Displaced`)? | the same without outages; the pull request is opened on the head that leaves the control plane alone, the other is pushed later |
| `agent_gate` | is a report that says ready supported by what it is about (`ReadyIsSupported`), does the gate pass only a current one (`PassIsCurrent`), is a valid plan inside its task and no riskier than it says (`ValidPlanIsBounded`), and does every turn end (`EveryTurnEnds`)? `GateInv`, `OnceInv` and `EachStepCounts` say why. | three trees, two tasks, five plans, two turns, one intervention |
| `repair_loop` | are automated repairs bounded (`RepairsAreBounded`)? | six failures, logs of up to five |

The runs whose result is a counterexample are under Findings.

**Why these bounds are enough to be interesting.**  A key's history is decided by
pairs of calls: a holder and one that waits or retries.  A third call finds the
record of a second after the first has expired, and makes the pool of two
smaller than the calls that want it.  A retention of one and a clock that goes one or two further let a
record expire before, during and after a wait.  A second process matters for
the counters and for the pool only, because nothing else is per process.  For an
approval the pairs are an approval and what undoes it: another review of the same
person, a dismissal, another commit, base, plan or issue; each has two values.
The accounts are the author, a human reviewer and a bot that approves as well.  A session goes wrong when files of two origins meet: two tasks, two versions of an
issue, or two plans for one version are those origins.  The second task has a contract
and no plan: a plan for it would be to the first what a rival plan is.  `CHECK_DEADLOCK FALSE`
stands where the system may come to rest: all calls answered, or all bounds used.
For an acceptance, two interventions are a change and its undoing, or a change
and an outage; the openings put each kind of pull request in front of them, so
that they do not have to be spent on preparing it.  One intervention at any of its
some twenty steps already mixes two states of the working copy in one gate; two
turns let a report of the first be met by the second.
`MaxEvents`, `MaxTurns`, `MaxPolls` (24 in the code), `MaxLog`, `MaxTime`, `MaxReviews`, `MaxRecords`, `MaxCommit`, `MaxBase` and `MaxIssue` are
bounds of the model and not of the code.  Symmetry of calls, inputs and processes
is used in `order_safety` only, which checks no temporal property.

**Fairness** is weak everywhere.  In `order_liveness` (`FairSpec`) it is assumed call
by call.  `Step(c)`: an awaited promise is resolved sooner or
later, a query is run.  `ServerStep(c)`: a COMMIT that was received is applied, and
a transaction whose client has gone is noticed and aborted (TCP keepalive).  This is
enough although calls compete for connections and locks, because each call makes
one attempt and is then answered: a call that keeps losing has in the end nobody left to
lose to.  The queues of `pg` and of PostgreSQL's lock manager give more than that.
Nothing is assumed of requests, faults, crashes and the clock: a
statement may fail always or never.
In `TrustedAcceptance` a run's next step is taken sooner or later, Governed Change
ends and a waiting run starts: GitHub runs what it has queued.  Nothing is assumed
of people, of dispatched runs, of outages, of cancellations (`TakeCancellation`) or of the approval that a maintenance run
waits for.  In `AgentLoop` the hook's process goes on, and the agent stops some
time, because its turn is limited; `Killed` and all that others do may never happen.

## Proofs

Every theorem holds for all values of the constants that satisfy the named
assumptions of the module it is about.  Each proof module has the invariant that is
inductive, a lemma for each action, and a last step that combines them.

| Module | Theorem | Says |
| --- | --- | --- |
| `OrderServiceProofs` | `TypeCorrect`, `Invariance` | `Spec => []TypeOK`, `Spec => []IInv` |
| | `AtMostOneOrder` | `Spec => []OneOrderPerWindow` |
| | `OrderAndRecordTogether` | `Spec => []OrdersAreBound` |
| | `NoLateCollision` | `Spec => []CheckStaysGood` |
| `OrderPromiseProofs` | `AnswersInvariant`, `AnswersStayTrue` | `Spec => []AnswerInv`, `Spec => []AnswersAreTrue` |
| | `RecordsOutlive` | `Spec => LiveRecordsStay`, an action property |
| | `ImplementsThePromise` | `Spec => ImplementsPromise`: the refinement of `IdempotentOrders` |
| | `NoConnectionLeaks` | `Spec => []PoolAccounted` |
| | `NobodyWaitsInVain` | `Spec => []NoCircularWait` |
| | `CountersNeverExceed` | `Spec => []MetricsNeverOvercount` |
| `PlanApprovalProofs` | `ApprovalInvariant`, `ApprovalTypes` | `Spec => [](TypeOK /\ ApprovalInv)` |
| | `FetchedAsOfOneMoment`, `StandingIsAccepted` | `FetchIsAtomic` and `StandingApprovalIsFound` while `Len(reviews) <= PageSize` |
| | `LapsedStaysLapsed` | `Spec => LapsedApprovalsStayLapsed`, an action property |
| `PlanPublicationProofs` | `OpenInvariant` | `Spec => [](TypeOK /\ OpenInv)` |
| | `HeadsStay` | `Spec => OpenPrKeepsHead`, an action property |
| `TaskSessionProofs` | `SessionInvariant`, `SessionTypes` | `Spec => [](TypeOK /\ SessionInv)` |
| | `EditsAreVouchedFor` | `Spec => []WritesAreVouchedFor` |
| | `EditsAreApproved` | the same with "people approved the plan", in every state in which plan blocks have carried no other approvals than those people gave |
| `AgentLoopProofs` | `GateInvariant`, `GateTypes` | `Spec => [](TypeOK /\ GateInv)` |
| | `PassesAreCurrent` | `Spec => []PassIsCurrent` |
| | `ReadyReportsAreSupported`, `OneReplacementIsNoticed` | `Spec => [](OnceInv /\ ReadyIsSupported)` |
| | `PlansAreBounded` | `Spec => []ValidPlanIsBounded` |
| | `TurnsEndInTime` | `Spec => [](StepsLeft \in Nat) /\ EachStepCounts`, an action property |
| `AcceptanceProofs` | `AcceptanceTypes` | `EarnedSpec => []TypeOK` |
| | `OneCommentOnly` | `EarnedSpec => [](AtMostOneComment /\ CommentInv)` |
| | `AcceptanceIsEarned`, `ClaimsWereSeen` | `EarnedSpec => [](ReadyWasEarned /\ EarnedInv)` |
| `RepairBudgetProofs` | `BoundedRepair`, `AnswerIsCurrent` | `Spec => []RepairsAreBounded`, `Spec => []TypeOK` |

### Assumptions

The modules' `...Assumption`s say which constants are subsets of which and that
`None` is not one of the things it stands for the lack of.  TLC evaluates each of
them on the instances.  Those that say more:

- `NothingAssumption` (`OrderService`) and both `NoneAssumption`s: no reply, no request,
  no report and no decision is `None`.  In the code the lack of one is `null`
  or `undefined` and the thing an object or a string.
- `PolicyAssumption` (`AgentLoop`): `.github/governance/policy.json` requires
  `plan-contract`, `quality`, `scope-policy` and `merge-validation` at each of
  the four risks.  A policy without the scope check would let a report be ready that no
  scope check supports.
- `AgentAssumption`: the scans of `agent-stop.mjs` are different checks (a list
  in the source).
- `PatternAssumption` and `CaseAssumption`: paths and patterns are sequences of at least
  one name, the paths that a pattern is *for* are those that it matches, and every allowed
  pattern is a path pattern; a test case is a
  name and an outcome.  The first defines what in scope means in the theorem; on the
  instance it compares `MatchesPattern` with sets of paths written by hand.
- `NameAssumption` (`PathPolicy`): facts about text.  What a glob matches begins with what is
  before its star, and of two beginnings of a name the shorter begins the longer.  Where
  the code compares the beginnings of patterns as text, names are looked up in `Beginnings`.
- `RuleAssumption`: of the rules of `.github/governance/policy.json` only the one for
  everything, `**`, begins with a wildcard.  `riskForScope` compares the beginnings of
  patterns, so a rule such as `**/*.sql` would be missed for a plan that names `db/x.sql`.
- `SuiteAssumption` (`TrustedAcceptance`): Governed Change has a check that the
  evaluation does not make itself, the suites.

The bounds (`MaxTime`, `MaxEvents`, ...) are any numbers.  The sets of calls, trees,
plans, commits and people may be infinite.

### Orders

`OneOrderPerWindow` is not inductive: at `ApplyCommit` it needs that the key's
record is still absent or expired *as the transaction saw it*, and this rests on
the lock.  `IInv` says, for each call: its two halves agree on where it stands
(`HalvesAgree`); what its transaction has written fits the phase
(`WritesAgree`); while it can still change its key's record it holds the key's
lock, and a lock is held only by a live transaction (`LockHeld`); and what it found under the
lock still describes the committed row (`FindingsStand`).  Types are proved
action by action first.  Most actions move one call and leave the tables alone,
so a lemma (`OneCallMoves`) reduces them to the four parts for that call.  Only
`ApplyCommit` changes the tables: there `LockHeld` shows that no other call is
active on the key (`CommitterAlone`), hence nobody's findings are disturbed, and
`FindingsStand` shows that an earlier order under the key is at least one
retention older than the new one.

`AnswerInv` adds what a call is about to answer: the fields of a reply agree with
what was found, and no transaction began in the future.  It is inductive beside
`IInv`, since the tables only grow in what a true answer speaks of
(`AnswersLast`).

For the refinement a call's request is what it has received, the promise's
placing of an order is the `ApplyCommit` of a transaction that has written one, its
answer the step that sets the call's reply (`CommitReturns`, `Rollback`, or a failure
after which there is nothing to roll back), and its failure a 500, at which an order may exist all the
same.  Every other step is a stutter (`InnerStepsUnseen`, `CrashUnseen`).  `CommitIsPromised` is the
heart: at the commit the key's last order is at least a retention old by
`FindingsStand`, which is the abstract guard.

The two counting theorems compare cardinalities.  `PoolInv` and `MetricsInv` add
that the sets are finite, as they begin empty and gain at most one call a step, so
that the theorems also hold of infinitely many calls.

`NoCircularWait` is what keeps a pool whose members wait for locks from seizing up.  A call
waits in two places: for a connection, with nothing in hand, and for its key's lock, with a
connection in hand.  A call that waits for the lock holds no lock (`HoldsNone`), so the
lock's holder is at a later statement, or its connection is gone: either way it goes on
(`LockHeld`).  A full pool is full of calls that have been accounted for (`PoolAccounted`), each of which
goes on or waits for such a holder, be it on another instance.  `GoesOn` spells out the guards of `Step` and
`ServerStep`; that it is the same as ENABLED cannot be proved here.

### Plans and sessions

`ApprovalInv` rests on one fact about people: reviews are only added, and one that
was dismissed is never approved again.  `Grown` states this as an order between two
lists of reviews, and every action keeps it.  What a fetch holds of its first call
(`held`, the approvals that held then) is a part of the records; between the
first call and the second the reviews grew, so whatever still counts at the second
counted at the first (`Lasting`).  The provision that the reviews fit on one page is
necessary: beyond it a later review is not seen (Observations).

`WritesAreVouchedFor` needs that every approval in every file and in every run's memory
was given by people or carried by a plan block (`SessionInv`), since four scripts write
`plan.json` and three of them copy what their block holds; and that a hook which has
passed a check holds the very contract, plan and path it was passed with.  More than that is
not true of the scripts, so that people approved the plan of an edit is proved under
the condition `carried \subseteq everApproved` (`EditsAreApproved`).

`HeadsStay` needs that an open pull request has a branch (`OpenInv`), which makes the
push of a fresh commit no fast-forward.

### The agent's gate

`GateInv` follows the gate's position: each check before it has a record of this
run, which says pass just if the check is not among the failed ones (`Told`), and
as long as nobody moved HEAD, contract or plan what the check found is still so
(`Found`).  With the report's own conditions this makes the report supported
(`ReadyMeans`).  `OnceInv` extends this to one replacement: either it came before
anything that it makes false was found (`Kept`), or the report notices it (`Doomed`): by the
head in the record of the quality check, which is recorded before the
checks that read HEAD, by the digest in the record of the plan, or because
the plan is not one of the contract.  `NotDoomed` shows that these three are enough.

`ValidPlanIsBounded` compares patterns, and paths only through them.  What is before a
pattern's first star begins, as text, every path that it matches (`MatchedPrefix`), and of two
beginnings of one path one begins the other (`TextPrefixesCompare`).  A rule that matches a
path therefore overlaps with every pattern that does (`MatchedOverlap`), unless a wildcard comes
first, and so its risk was counted.  For scopes (`WithinIsAllowed`) the code wants the
allowed directory to end where a segment of the planned prefix ends.  The prefix of a whole
name is one that the paths have too, so that they are in the directory; that of `src*` is `src`, which
is only the beginning of a name.  This and a name under `dir/*` are the ways out that the
property states.

`EachStepCounts` bounds a turn by `StepsLeft`, the rest of the gate and what follows a block.  With weak fairness
this is why `EveryTurnEnds` holds; the theorem is the part that does not need
fairness.

### Acceptance

`CommentInv` says why the look-up and the post of the evidence comment are not
disturbed: while there is no comment, no maintenance run exists, and of the Publish
Evidence runs there is one.  It is inductive together with the types and with where each
run stands in its script, which `AcceptanceProofs` proves first: `PublishAt` and
`MaintenanceAt` tabulate the scripts, and the lemmas after them say what
follows a check that passes, fails or is cancelled.

`EarnedInv` says of each run, by the step it is at, which of the facts that it will claim
it has seen.  A step concerns one run: for it the claim of the step is added together with
the fact that was just read; the others have only seen more (`KeptEarned`).  Its second part,
`VerifiedInv`, is about a maintenance run alone: past its second step it knows that the run which
dispatched it ended with success, which no later step forgets.

### Repairs

The bound on repairs is not inductive, since `decide` counts failures and compares
with the log: `RepairsAreLogged` adds that every repair was of a failure that is
in the log, and that there are no more repairs than failures.  `RepairIsFresh`
says what the answer `repair` tells of the log, by counting (`RepeatsCounts`) and
by the order of the layers (`FirstLayers`).

### Only model-checked

- Liveness (`order_liveness`, `acceptance_liveness`, `EveryTurnEnds`): fairness and
  ENABLED are out of the prover's reach.  Their safe halves are proved where they have one:
  nobody waits in a circle (`NoCircularWait`), and each step of a turn counts (`EachStepCounts`).
- The two properties whose violation is a finding.

## Findings

Each is a counterexample of a run.

- `plan_review` (`RecordsBindReviewedPlan`): a review binds a commit, and the plan is in
  the description, which can be edited without a commit.  The record takes the
  plan as it is when the record is made.
- `session_earlier` (`EarlierSessionDoesNotGovern`): a session started for an issue that
  cannot be read leaves the earlier session's files, which go on allowing edits.

## Observations

Where the code and what the repository says of it part, or where a property needs
its condition, met while modelling; no run of the project is about them.

Orders:
- A connection that breaks while COMMIT is awaited: the call is answered 500 and
  its order may exist (`docs/architecture.md:117` says that failures roll back).
  A client with a key is told of that order when it retries.
- `now()` is the time of BEGIN, so a call that waits for the lock past the expiry
  replays a record that has expired (`docs/architecture.md:92`).

Plans and paths:
- Reviews are read without `--paginate`: from the 31st on, a later review of the
  same person is not seen, neither for a plan nor for the final review.
  `plan_fetch` sets `PageSize` so that one page is enough.  The evidence
  comment is looked for on the first page of comments only, too.
- Once `plan/<task>` exists without an open pull request, every publish pushes a
  commit that is no fast-forward and fails.
- The rule `docs/**` of low risk never takes effect, because `**` of medium risk
  matches as well and the highest counts.  A planned pattern that begins with a wildcard
  (`**/*.ts`) has no prefix to compare, so its risk is known only when there are
  changed paths; `ValidPlanIsBounded` says so.
- A plan may name `src/app` within a task's `src/*`.  If that is a directory, the plan also
  allows what is below it, which the task does not (`plan-contract.mjs:81`).  Within a task's
  `src/**` a plan may allow `src*`, which also matches `src.json` beside the directory: the text
  before the star is compared.  The scope check asks task and plan and refuses both
  later.  A task without an allowed scope asks nothing of its plans (`plan-contract.mjs:179`).

- The plan agent's stop hook, `plan:gate` and `plan:materialize` write a plan block with all of
  its keys (`plan-stop.mjs:98`, `check-plan.mjs:133`, `plan-contract.mjs:230`).  A key
  `approval` among them is kept: `validatePlanContract` does not look at it and the
  digest leaves it out (`plan-contract.mjs:30`), so that `authorize-tool.mjs:541` takes it for
  one that `resolve-task.mjs` found.  `WritesAreVouchedFor` says what is left: the
  approval is of that very plan and contract.

Agent:
- `agent-stop.mjs:15` says that an environmental failure does not block.  It does:
  only the wording of the gap differs (186).
- The checks run on the working copy and are recorded for HEAD, which may differ.
- HEAD, contract or plan replaced *and put back* while the gate runs can leave a
  report that says ready for what was checked in between.  So can one replacement, if
  plan and contract did not belong together when the gate began: `check-scope.mjs`
  does not compare the plan's `contractDigest` with the contract, so it passes a plan of
  another version of the issue, and if that version's contract is cached before the report
  is built, the report finds everything in order although the scope of that contract
  was never checked.  Hence the conditions of `ReadyIsSupported` (TLC finds this without
  `together`).  The hosted runs check again.
- `RECOVERY-POLICY.md:30` stops on any policy failure.  `decide` looks at the latest:
  if a person lets the log be and the next failure is an ordinary one, it answers repair.

Acceptance:
- A maintenance run is not cancelled by a later event and reads only the head again:
  when a review is withdrawn after `check-human-review` and the Publish Evidence run of
  that event posts its failure first, the maintenance run's success comes last and
  stays.  `WithdrawnReviewFalls` therefore speaks of heads that leave the control
  plane alone (without that condition TLC finds this).
- Governed Change may be dispatched on the branch (`governed-change.yml:8`), in another concurrency
  group than the runs of the pull request.  The Publish Evidence run that its completion starts
  cancels the one in progress (`publish-evidence.yml:14`) and is then skipped itself (20-22).  If it
  comes after Governed Change has dealt with the last event, a head in order is left without
  a status, and one whose review was dismissed keeps its success, until the next event.
  Both liveness properties therefore exclude `Displaced` (without it TLC finds this for each).
- A description edited after the acceptance of its head leaves the success status:
  the run that the edit starts stops where it reasserts the identity, before there is a
  report.  So `WithdrawnReviewFalls` is about reviews and not about everything that can go
  wrong afterwards, and `ReadyWasEarned` says of each fact that it was true at some moment
  of the run, not that all were true at one.
- `reviewDecision` and the list of reviews are read at different moments; a head that is
  left and come back to between two looks is not noticed.
- Evidence of production approval, which critical risk requires, is produced
  nowhere, so that no critical change becomes ready for acceptance.

## Not modelled

The harness's `reset` (TRUNCATE between tests) and `close`, a graceful shutdown
with calls under way, logging and OpenTelemetry.  Closing the plan pull request
while it is fetched (`fetchApprovedPlan` then finds none, as for any failure).
Parsing of Markdown, transcripts and tool payloads, and command patterns:
text matching without state.  The jobs of Governed Change one by one (a head passes
them or not), `plan-gate.yml`, whose answer nothing reads, and the governance audit's
checks of the repository's settings, which `RepositoryControls` takes to be met.
Re-running an older Governed Change run from GitHub's pages, or one of another pull
request whose head branch has the same name (they share the concurrency group of
Publish Evidence): either may displace the last event's run, as a dispatched one
may, so `GoodHeadIsAccepted` and `WithdrawnReviewFalls` say nothing of it.
Globs are whole segments with one star (`*.ts`, `src*`); `**` stands at the ends of a pattern.
The components marked `not_modelled` in
`PROJECT.json`, each with its reason.

## Plan

1. `TrustedAcceptance` as a refinement: a maintenance run's verdict on a head as one step.
2. The jobs of Governed Change one by one, with reruns of single jobs, against the
   records that `import-workflow-results.mjs` makes of them.
3. The remaining decisions of `authorize-tool.mjs` (tools that are no edits).
