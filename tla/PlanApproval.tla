---------------------------- MODULE PlanApproval ----------------------------
(***************************************************************************)
(* The approval of one plan-first pull request: a human reviews it,         *)
(* plan-approval.mjs records the approval as a comment, and                 *)
(* fetchApprovedPlan reads the plan back only if an approval still holds.   *)
(*                                                                         *)
(* Each script makes several GitHub calls, one step each; the description,  *)
(* the reviews, the branch, its base and the task issue change in between.  *)
(* Digests are taken to be injective, so a plan and an issue's version stand*)
(* for theirs.  Of a review only its last state counts and of its states    *)
(* only whether it is APPROVED, so a comment, a request for changes and a   *)
(* dismissed review are one.  Every approval comment is one that            *)
(* plan-approval.mjs posted.  PlanPublication models how the pull request   *)
(* comes to be.                                                            *)
(***************************************************************************)
EXTENDS Integers, Sequences, FiniteSets

CONSTANTS Users,       \* GitHub accounts
          Humans,      \* the accounts of type User
          Author,      \* who opened the pull request
          Plans,       \* northstar/plan/1 contracts
          None,        \* nothing
          Commits,     \* commits that the plan branch may be at
          First,       \* the empty commit that publish makes
          CodeCommits, \* the commits that change files
          PageSize,    \* reviews GitHub returns to an unpaginated request
          MaxReviews,  \* bounds: reviews, approval comments,
          MaxRecords,
          MaxBase,     \*         versions of the base branch
          MaxIssue     \*         and of the issue: the contract digest

ASSUME PlanAssumption ==
  /\ Humans \subseteq Users
  /\ Author \in Users
  /\ Plans \subseteq [text : Nat, base : 0 .. MaxBase, contract : 0 .. MaxIssue]
  /\ None \notin Users /\ None \notin Plans /\ None \notin Commits
  /\ First \in Commits \ CodeCommits
  /\ PageSize \in Nat \ {0}
  /\ MaxReviews \in Nat /\ MaxRecords \in Nat
  /\ MaxBase \in Nat /\ MaxIssue \in Nat

VARIABLES base,     \* version of the base branch: baseRefOid
          branch,   \* head of plan/<task>: headRefOid
          plan,     \* the plan in the description, or None
          reviews,  \* in the order they were submitted
          records,  \* the approval comments
          rec,      \* a run of plan-approval.mjs
          fetch     \* a run of fetchApprovedPlan

repoVars == <<base, branch>>
prVars   == <<plan, reviews, records>>
vars     == <<repoVars, prVars, rec, fetch>>

-----------------------------------------------------------------------------
(* Types *)

\* The commit that a review approves, or None.
ReviewType == [user : Users, approves : Commits \cup {None}]

RecordType == [contract : 0 .. MaxIssue, plan : Plans, base : 0 .. MaxBase,
               reviewer : Users, review : 1 .. MaxReviews, commit : Commits]

\* What `gh pr view` and `gh pr list` return of the pull request.
Pull == [plan |-> plan, head |-> branch, base |-> base]
NoPull == [plan |-> None, head |-> First, base |-> 0]
PullType == [plan : Plans \cup {None}, head : Commits, base : 0 .. MaxBase]

NoRec == [at |-> "idle", contract |-> 0, review |-> 0, pull |-> NoPull]
RecType == [at : {"idle", "check", "post"}, contract : 0 .. MaxIssue,
            review : 0 .. MaxReviews, pull : PullType]

\* held is what this module remembers of the moment the pull request was read.
NoFetch == [at |-> "idle", contract |-> 0, pull |-> NoPull, records |-> {},
            reviews |-> <<>>, held |-> {}, result |-> None]
FetchType == [at : {"idle", "find", "reviews", "evaluate", "done"},
              contract : 0 .. MaxIssue, pull : PullType,
              records : SUBSET RecordType, reviews : Seq(ReviewType),
              held : SUBSET RecordType, result : RecordType \cup {None}]

-----------------------------------------------------------------------------
(* Helper operators *)

\* A bug: only approvals count, a later comment or dismissal does not.
LatestApprovals(revs) ==
  {i \in DOMAIN revs : /\ revs[i].approves # None
                       /\ \A j \in DOMAIN revs : revs[j].user = revs[i].user
                            /\ revs[j].approves # None => j <= i}

\* A bug: only the last review of all counts.
LastReview(revs) == {i \in DOMAIN revs : i = Len(revs)}

\* latestReviewsByUser: a user's last review is the one that counts, whatever
\* its state.
LatestReviews(revs) ==
  {i \in DOMAIN revs : \A j \in DOMAIN revs : revs[j].user = revs[i].user => j <= i}

\* isHumanApproval of a review against a head.
HumanApproval(review, head) ==
  /\ review.approves = head
  /\ review.user \in Humans \ {Author}

\* A bug: the record may name any commit that changed no file.
ApprovesAnyHead(r, contract, pull, revs) ==
  /\ r.contract = contract
  /\ r.plan = pull.plan
  /\ pull.plan.base = pull.base /\ r.base = pull.base
  /\ r.commit \notin CodeCommits
  /\ r.review \in LatestReviews(revs)
  /\ revs[r.review].user = r.reviewer
  /\ HumanApproval(revs[r.review], r.commit)

\* evaluatePlanApproval: one record of the given pull request and reviews.
Approves(r, contract, pull, revs) ==
  /\ r.contract = contract
  /\ r.plan = pull.plan
  /\ pull.plan.base = pull.base /\ r.base = pull.base
  /\ r.commit = pull.head /\ r.commit \notin CodeCommits
  /\ r.review \in LatestReviews(revs)
  /\ revs[r.review].user = r.reviewer
  /\ HumanApproval(revs[r.review], r.commit)

-----------------------------------------------------------------------------
\* The pull request as publish has opened it: one empty commit.
Init ==
  /\ base = 0
  /\ branch = First
  /\ plan \in Plans
  /\ reviews = <<>>
  /\ records = {}
  /\ rec = NoRec
  /\ fetch = NoFetch

-----------------------------------------------------------------------------
(* plan-approval.mjs --pr --review: the reviewer records an approval *)

\* The contract is the cached one, of this or an earlier version of the issue.
RecordStart(review, contract) ==
  /\ rec.at = "idle"
  /\ Cardinality(records) < MaxRecords
  /\ rec' = [at |-> "check", contract |-> contract, review |-> review, pull |-> Pull]
  /\ UNCHANGED <<repoVars, prVars, fetch>>

\* A bug: the plan is not validated.
RecordAnyPlan ==
  /\ rec.at = "check"
  /\ IF /\ rec.pull.head \notin CodeCommits
        /\ HumanApproval(reviews[rec.review], rec.pull.head)
     THEN rec' = [rec EXCEPT !.at = "post"]
     ELSE rec' = NoRec
  /\ UNCHANGED <<repoVars, prVars, fetch>>

\* The review is read after the pull request; then the plan, the files and the
\* review are checked.  The caller is the reviewer, or the run ends here.
RecordCheck ==
  /\ rec.at = "check"
  /\ IF /\ rec.pull.plan # None
        /\ rec.pull.plan.contract = rec.contract
        /\ rec.pull.head \notin CodeCommits
        /\ HumanApproval(reviews[rec.review], rec.pull.head)
     THEN rec' = [rec EXCEPT !.at = "post"]
     ELSE rec' = NoRec
  /\ UNCHANGED <<repoVars, prVars, fetch>>

\* The approval of the pull request as it was read.
NewRecord ==
  [contract |-> rec.contract, plan |-> rec.pull.plan, base |-> rec.pull.base,
   reviewer |-> reviews[rec.review].user, review |-> rec.review,
   commit |-> rec.pull.head]

\* A bug: the head is read again for the record.
RecordPostAnew ==
  /\ rec.at = "post"
  /\ records' = records \cup {[NewRecord EXCEPT !.commit = branch]}
  /\ rec' = NoRec
  /\ UNCHANGED <<repoVars, plan, reviews, fetch>>

RecordPost ==
  /\ rec.at = "post"
  /\ records' = records \cup {NewRecord}
  /\ rec' = NoRec
  /\ UNCHANGED <<repoVars, plan, reviews, fetch>>

\* A call to GitHub fails, or the caller is somebody else.
RecordFails ==
  /\ rec.at # "idle"
  /\ rec' = NoRec
  /\ UNCHANGED <<repoVars, prVars, fetch>>

-----------------------------------------------------------------------------
(* resolveTask: the contract from the issue, then fetchApprovedPlan *)

\* People edit the issue at any time, so it may be at any version.
FetchStart ==
  /\ fetch.at \in {"idle", "done"}
  /\ \E issue \in 0 .. MaxIssue :
       fetch' = [NoFetch EXCEPT !.at = "find", !.contract = issue]
  /\ UNCHANGED <<repoVars, prVars, rec>>

\* A record holds when a human other than the author had the last word on the
\* very commit, plan, base and contract it names, and the commit is plan-only.
HoldsNow(r, contract) ==
  /\ r.contract = contract /\ contract = r.plan.contract
  /\ r.plan = plan /\ r.base = base /\ r.plan.base = base
  /\ r.commit = branch /\ branch \notin CodeCommits
  /\ LET own == {i \in DOMAIN reviews : reviews[i].user = r.reviewer}
     IN  /\ r.review \in own
         /\ \A i \in own : i <= r.review
         /\ reviews[r.review].approves = branch
         /\ r.reviewer \in Humans /\ r.reviewer # Author

\* One call: the description, the head, the base and the comments.
FetchFind ==
  /\ fetch.at = "find"
  /\ fetch' = IF plan = None
              THEN NoFetch
              ELSE [fetch EXCEPT !.at = "reviews", !.pull = Pull, !.records = records,
                                 !.held = {r \in records : HoldsNow(r, fetch.contract)}]
  /\ UNCHANGED <<repoVars, prVars, rec>>

\* The first page of the reviews.
FetchReviews ==
  /\ fetch.at = "reviews"
  /\ fetch' = [fetch EXCEPT !.at = "evaluate",
       !.reviews = SubSeq(reviews, 1, IF Len(reviews) < PageSize THEN Len(reviews) ELSE PageSize)]
  /\ UNCHANGED <<repoVars, prVars, rec>>

\* Without a plan there is nothing left to tell.
FetchDone(result) ==
  fetch' = IF result = None THEN NoFetch
           ELSE [NoFetch EXCEPT !.at = "done", !.held = fetch.held, !.result = result]

\* Each record's commit is compared with the base (a comparison that fails
\* drops the record), then the records are evaluated.
FetchEvaluate(compared) ==
  /\ fetch.at = "evaluate"
  /\ LET good == {r \in compared : Approves(r, fetch.contract, fetch.pull, fetch.reviews)}
     IN  FetchDone(IF good = {} THEN None ELSE CHOOSE r \in good : TRUE)
  /\ UNCHANGED <<repoVars, prVars, rec>>

\* A call fails: resolveTask goes on without a plan.
FetchFails ==
  /\ fetch.at \in {"find", "reviews"}
  /\ FetchDone(None)
  /\ UNCHANGED <<repoVars, prVars, rec>>

-----------------------------------------------------------------------------
(* What people do on GitHub meanwhile *)

AdvanceBase ==
  /\ base < MaxBase
  /\ base' = base + 1
  /\ UNCHANGED <<branch, prVars, rec, fetch>>

\* By hand, or by publishing another plan.
EditDescription(new) ==
  /\ plan' = new
  /\ UNCHANGED <<repoVars, reviews, records, rec, fetch>>

\* A commit is pushed, or the branch is forced back to an earlier one.
MoveBranch(commit) ==
  /\ branch' = commit
  /\ UNCHANGED <<base, prVars, rec, fetch>>

\* GitHub lets nobody approve a pull request of their own.
Review(user, approved) ==
  /\ Len(reviews) < MaxReviews
  /\ approved => user # Author
  /\ reviews' = Append(reviews,
       [user |-> user, approves |-> IF approved THEN branch ELSE None])
  /\ UNCHANGED <<repoVars, plan, records, rec, fetch>>

Dismiss(i) ==
  /\ reviews[i].approves # None
  /\ reviews' = [reviews EXCEPT ![i].approves = None]
  /\ UNCHANGED <<repoVars, plan, records, rec, fetch>>

-----------------------------------------------------------------------------
RecordNext == \/ \E i \in DOMAIN reviews, contract \in 0 .. MaxIssue :
                   RecordStart(i, contract)
              \/ RecordCheck \/ RecordPost \/ RecordFails

FetchNext == \/ FetchStart \/ FetchFind \/ FetchReviews
             \/ \E compared \in SUBSET fetch.records : FetchEvaluate(compared)
             \/ FetchFails

PeopleNext == \/ AdvanceBase
              \/ \E new \in Plans \cup {None} : EditDescription(new)
              \/ \E commit \in Commits : MoveBranch(commit)
              \/ \E user \in Users, approved \in BOOLEAN : Review(user, approved)
              \/ \E i \in DOMAIN reviews : Dismiss(i)

Next == RecordNext \/ FetchNext \/ PeopleNext

Spec == Init /\ [][Next]_vars

-----------------------------------------------------------------------------
(* Properties *)

TypeOK ==
  /\ base \in 0 .. MaxBase
  /\ branch \in Commits
  /\ plan \in Plans \cup {None}
  /\ reviews \in Seq(ReviewType) /\ Len(reviews) <= MaxReviews
  /\ records \subseteq RecordType
  /\ rec \in RecType
  /\ fetch \in FetchType

\* fetchApprovedPlan reads the description, the comments and the head in one
\* call, the reviews in a second and the comparisons after that.  Whatever
\* people do in between, a plan it returns was approved in full at the moment
\* of the first call: its record held then, all conditions together, and the
\* plan served the contract although the evaluation never looks at the plan's
\* own contractDigest.
FetchIsAtomic ==
  fetch.result # None => fetch.result \in fetch.held

\* The review behind record r is its reviewer's last word and an approval.
Stands(r) ==
  /\ reviews[r.review].approves # None
  /\ \A i \in r.review + 1 .. Len(reviews) : reviews[i].user # r.reviewer

\* An approval is not missed either: a record that held when the pull request
\* was read and still stands is accepted, or another in its place.
StandingApprovalIsFound ==
  fetch.at = "evaluate" =>
    \A r \in fetch.held : Stands(r) =>
      \E q \in fetch.records : Approves(q, fetch.contract, fetch.pull, fetch.reviews)

\* The reviews that count as approvals.
Effective(revs) == {i \in LatestReviews(revs) : revs[i].approves # None}

\* An approval that has lapsed, by a dismissal or by any later review of the
\* same person, never counts again: a new one must be recorded.
LapsedApprovalsStayLapsed ==
  [][\A r \in records : r.review \notin Effective(reviews)
                            => r.review \notin Effective(reviews')]_vars

-----------------------------------------------------------------------------
(* Why the properties hold *)

\* The reviews at an earlier and at a later time: people add reviews and
\* dismiss them, and never take one away or approve by an old one.
Grown(old, new) ==
  /\ Len(old) <= Len(new)
  /\ \A i \in DOMAIN old : /\ new[i].user = old[i].user
                           /\ new[i].approves \in {old[i].approves, None}

\* What plan-approval.mjs has checked of a record and nobody can undo.
WellFounded(r) ==
  /\ r.plan.contract = r.contract /\ r.commit \notin CodeCommits
  /\ r.review \in DOMAIN reviews
  /\ reviews[r.review].user = r.reviewer /\ r.reviewer \in Humans \ {Author}
  /\ reviews[r.review].approves \in {r.commit, None}

\* Record r names all that fetchApprovedPlan has read.
Names(r) ==
  /\ r.contract = fetch.contract /\ r.plan = fetch.pull.plan
  /\ r.base = fetch.pull.base /\ r.plan.base = fetch.pull.base
  /\ r.commit = fetch.pull.head

\* The reviews that fetchApprovedPlan has read, or is about to.
Seen == IF fetch.at = "evaluate" THEN fetch.reviews ELSE reviews

\* A record that the evaluation will accept on these reviews held when the
\* pull request was read, provided that no review is beyond the first page.
Lasting ==
  Len(reviews) <= PageSize =>
    \A r \in fetch.records :
      /\ r.review \in DOMAIN Seen
      /\ Approves(r, fetch.contract, fetch.pull, Seen) => r \in fetch.held

\* Together with TypeOK: what fetchApprovedPlan read in its first call, and
\* whatever people do to the reviews before the second or after it, adds up.
ApprovalInv ==
  /\ rec.at # "idle" => rec.review \in DOMAIN reviews
  /\ rec.at = "post" => NewRecord \in RecordType /\ WellFounded(NewRecord)
  /\ \A r \in records : WellFounded(r)
  /\ fetch.at \in {"reviews", "evaluate"} =>
       /\ fetch.held \subseteq fetch.records /\ fetch.records \subseteq records
       /\ \A r \in fetch.held : Names(r)
       /\ Grown(Seen, reviews)
       /\ Lasting
  /\ fetch.result # None =>
       fetch.at = "done" /\ (Len(reviews) <= PageSize => fetch.result \in fetch.held)
=============================================================================
