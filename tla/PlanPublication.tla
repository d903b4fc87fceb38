-------------------------- MODULE PlanPublication --------------------------
(***************************************************************************)
(* publish-plan.mjs: several people publish plans for one task.  A run      *)
(* looks for the open pull request of plan/<task> and edits its description,*)
(* or pushes a branch of one empty commit and opens the pull request, one   *)
(* call to git or gh per step.  Any call may fail, and people close pull    *)
(* requests and delete branches.  What becomes of an open pull request is   *)
(* PlanApproval's matter.                                                  *)
(***************************************************************************)
EXTENDS Integers

CONSTANTS Publishers,  \* people who run publish-plan.mjs
          Plans,
          None,
          MaxCommit    \* bound: commits made by publishers

ASSUME PublicationAssumption ==
  /\ None \notin Plans
  /\ MaxCommit \in Nat

VARIABLES branch,   \* head of plan/<task> on origin, 0 if there is no branch
          commits,  \* commits made so far
          pr,       \* plan in the description of the open pull request, or None
          pub       \* each publisher's run

vars == <<branch, commits, pr, pub>>

\* number tells a pull request that was found from a later one.
NoPr == [plan |-> None, number |-> 0]
NoPub == [at |-> "idle", plan |-> None, found |-> 0, commit |-> 0, outcome |-> "none"]

PubType == [at : {"idle", "find", "edit", "push", "create"}, plan : Plans \cup {None},
            found : 0 .. MaxCommit, commit : 0 .. MaxCommit,
            outcome : {"none", "published", "pushRejected", "callFailed"}]

Ends(p, outcome) == pub' = [pub EXCEPT ![p] = [NoPub EXCEPT !.outcome = outcome]]

-----------------------------------------------------------------------------
Init ==
  /\ branch = 0
  /\ commits = 0
  /\ pr = NoPr
  /\ pub = [p \in Publishers |-> NoPub]

Publish(p, plan) ==
  /\ pub[p].at = "idle"
  /\ pub' = [pub EXCEPT ![p] = [NoPub EXCEPT !.at = "find", !.plan = plan]]
  /\ UNCHANGED <<branch, commits, pr>>

\* A bug: the list of pull requests is not checked for being empty.
FindFirst(p) ==
  /\ pub[p].at = "find"
  /\ pub' = [pub EXCEPT ![p].at = "edit", ![p].found = pr.number]
  /\ UNCHANGED <<branch, commits, pr>>

\* findPlanPr: the open pull request whose head is the task's plan branch.
Find(p) ==
  /\ pub[p].at = "find"
  /\ pub' = [pub EXCEPT ![p].at = IF pr = NoPr THEN "push" ELSE "edit",
                        ![p].found = pr.number]
  /\ UNCHANGED <<branch, commits, pr>>

\* The description is edited by number, also if it has been closed meanwhile.
Edit(p) ==
  /\ pub[p].at = "edit"
  /\ pr' = IF pr.number = pub[p].found THEN [pr EXCEPT !.plan = pub[p].plan] ELSE pr
  /\ Ends(p, "published")
  /\ UNCHANGED <<branch, commits>>

\* A bug: the push is forced.
ForcedPush(p) ==
  /\ pub[p].at = "push"
  /\ commits < MaxCommit
  /\ commits' = commits + 1
  /\ branch' = commits + 1
  /\ pub' = [pub EXCEPT ![p].at = "create", ![p].commit = commits + 1]
  /\ UNCHANGED pr

\* commit-tree makes a new child of the base, which no existing branch is an
\* ancestor of: only a push that creates the branch is a fast-forward.
Push(p) ==
  /\ pub[p].at = "push"
  /\ IF branch = 0
     THEN /\ commits < MaxCommit
          /\ commits' = commits + 1
          /\ branch' = commits + 1
          /\ pub' = [pub EXCEPT ![p].at = "create", ![p].commit = commits + 1]
     ELSE /\ Ends(p, "pushRejected")
          /\ UNCHANGED <<commits, branch>>
  /\ UNCHANGED pr

\* GitHub opens at most one pull request for a branch, and none without one.
Create(p) ==
  /\ pub[p].at = "create"
  /\ IF branch # 0 /\ pr = NoPr
     THEN /\ pr' = [plan |-> pub[p].plan, number |-> pub[p].commit]
          /\ Ends(p, "published")
     ELSE /\ Ends(p, "callFailed")
          /\ UNCHANGED pr
  /\ UNCHANGED <<branch, commits>>

\* A call to git or gh fails, or the run is interrupted.
CallFails(p) ==
  /\ pub[p].at # "idle"
  /\ Ends(p, "callFailed")
  /\ UNCHANGED <<branch, commits, pr>>

\* Closing a pull request leaves its branch; deleting the branch closes it.
ClosePr ==
  /\ pr # NoPr
  /\ pr' = NoPr
  /\ UNCHANGED <<branch, commits, pub>>

DeleteBranch ==
  /\ branch # 0
  /\ branch' = 0
  /\ pr' = NoPr
  /\ UNCHANGED <<commits, pub>>

Run(p) == Find(p) \/ Edit(p) \/ Push(p) \/ Create(p)

Next == \/ \E p \in Publishers : \/ \E plan \in Plans : Publish(p, plan)
                                 \/ Run(p) \/ CallFails(p)
        \/ ClosePr \/ DeleteBranch

Spec == Init /\ [][Next]_vars

-----------------------------------------------------------------------------
(* Properties *)

TypeOK ==
  /\ branch \in 0 .. MaxCommit
  /\ commits \in 0 .. MaxCommit
  /\ pr \in [plan : Plans \cup {None}, number : 0 .. MaxCommit]
  /\ pub \in [Publishers -> PubType]
  /\ \A p \in Publishers : pub[p].at = "edit" => pub[p].found # 0

\* However many people publish at once, nobody's run moves the head of a pull
\* request that is open: an approval of its commit is not undone by somebody
\* who looked before it was opened.
OpenPrKeepsHead ==
  [][pr # NoPr /\ pr'.number = pr.number => branch' = branch]_vars

\* Why OpenPrKeepsHead holds, together with TypeOK: a pull request that is open
\* has a branch, so that the push of a run that found none is rejected; and it
\* has a number, so that a run never takes it for one that was closed.
OpenInv ==
  /\ pr # NoPr => branch # 0 /\ pr.number # 0
  /\ \A p \in Publishers : pub[p].at = "create" => pub[p].commit # 0
=============================================================================
