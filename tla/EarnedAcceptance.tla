------------------------- MODULE EarnedAcceptance -------------------------
(***************************************************************************)
(* TrustedAcceptance with steps that fail for outside reasons, and with what  *)
(* was true while each run was under way, which its decision can be held     *)
(* against: the run itself sees one fact at a time.                          *)
(***************************************************************************)
EXTENDS TrustedAcceptance

VARIABLE seen  \* for each run the facts that were true at some moment of it

earnedVars == <<vars, seen>>

\* A step goes wrong for reasons outside: GitHub does not answer, a runner dies.
\* A comment may have been posted all the same; so may a status, which nothing in
\* this module reads, and which is left alone.
Fault(r) ==
  /\ job[r].at # 0 /\ Intervenes
  /\ IF Tolerated(r) THEN FailCheck(r, job[r]) ELSE Stop(r)
  /\ comments' \in {comments, comments + IF At(r, "comment") /\ ~job[r].sofar
                                         THEN 1 ELSE 0}
  /\ UNCHANGED <<github, status, governed, waiting>>

\* What is true now and bears on commit c.
Facts(c) ==
  {<<"described", p>> : p \in {q \in Plans : body = q}}
  \cup {<<"approved", p>> : p \in {q \in Plans : approved = q /\ PlanOf[q].contract = issue}}
  \cup {<<"reviewed", p>> : p \in {q \in Plans :
          Cardinality({u \in Reviewers : reviews[u] = c}) >= PlanOf[q].minimum}}
  \cup (IF \E u \in CodeOwners : reviews[u] # None THEN {<<"owned", c>>} ELSE {})
  \cup (IF head # c THEN {<<"away", c>>} ELSE {})

EarnedInit == Init /\ seen = [r \in Runs |-> {}]
Witness ==
  seen' = [r \in Runs |-> IF job'[r].at <= 1 THEN {}
                          ELSE seen[r] \cup Facts(job[r].sha)]
EarnedNext ==
  \/ Next /\ Witness
  \/ \E r \in Runs : Fault(r) /\ Witness
EarnedSpec == EarnedInit /\ [][EarnedNext]_earnedVars

\* No run decides ready_for_acceptance on facts that were never true in its own
\* time: the commit was tested, and during this very run the description carried
\* the plan, that plan was the approved one of the issue as it was then, and its
\* reviews of this commit were there.  Where the head never left the commit, its
\* files are within the plan, and only a maintenance run accepts a change of the
\* control plane (publish-evidence.yml and system-maintenance-approval.yml), once
\* the Publish Evidence run that dispatched it has ended well, and not because
\* polling for that has (verify-maintenance-runs.mjs:87).
ReadyWasEarned ==
  \A r \in Runs : job[r].decision = "ready_for_acceptance" =>
    LET j == job[r]
        p == j.final
        Asked(id) == id \in PlanOf[p].checks
    IN  /\ p # None /\ j.sha \in Green
        /\ Asked("plan-contract") => <<"described", p>> \in seen[r]
        /\ <<"approved", p>> \in seen[r]
        /\ Asked("human-review") => /\ <<"reviewed", p>> \in seen[r]
                                    /\ PlanOf[p].owner => <<"owned", j.sha>> \in seen[r]
        /\ <<"away", j.sha>> \notin seen[r] =>
             /\ Asked("scope-policy") => <<j.sha, p>> \in Within
             /\ (r = Publish) <=> (j.sha \notin Authority)
        /\ r # Publish => j.evidence = "success"

-----------------------------------------------------------------------------
(* The inductive invariant behind ReadyWasEarned: what a run has recorded as   *)
(* passed, and what it holds in its files, it has seen.                        *)

\* The last step of each check, and the report, in a run of r.
Last(r) ==
  IF r = Publish
  THEN [plan |-> 4, approval |-> 5, scope |-> 8, review |-> 11, authority |-> 14,
        report |-> 20]
  ELSE [authority |-> 6, plan |-> 9, approval |-> 10, scope |-> 13, review |-> 16,
        report |-> 18]

Away(j, facts) == <<"away", j.sha>> \in facts

ReviewedBy(j, facts) == /\ <<"reviewed", j.final>> \in facts
                        /\ PlanOf[j.final].owner => <<"owned", j.sha>> \in facts

TestsEarned(j) == (Suite \ Evaluated) \subseteq j.good => j.sha \in Green

PlanEarned(r, j, facts) ==
  /\ j.at > Last(r).plan /\ "plan-contract" \in j.good /\ j.candidate # None
       => <<"described", j.candidate>> \in facts
  /\ r = Publish /\ j.at <= Last(r).approval => j.final = None
  /\ j.at > Last(r).approval /\ j.final # None
       => /\ <<"approved", j.final>> \in facts /\ j.candidate = j.final
          /\ j.at <= Last(r).review => j.plan = j.final

ScopeEarned(r, j, facts) ==
  /\ j.at = Last(r).scope => j.files = j.sha \/ Away(j, facts)
  /\ j.at > Last(r).scope /\ j.final # None /\ "scope-policy" \in j.good
       => <<j.sha, j.final>> \in Within \/ Away(j, facts)

ReviewEarned(r, j, facts) ==
  /\ j.at = Last(r).review - 1 /\ j.final # None /\ j.sofar
       => (PlanOf[j.final].owner => <<"owned", j.sha>> \in facts)
  /\ j.at = Last(r).review /\ j.final # None /\ j.sofar => ReviewedBy(j, facts)
  /\ j.at > Last(r).review /\ j.final # None /\ "human-review" \in j.good
       => ReviewedBy(j, facts)

AuthorityEarned(r, j, facts) ==
  /\ j.at = Last(r).authority => j.files = j.sha \/ Away(j, facts)
  /\ j.at > Last(r).authority /\ "validation-authority" \in j.good
       => Away(j, facts) \/ (r = Publish <=> j.sha \notin Authority)

DecisionEarned(r, j) ==
  j.decision = "ready_for_acceptance" =>
    /\ j.at > Last(r).report /\ j.final # None /\ Suite \subseteq j.good
    /\ (PlanOf[j.final].checks \ {"evidence"}) \cup {"validation-authority"} \subseteq j.good

Earned(r, j, facts) ==
  /\ TestsEarned(j) /\ PlanEarned(r, j, facts) /\ ScopeEarned(r, j, facts)
  /\ ReviewEarned(r, j, facts) /\ AuthorityEarned(r, j, facts) /\ DecisionEarned(r, j)

\* What a run claims it has seen; a run that waits claims only its tests.
ClaimsInv ==
  /\ \A r \in Runs : Earned(r, job[r], seen[r])
  /\ \A c \in Commits : queued[c] # None => TestsEarned(queued[c]) /\ queued[c].decision = None
  /\ waiting # None /\ waiting.ok => waiting.sha \in Green

\* A maintenance run past its second step has verified the run that dispatched it.
VerifiedInv == \A c \in Commits : job[c].at > 2 => job[c].evidence = "success"

EarnedInv == ClaimsInv /\ VerifiedInv
=============================================================================
