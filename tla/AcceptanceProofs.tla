-------------------------- MODULE AcceptanceProofs --------------------------
(***************************************************************************)
(* TrustedAcceptance and EarnedAcceptance for any number of commits, plans,  *)
(* reviewers and events: types, the single comment, and that a decision to   *)
(* accept was earned, for which EarnedInv is inductive.  A step concerns one  *)
(* run; the others have seen more by it.                                     *)
(***************************************************************************)
EXTENDS EarnedAcceptance, TLAPS

-----------------------------------------------------------------------------
(* The scripts of the two workflows, step by step *)

LEMMA PublishSteps ==
  ASSUME NEW n \in 1 .. 25
  PROVE  Steps(Publish)[n] =
           CASE n \in {1, 16} -> "identify" [] n \in {2, 17} -> "task"
             [] n \in {3, 18} -> "plan" [] n \in {4, 19} -> "planAgain"
             [] n = 5 -> "approval" [] n = 6 -> "scope" [] n = 7 -> "scopeFiles"
             [] n = 8 -> "scopeAgain" [] n = 9 -> "review" [] n = 10 -> "reviewList"
             [] n = 11 -> "reviewAgain" [] n = 12 -> "authority"
             [] n = 13 -> "authorityFiles" [] n = 14 -> "authorityAgain"
             [] n = 15 -> "controls" [] n = 20 -> "report" [] n = 21 -> "find"
             [] n = 22 -> "comment" [] n = 23 -> "status" [] n = 24 -> "dispatch"
             [] n = 25 -> "end"
<1>1. Steps(Publish) =
        <<"identify", "task", "plan", "planAgain", "approval", "scope",
          "scopeFiles", "scopeAgain", "review", "reviewList", "reviewAgain",
          "authority", "authorityFiles", "authorityAgain", "controls", "identify",
          "task", "plan", "planAgain", "report", "find", "comment", "status",
          "dispatch", "end">>
  BY DEF Steps
<1>2. CASE n \in 1 .. 8
  BY <1>1, <1>2
<1>3. CASE n \in 9 .. 17
  BY <1>1, <1>3
<1>4. CASE n \in 18 .. 25
  BY <1>1, <1>4
<1>5. QED BY <1>2, <1>3, <1>4

LEMMA MaintenanceSteps ==
  ASSUME NEW c \in Commits, NEW n \in 1 .. 21
  PROVE  Steps(c)[n] =
           CASE n = 1 -> "environment" [] n = 2 -> "verify" [] n = 3 -> "identify"
             [] n = 4 -> "authority" [] n = 5 -> "authorityFiles"
             [] n = 6 -> "authorityAgain" [] n = 7 -> "task" [] n = 8 -> "plan"
             [] n = 9 -> "planAgain" [] n = 10 -> "approval" [] n = 11 -> "scope"
             [] n = 12 -> "scopeFiles" [] n = 13 -> "scopeAgain" [] n = 14 -> "review"
             [] n = 15 -> "reviewList" [] n = 16 -> "reviewAgain" [] n = 17 -> "controls"
             [] n = 18 -> "report" [] n = 19 -> "find" [] n = 20 -> "comment"
             [] n = 21 -> "status"
<1>1. Steps(c) =
        <<"environment", "verify", "identify", "authority", "authorityFiles",
          "authorityAgain", "task", "plan", "planAgain", "approval", "scope",
          "scopeFiles", "scopeAgain", "review", "reviewList", "reviewAgain",
          "controls", "report", "find", "comment", "status">>
  BY AcceptanceAssumption DEF Steps
<1>2. CASE n \in 1 .. 8
  BY <1>1, <1>2
<1>3. CASE n \in 9 .. 15
  BY <1>1, <1>3
<1>4. CASE n \in 16 .. 21
  BY <1>1, <1>4
<1>5. QED BY <1>2, <1>3, <1>4

\* A run is within its script.
Placed(r) == job[r].at \in 0 .. (IF r = Publish THEN 25 ELSE 21)

\* Where a run is when a script's turn has come.
LEMMA PublishAt ==
  ASSUME Placed(Publish)
  PROVE  /\ At(Publish, "identify") <=> job[Publish].at \in {1, 16}
         /\ At(Publish, "task") <=> job[Publish].at \in {2, 17}
         /\ At(Publish, "plan") <=> job[Publish].at \in {3, 18}
         /\ At(Publish, "planAgain") <=> job[Publish].at \in {4, 19}
         /\ At(Publish, "approval") <=> job[Publish].at = 5
         /\ At(Publish, "scope") <=> job[Publish].at = 6
         /\ At(Publish, "scopeFiles") <=> job[Publish].at = 7
         /\ At(Publish, "scopeAgain") <=> job[Publish].at = 8
         /\ At(Publish, "review") <=> job[Publish].at = 9
         /\ At(Publish, "reviewList") <=> job[Publish].at = 10
         /\ At(Publish, "reviewAgain") <=> job[Publish].at = 11
         /\ At(Publish, "authority") <=> job[Publish].at = 12
         /\ At(Publish, "authorityFiles") <=> job[Publish].at = 13
         /\ At(Publish, "authorityAgain") <=> job[Publish].at = 14
         /\ At(Publish, "controls") <=> job[Publish].at = 15
         /\ At(Publish, "report") <=> job[Publish].at = 20
         /\ At(Publish, "find") <=> job[Publish].at = 21
         /\ At(Publish, "comment") <=> job[Publish].at = 22
         /\ At(Publish, "status") <=> job[Publish].at = 23
         /\ At(Publish, "dispatch") <=> job[Publish].at = 24
         /\ At(Publish, "end") <=> job[Publish].at = 25
         /\ ~At(Publish, "environment") /\ ~At(Publish, "verify")
<1> DEFINE n == job[Publish].at
<1>1. CASE n = 0
  BY <1>1 DEF At
<1>2. CASE n # 0
  <2>1. n \in 1 .. 25
    BY <1>2 DEF Placed
  <2> HIDE DEF n
  <2>2. \A s : At(Publish, s) <=> Steps(Publish)[n] = s
    BY <1>2 DEF At, n
  <2>3. CASE n \in 1 .. 12
    BY <2>2, <2>3, PublishSteps DEF n
  <2>4. CASE n \in 13 .. 25
    BY <2>2, <2>4, PublishSteps DEF n
  <2>5. QED BY <2>1, <2>3, <2>4
<1>3. QED BY <1>1, <1>2

LEMMA MaintenanceAt ==
  ASSUME NEW c \in Commits, Placed(c)
  PROVE  /\ At(c, "environment") <=> job[c].at = 1
         /\ At(c, "verify") <=> job[c].at = 2
         /\ At(c, "identify") <=> job[c].at = 3
         /\ At(c, "authority") <=> job[c].at = 4
         /\ At(c, "authorityFiles") <=> job[c].at = 5
         /\ At(c, "authorityAgain") <=> job[c].at = 6
         /\ At(c, "task") <=> job[c].at = 7
         /\ At(c, "plan") <=> job[c].at = 8
         /\ At(c, "planAgain") <=> job[c].at = 9
         /\ At(c, "approval") <=> job[c].at = 10
         /\ At(c, "scope") <=> job[c].at = 11
         /\ At(c, "scopeFiles") <=> job[c].at = 12
         /\ At(c, "scopeAgain") <=> job[c].at = 13
         /\ At(c, "review") <=> job[c].at = 14
         /\ At(c, "reviewList") <=> job[c].at = 15
         /\ At(c, "reviewAgain") <=> job[c].at = 16
         /\ At(c, "controls") <=> job[c].at = 17
         /\ At(c, "report") <=> job[c].at = 18
         /\ At(c, "find") <=> job[c].at = 19
         /\ At(c, "comment") <=> job[c].at = 20
         /\ At(c, "status") <=> job[c].at = 21
         /\ ~At(c, "dispatch") /\ ~At(c, "end")
<1> DEFINE n == job[c].at
<1>1. CASE n = 0
  BY <1>1 DEF At
<1>2. CASE n # 0
  <2>1. n \in 1 .. 21
    BY <1>2, AcceptanceAssumption DEF Placed
  <2> HIDE DEF n
  <2>2. \A s : At(c, s) <=> Steps(c)[n] = s
    BY <1>2 DEF At, n
  <2>3. CASE n \in 1 .. 10
    BY <2>2, <2>3, MaintenanceSteps DEF n
  <2>4. CASE n \in 11 .. 21
    BY <2>2, <2>4, MaintenanceSteps DEF n
  <2>5. QED BY <2>1, <2>3, <2>4
<1>3. QED BY <1>1, <1>2

\* The check a step belongs to.
LEMMA PublishChecks ==
  ASSUME NEW n \in 1 .. 25
  PROVE  CheckAt(Publish, n) =
           CASE n \in {3, 4, 18, 19} -> "plan-contract" [] n = 5 -> "plan-approval"
             [] n \in 6 .. 8 -> "scope-policy" [] n \in 9 .. 11 -> "human-review"
             [] n \in 12 .. 14 -> "validation-authority"
             [] n = 15 -> "repository-controls" [] OTHER -> "none"
<1>1. CASE n \in 1 .. 8
  BY <1>1, PublishSteps DEF CheckAt, CheckOf
<1>2. CASE n \in 9 .. 15
  BY <1>2, PublishSteps DEF CheckAt, CheckOf
<1>3. CASE n \in 16 .. 25
  BY <1>3, PublishSteps DEF CheckAt, CheckOf
<1>4. QED BY <1>1, <1>2, <1>3

LEMMA MaintenanceChecks ==
  ASSUME NEW c \in Commits, NEW n \in 1 .. 21
  PROVE  CheckAt(c, n) =
           CASE n \in 4 .. 6 -> "validation-authority" [] n \in 8 .. 9 -> "plan-contract"
             [] n = 10 -> "plan-approval" [] n \in 11 .. 13 -> "scope-policy"
             [] n \in 14 .. 16 -> "human-review" [] n = 17 -> "repository-controls"
             [] OTHER -> "none"
<1>1. CASE n \in 1 .. 10
  BY <1>1, MaintenanceSteps DEF CheckAt, CheckOf
<1>2. CASE n \in 11 .. 21
  BY <1>2, MaintenanceSteps DEF CheckAt, CheckOf
<1>3. QED BY <1>1, <1>2

\* AfterCheck is the first step of another check.
LEMMA FirstOfAnother ==
  ASSUME NEW r \in Runs, job[r].at \in Nat, NEW k \in job[r].at + 1 .. job[r].at + 3,
         CheckAt(r, k) # CheckAt(r, job[r].at),
         \A m \in job[r].at .. k - 1 : CheckAt(r, m) = CheckAt(r, job[r].at)
  PROVE  AfterCheck(r) = k
<1> DEFINE at == job[r].at
           First(n) == /\ CheckAt(r, n) # CheckAt(r, at)
                       /\ \A m \in at .. n - 1 : CheckAt(r, m) = CheckAt(r, at)
<1>1. First(k)
  OBVIOUS
<1>2. ASSUME NEW n \in at + 1 .. at + 3, First(n)
      PROVE  n = k
  <2>1. CASE n < k
    <3>1. n \in at .. k - 1
      BY <2>1
    <3>2. QED BY <1>2, <3>1
  <2>2. CASE k < n
    <3>1. k \in at .. n - 1
      BY <2>2
    <3>2. QED BY <1>2, <3>1
  <2>3. n \in Int /\ k \in Int
    OBVIOUS
  <2>4. QED BY <2>1, <2>2, <2>3
<1>3. AfterCheck(r) = CHOOSE n \in at + 1 .. at + 3 : First(n)
  BY DEF AfterCheck
<1> HIDE DEF First
<1>4. AfterCheck(r) \in at + 1 .. at + 3 /\ First(AfterCheck(r))
  BY <1>1, <1>3
<1>5. QED BY <1>2, <1>4

LEMMA PublishAfterCheck ==
  ASSUME Placed(Publish), CheckAt(Publish, job[Publish].at) # "none",
         job[Publish].at # 0
  PROVE  AfterCheck(Publish) =
           CASE job[Publish].at \in {3, 4} -> 5 [] job[Publish].at = 5 -> 6
             [] job[Publish].at \in 6 .. 8 -> 9 [] job[Publish].at \in 9 .. 11 -> 12
             [] job[Publish].at \in 12 .. 14 -> 15 [] job[Publish].at = 15 -> 16
             [] job[Publish].at \in {18, 19} -> 20
<1> DEFINE at == job[Publish].at
           k == CASE at \in {3, 4} -> 5 [] at = 5 -> 6 [] at \in 6 .. 8 -> 9
                  [] at \in 9 .. 11 -> 12 [] at \in 12 .. 14 -> 15 [] at = 15 -> 16
                  [] at \in {18, 19} -> 20
<1>1. at \in 1 .. 25 /\ Publish \in Runs
  BY DEF Placed, Runs
<1>2. at \in {3, 4, 18, 19} \cup (5 .. 15)
  BY <1>1, PublishChecks
<1>3. k \in at + 1 .. at + 3 /\ k \in 1 .. 25
  BY <1>2
<1>4. CheckAt(Publish, k) # CheckAt(Publish, at)
  BY <1>1, <1>2, <1>3, PublishChecks
<1>5. \A m \in at .. k - 1 : CheckAt(Publish, m) = CheckAt(Publish, at)
  <2> TAKE m \in at .. k - 1
  <2>1. m \in 1 .. 25
    <3> HIDE DEF k
    <3>1. QED BY <1>1, <1>3
  <2>2. CASE at \in {3, 4, 18, 19}
    <3>1. m \in {3, 4, 18, 19}
      BY <2>2
    <3>2. QED BY <1>1, <2>1, <2>2, <3>1, PublishChecks
  <2>3. CASE at \in {5, 15}
    BY <2>3
  <2>4. CASE at \in 6 .. 8
    <3>1. m \in 6 .. 8
      BY <2>4
    <3>2. QED BY <1>1, <2>1, <2>4, <3>1, PublishChecks
  <2>5. CASE at \in 9 .. 11
    <3>1. m \in 9 .. 11
      BY <2>5
    <3>2. QED BY <1>1, <2>1, <2>5, <3>1, PublishChecks
  <2>6. CASE at \in 12 .. 14
    <3>1. m \in 12 .. 14
      BY <2>6
    <3>2. QED BY <1>1, <2>1, <2>6, <3>1, PublishChecks
  <2>7. QED BY <1>2, <2>2, <2>3, <2>4, <2>5, <2>6
<1> HIDE DEF k
<1>6. AfterCheck(Publish) = k
  BY <1>1, <1>3, <1>4, <1>5, FirstOfAnother
<1>7. QED BY <1>6 DEF k

LEMMA MaintenanceAfterCheck ==
  ASSUME NEW c \in Commits, Placed(c), CheckAt(c, job[c].at) # "none",
         job[c].at # 0
  PROVE  AfterCheck(c) =
           CASE job[c].at \in 4 .. 6 -> 7 [] job[c].at \in {8, 9} -> 10
             [] job[c].at = 10 -> 11 [] job[c].at \in 11 .. 13 -> 14
             [] job[c].at \in 14 .. 16 -> 17 [] job[c].at = 17 -> 18
<1> DEFINE at == job[c].at
           k == CASE at \in 4 .. 6 -> 7 [] at \in {8, 9} -> 10 [] at = 10 -> 11
                  [] at \in 11 .. 13 -> 14 [] at \in 14 .. 16 -> 17 [] at = 17 -> 18
<1>1. at \in 1 .. 21 /\ c \in Runs
  BY AcceptanceAssumption DEF Placed, Runs
<1>2. at \in (4 .. 6) \cup (8 .. 17)
  BY <1>1, MaintenanceChecks
<1>3. k \in at + 1 .. at + 3 /\ k \in 1 .. 21
  BY <1>2
<1>4. CheckAt(c, k) # CheckAt(c, at)
  BY <1>1, <1>2, <1>3, MaintenanceChecks
<1>5. \A m \in at .. k - 1 : CheckAt(c, m) = CheckAt(c, at)
  <2> TAKE m \in at .. k - 1
  <2>1. m \in 1 .. 21
    <3> HIDE DEF k
    <3>1. QED BY <1>1, <1>3
  <2>2. CASE at \in 4 .. 6
    <3>1. m \in 4 .. 6
      BY <2>2
    <3>2. QED BY <1>1, <2>1, <2>2, <3>1, MaintenanceChecks
  <2>3. CASE at \in {8, 9}
    <3>1. m \in {8, 9}
      BY <2>3
    <3>2. QED BY <1>1, <2>1, <2>3, <3>1, MaintenanceChecks
  <2>4. CASE at \in {10, 17}
    BY <2>4
  <2>5. CASE at \in 11 .. 13
    <3>1. m \in 11 .. 13
      BY <2>5
    <3>2. QED BY <1>1, <2>1, <2>5, <3>1, MaintenanceChecks
  <2>6. CASE at \in 14 .. 16
    <3>1. m \in 14 .. 16
      BY <2>6
    <3>2. QED BY <1>1, <2>1, <2>6, <3>1, MaintenanceChecks
  <2>7. QED BY <1>2, <2>2, <2>3, <2>4, <2>5, <2>6
<1> HIDE DEF k
<1>6. AfterCheck(c) = k
  BY <1>1, <1>3, <1>4, <1>5, FirstOfAnother
<1>7. QED BY <1>6 DEF k

-----------------------------------------------------------------------------
(* Types *)

\* The length of a run's script.
Length(r) == IF r = Publish THEN 25 ELSE 21

\* The runs have their types, each within its own script; whoever waits is
\* about to begin.
JobsOK ==
  /\ job \in [Runs -> JobType] /\ queued \in [Commits -> JobType \cup {None}]
  /\ \A r \in Runs : job[r].at \in 0 .. Length(r)
  /\ \A c \in Commits : queued[c] # None => queued[c].at = 1

RestOK ==
  /\ head \in Commits /\ body \in Plans \cup {None} /\ issue \in Contracts
  /\ approved \in Plans \cup {None} /\ reviews \in [Reviewers -> Commits \cup {None}]
  /\ status \in [Commits -> {"none", "success", "failure"}] /\ comments \in Nat
  /\ governed \in Commits \cup {None} /\ waiting \in ResultType \cup {None, Skipped}
  /\ events \in 0 .. MaxEvents

LEMMA TypeOfParts == JobsOK /\ RestOK => TypeOK
  BY DEF JobsOK, RestOK, TypeOK

LEMMA RunsAre ==
  /\ Publish \in Runs
  /\ \A r \in Runs : r = Publish \/ r \in Commits
  /\ \A c \in Commits : c \in Runs /\ c # Publish
  BY AcceptanceAssumption DEF Runs

LEMMA InPlace == ASSUME JobsOK, NEW r \in Runs PROVE Placed(r)
  BY DEF JobsOK, Placed, Length

LEMMA NoJobType == NoJob \in JobType /\ NoJob.at = 0
  BY AcceptanceAssumption DEF NoJob, JobType

LEMMA ConcludedKeeps ==
  ASSUME NEW j \in JobType, NEW v \in {"success", "other"}
  PROVE  LET i == Concluded(j, v)
         IN  /\ i \in JobType
             /\ i.at = j.at /\ i.sha = j.sha /\ i.good = j.good
             /\ i.contract = j.contract /\ i.plan = j.plan
             /\ i.candidate = j.candidate /\ i.final = j.final /\ i.files = j.files
             /\ i.sofar = j.sofar /\ i.decision = j.decision /\ i.failed = j.failed
             /\ j.evidence = "success" => i.evidence = "success"
  BY DEF Concluded, JobType

LEMMA EndType ==
  ASSUME JobsOK, NEW r \in Runs, NEW f \in BOOLEAN, End(r, f)
  PROVE  JobsOK'
<1>1. CASE r = Publish
  <2> DEFINE v == IF f THEN "other" ELSE "success"
  <2>1. v \in {"success", "other"}
    OBVIOUS
  <2> HIDE DEF v
  <2>2. /\ job' = [q \in Runs |-> IF q = r THEN NoJob ELSE Concluded(job[q], v)]
        /\ queued' = [c \in Commits |-> Concluded(queued[c], v)]
    BY <1>1 DEF End, v
  <2>3. ASSUME NEW q \in Runs
        PROVE  job'[q] \in JobType /\ job'[q].at \in 0 .. Length(q)
    <3>1. CASE q = r
      BY <1>1, <2>2, <3>1, NoJobType DEF Length
    <3>2. CASE q # r
      BY <2>1, <2>2, <3>2, ConcludedKeeps DEF JobsOK
    <3>3. QED BY <3>1, <3>2
  <2>4. ASSUME NEW c \in Commits
        PROVE  /\ queued'[c] \in JobType \cup {None}
               /\ queued'[c] # None => queued'[c].at = 1
    <3>1. CASE queued[c] = None
      BY <2>2, <3>1 DEF Concluded
    <3>2. CASE queued[c] # None
      <4>1. queued[c] \in JobType /\ queued[c].at = 1
        BY <3>2 DEF JobsOK
      <4>2. QED BY <2>1, <2>2, <4>1, ConcludedKeeps
    <3>3. QED BY <3>1, <3>2
  <2>5. QED BY <2>2, <2>3, <2>4 DEF JobsOK
<1>2. CASE r # Publish
  <2>1. r \in Commits
    BY <1>2, RunsAre
  <2>2. /\ job' = [job EXCEPT ![r] = IF queued[r] = None THEN NoJob ELSE queued[r]]
        /\ queued' = [queued EXCEPT ![r] = None]
    BY <1>2 DEF End
  <2>3. CASE queued[r] = None
    BY <2>1, <2>2, <2>3, NoJobType DEF JobsOK, Length
  <2>4. CASE queued[r] # None
    <3>1. queued[r] \in JobType /\ queued[r].at = 1
      BY <2>1, <2>4 DEF JobsOK
    <3>2. QED BY <2>1, <2>2, <2>4, <3>1 DEF JobsOK, Length
  <2>5. QED BY <2>3, <2>4
<1>3. QED BY <1>1, <1>2

LEMMA GotoType ==
  ASSUME JobsOK, NEW r \in Runs, NEW j \in JobType, NEW n \in 0 .. Length(r), Goto(r, j, n)
  PROVE  JobsOK'
<1>1. [j EXCEPT !.at = n] \in JobType
  BY DEF JobType, Length
<1>2. [j EXCEPT !.at = n].at = n
  BY DEF JobType
<1>3. job' = [job EXCEPT ![r] = [j EXCEPT !.at = n]] /\ queued' = queued
  BY DEF Goto
<1> DEFINE i == [j EXCEPT !.at = n]
<1> HIDE DEF i
<1>4. i \in JobType /\ i.at = n /\ job' = [job EXCEPT ![r] = i]
  BY <1>1, <1>2, <1>3 DEF i
<1>5. QED BY <1>3, <1>4 DEF JobsOK

LEMMA ContinueType ==
  ASSUME JobsOK, NEW r \in Runs, NEW j \in JobType, j.at < Length(r), Continue(r, j)
  PROVE  JobsOK'
<1>1. j.at + 1 \in 0 .. Length(r)
  BY DEF JobType, Length
<1>2. QED BY <1>1, GotoType DEF Continue

LEMMA StopType ==
  ASSUME JobsOK, NEW r \in Runs, Stop(r)
  PROVE  JobsOK'
<1>1. CASE r = Publish /\ (At(r, "find") \/ At(r, "comment"))
  <2>1. [job[r] EXCEPT !.failed = TRUE] \in JobType
    <3>1. job[r] \in JobType
      BY DEF JobsOK
    <3>2. QED BY <3>1 DEF JobType
  <2>2. StatusStep \in 0 .. Length(r)
    BY <1>1 DEF StatusStep, Length
  <2>3. Goto(r, [job[r] EXCEPT !.failed = TRUE], StatusStep)
    BY <1>1 DEF Stop
  <2>4. QED BY <2>1, <2>2, <2>3, GotoType
<1>2. CASE ~(r = Publish /\ (At(r, "find") \/ At(r, "comment")))
  BY <1>2, EndType DEF Stop
<1>3. QED BY <1>1, <1>2

\* The check that a run is at has an end.
LEMMA CheckEnds ==
  ASSUME JobsOK, NEW r \in Runs, job[r].at # 0, CheckAt(r, job[r].at) # "none"
  PROVE  /\ AfterCheck(r) \in job[r].at + 1 .. job[r].at + 3
         /\ AfterCheck(r) \in 0 .. Length(r)
         /\ CheckAt(r, job[r].at) \in Evaluated
<1>1. Placed(r) /\ CheckAt(r, job[r].at) \in Evaluated
  BY InPlace DEF CheckAt, Evaluated, CheckOf
<1>2. CASE r = Publish
  <2>1. job[r].at \in 1 .. 25
    BY <1>1, <1>2 DEF Placed
  <2>2. job[r].at \in {3, 4, 18, 19} \cup (5 .. 15)
    BY <1>2, <2>1, PublishChecks
  <2>3. AfterCheck(r) =
           CASE job[r].at \in {3, 4} -> 5 [] job[r].at = 5 -> 6
             [] job[r].at \in 6 .. 8 -> 9 [] job[r].at \in 9 .. 11 -> 12
             [] job[r].at \in 12 .. 14 -> 15 [] job[r].at = 15 -> 16
             [] job[r].at \in {18, 19} -> 20
    BY <1>1, <1>2, PublishAfterCheck
  <2>4. CASE job[r].at \in {3, 4, 5, 15, 18, 19}
    BY <1>1, <1>2, <2>3, <2>4 DEF Length
  <2>5. CASE job[r].at \in 6 .. 8
    BY <1>1, <1>2, <2>3, <2>5 DEF Length
  <2>6. CASE job[r].at \in 9 .. 11
    BY <1>1, <1>2, <2>3, <2>6 DEF Length
  <2>7. CASE job[r].at \in 12 .. 14
    BY <1>1, <1>2, <2>3, <2>7 DEF Length
  <2>8. QED BY <2>2, <2>4, <2>5, <2>6, <2>7
<1>3. CASE r \in Commits
  <2>1. job[r].at \in 1 .. 21 /\ r # Publish
    BY <1>1, <1>3, RunsAre DEF Placed
  <2>2. job[r].at \in (4 .. 6) \cup (8 .. 17)
    BY <1>3, <2>1, MaintenanceChecks
  <2>3. AfterCheck(r) =
           CASE job[r].at \in 4 .. 6 -> 7 [] job[r].at \in {8, 9} -> 10
             [] job[r].at = 10 -> 11 [] job[r].at \in 11 .. 13 -> 14
             [] job[r].at \in 14 .. 16 -> 17 [] job[r].at = 17 -> 18
    BY <1>1, <1>3, MaintenanceAfterCheck
  <2>4. CASE job[r].at \in {8, 9, 10, 17}
    BY <1>1, <2>1, <2>3, <2>4 DEF Length
  <2>5. CASE job[r].at \in 4 .. 6
    BY <1>1, <2>1, <2>3, <2>5 DEF Length
  <2>6. CASE job[r].at \in 11 .. 13
    BY <1>1, <2>1, <2>3, <2>6 DEF Length
  <2>7. CASE job[r].at \in 14 .. 16
    BY <1>1, <2>1, <2>3, <2>7 DEF Length
  <2>8. QED BY <2>2, <2>4, <2>5, <2>6, <2>7
<1>4. QED BY <1>2, <1>3, RunsAre

LEMMA FailCheckType ==
  ASSUME JobsOK, NEW r \in Runs, NEW j \in JobType, j.at = job[r].at, j.at # 0,
         FailCheck(r, j)
  PROVE  JobsOK'
<1>1. CASE Tolerated(r) /\ CheckAt(r, job[r].at) # "none"
  <2> DEFINE i == [j EXCEPT !.good = @ \ {CheckAt(r, j.at)}, !.files = None,
                            !.sofar = FALSE]
  <2>1. i \in JobType
    BY DEF JobType
  <2>2. Goto(r, i, AfterCheck(r))
    BY <1>1 DEF FailCheck
  <2> HIDE DEF i
  <2>3. QED BY <1>1, <2>1, <2>2, CheckEnds, GotoType
<1>2. CASE ~Tolerated(r)
  BY <1>2, StopType DEF FailCheck
<1>3. Tolerated(r) => CheckAt(r, job[r].at) # "none"
  BY DEF Tolerated
<1>4. QED BY <1>1, <1>2, <1>3

\* What belongs to a check, and what comes before the last step.
LEMMA ChecksAre ==
  ASSUME JobsOK, NEW r \in Runs, NEW s \in DOMAIN CheckOf, At(r, s)
  PROVE  /\ CheckAt(r, job[r].at) # "none" /\ job[r].at # 0
         /\ job[r].at < Length(r)
<1>1. CheckAt(r, job[r].at) # "none" /\ job[r].at # 0
  BY DEF At, CheckAt, CheckOf
<1>2. CASE r = Publish
  <2>1. job[r].at \in 1 .. 25
    BY <1>1, <1>2 DEF JobsOK, Length
  <2>2. QED BY <1>1, <1>2, <2>1, PublishChecks DEF Length
<1>3. CASE r \in Commits
  <2>1. job[r].at \in 1 .. 21 /\ r # Publish
    BY <1>1, <1>3, RunsAre DEF JobsOK, Length
  <2>2. QED BY <1>1, <1>3, <2>1, MaintenanceChecks DEF Length
<1>4. QED BY <1>1, <1>2, <1>3, RunsAre

LEMMA CheckNames ==
  DOMAIN CheckOf = {"plan", "planAgain", "approval", "scope", "scopeFiles", "scopeAgain",
                    "review", "reviewList", "reviewAgain", "authority",
                    "authorityFiles", "authorityAgain", "controls"}
  BY DEF CheckOf

LEMMA NextOrFailIs ==
  ASSUME NEW r, NEW j, NEW ok, NextOrFail(r, j, ok)
  PROVE  Continue(r, j) \/ FailCheck(r, j)
  BY DEF NextOrFail

LEMMA PassOrFailIs ==
  ASSUME NEW r, NEW j, NEW ok, PassOrFail(r, j, ok)
  PROVE  PassCheck(r, j) \/ FailCheck(r, j)
  BY DEF PassOrFail

LEMMA ReadsType ==
  ASSUME RestOK, Reads
  PROVE  comments' = comments /\ RestOK'
  BY DEF Reads, RestOK, github, posted

\* The steps at which a run makes its report and posts its comment.
Judged(r) == IF r = Publish THEN 20 ELSE 18
Comment(r) == IF r = Publish THEN 22 ELSE 20

LEMMA CommentSteps ==
  ASSUME NEW r \in Runs, NEW n \in 1 .. Length(r)
  PROVE  Steps(r)[n] = "comment" <=> n = Comment(r)
<1>1. CASE r = Publish
  BY <1>1, PublishSteps DEF Length, Comment
<1>2. CASE r \in Commits
  <2>1. n \in 1 .. 21 /\ r # Publish
    BY <1>2, RunsAre DEF Length
  <2>2. QED BY <1>2, <2>1, MaintenanceSteps DEF Comment
<1>3. QED BY <1>1, <1>2, RunsAre

\* A maintenance run gets past its second step by what it has verified.
Verified(r, i, n) ==
  /\ i.evidence = job[r].evidence
  /\ r \in Commits /\ n > 2 /\ job[r].at <= 2 => i.evidence = "success"

\* A run that evaluates goes on to the report at most.
Moves(r) ==
  Stop(r) \/ \E i \in JobType, n \in 2 .. Judged(r) : Goto(r, i, n) /\ Verified(r, i, n)

LEMMA CheckMoves ==
  ASSUME JobsOK, NEW r \in Runs, NEW j \in JobType, NEW s \in DOMAIN CheckOf,
         At(r, s), j.at = job[r].at, j.evidence = job[r].evidence,
         Continue(r, j) \/ FailCheck(r, j) \/ PassCheck(r, j)
  PROVE  Moves(r)
<1>1. CheckAt(r, job[r].at) # "none" /\ job[r].at # 0
  BY ChecksAre
<1>2. /\ job[r].at + 1 \in 2 .. Judged(r) /\ AfterCheck(r) \in 2 .. Judged(r)
      /\ r \in Commits => job[r].at > 2
  <2>1. Placed(r)
    BY InPlace
  <2>2. CASE r = Publish
    <3>1. job[r].at \in 1 .. 25
      BY <1>1, <2>1, <2>2 DEF Placed
    <3>2. job[r].at \in {3, 4, 18, 19} \cup (5 .. 15)
      BY <1>1, <2>2, <3>1, PublishChecks
    <3>3. AfterCheck(r) \in {5, 6, 9, 12, 15, 16, 20}
      BY <1>1, <2>1, <2>2, <3>2, PublishAfterCheck
    <3>4. QED BY <2>2, <3>2, <3>3, RunsAre DEF Judged
  <2>3. CASE r \in Commits
    <3>1. job[r].at \in 1 .. 21 /\ r # Publish
      BY <1>1, <2>1, <2>3, RunsAre DEF Placed
    <3>2. job[r].at \in (4 .. 6) \cup (8 .. 17)
      BY <1>1, <2>3, <3>1, MaintenanceChecks
    <3>3. AfterCheck(r) \in {7, 10, 11, 14, 17, 18}
      BY <1>1, <2>1, <2>3, <3>2, MaintenanceAfterCheck
    <3>4. QED BY <3>1, <3>2, <3>3 DEF Judged
  <2>4. QED BY <2>2, <2>3, RunsAre
<1>3. CASE Continue(r, j)
  BY <1>2, <1>3 DEF Continue, Moves, Verified, JobType
<1>4. CASE PassCheck(r, j)
  <2> DEFINE good == IF r = Publish /\ j.at > Controls THEN j.good
                     ELSE j.good \cup {CheckAt(r, j.at)}
             i == [j EXCEPT !.good = good, !.files = None, !.sofar = FALSE]
  <2>1. good \in SUBSET (Evaluated \cup Suite)
    BY <1>1, CheckEnds DEF JobType
  <2>2. Goto(r, i, AfterCheck(r))
    BY <1>4 DEF PassCheck
  <2>3. i \in JobType
    <3> HIDE DEF good
    <3>1. QED BY <2>1 DEF JobType
  <2>4. i.evidence = j.evidence
    <3> HIDE DEF good
    <3>1. QED BY DEF JobType
  <2> HIDE DEF i
  <2>5. Verified(r, i, AfterCheck(r))
    BY <1>2, <2>4 DEF Verified, JobType
  <2>6. QED BY <1>2, <2>2, <2>3, <2>5 DEF Moves
<1>5. CASE FailCheck(r, j)
  <2> DEFINE good == j.good \ {CheckAt(r, j.at)}
             i == [j EXCEPT !.good = good, !.files = None, !.sofar = FALSE]
  <2>1. i \in JobType /\ i.evidence = j.evidence
    <3>1. good \in SUBSET (Evaluated \cup Suite)
      BY DEF JobType
    <3> HIDE DEF good
    <3>2. QED BY <3>1 DEF JobType
  <2>2. Goto(r, i, AfterCheck(r)) \/ Stop(r)
    BY <1>5 DEF FailCheck
  <2> HIDE DEF i
  <2>3. Verified(r, i, AfterCheck(r))
    BY <1>2, <2>1 DEF Verified, JobType
  <2>4. QED BY <1>2, <2>1, <2>2, <2>3 DEF Moves
<1>6. QED BY <1>3, <1>4, <1>5

\* The scripts that evaluate.
LEMMA EvaluateMoves ==
  ASSUME JobsOK, RestOK, NEW r \in Runs, Evaluate(r)
  PROVE  Moves(r) /\ job[r].at # 0
<1> DEFINE j == job[r]
<1>1. j \in JobType
  BY DEF JobsOK
<1>2. /\ At(r, "identify") \/ At(r, "task") \/ At(r, "verify") => j.at + 1 \in 2 .. Judged(r)
      /\ r \in Commits /\ (At(r, "identify") \/ At(r, "task")) => j.at > 2
  BY InPlace, RunsAre, PublishAt, MaintenanceAt DEF Judged
<1>15. j.at # 0
  BY DEF At, Evaluate, Identify, ResolvePrTask, CheckPlan, CheckPlanAgain,
     FetchApprovedPlan, CheckScope, ListFiles, CheckScopeAgain, CheckHumanReview,
     EvaluateFinalApproval, CheckHumanReviewAgain, CheckAuthority, CheckAuthorityAgain,
     RepositoryControls, VerifyRuns
<1> SUFFICES Moves(r)
  BY <1>15
<1>3. CASE Identify(r)
  BY <1>1, <1>2, <1>3 DEF Identify, Moves, Continue, Verified, JobType
<1>4. CASE ResolvePrTask(r)
  <2> DEFINE i == [j EXCEPT !.contract = issue]
  <2>2. i \in JobType /\ i.at = j.at /\ i.evidence = j.evidence
    BY <1>1 DEF JobType, RestOK
  <2>3. Continue(r, i) \/ Stop(r)
    BY <1>4 DEF ResolvePrTask
  <2> HIDE DEF i
  <2>4. QED BY <1>1, <1>2, <1>4, <2>2, <2>3 DEF ResolvePrTask, Moves, Continue, Verified, JobType
<1>5. CASE CheckPlan(r)
  <2> DEFINE i == [j EXCEPT !.plan = body]
             k == [j EXCEPT !.candidate = j.plan]
  <2>1. /\ i \in JobType /\ i.at = j.at /\ i.evidence = j.evidence
        /\ k \in JobType /\ k.at = j.at /\ k.evidence = j.evidence
    BY <1>1 DEF JobType, RestOK
  <2>2. Continue(r, i) \/ FailCheck(r, k)
    BY <1>5 DEF CheckPlan
  <2> HIDE DEF i, k
  <2>3. At(r, "plan") /\ "plan" \in DOMAIN CheckOf
    BY <1>5, CheckNames DEF CheckPlan
  <2>4. QED BY <2>1, <2>2, <2>3, CheckMoves
<1>6. CASE CheckPlanAgain(r)
  <2> DEFINE i == IF r = Publish /\ j.at > Controls
                  THEN j ELSE [j EXCEPT !.candidate = j.plan]
  <2>1. i \in JobType /\ i.at = j.at /\ i.evidence = j.evidence
    BY <1>1 DEF JobType
  <2>2. PassCheck(r, i) \/ FailCheck(r, i)
    BY <1>6, PassOrFailIs DEF CheckPlanAgain
  <2> HIDE DEF i
  <2>3. At(r, "planAgain") /\ "planAgain" \in DOMAIN CheckOf
    BY <1>6, CheckNames DEF CheckPlanAgain
  <2>4. QED BY <2>1, <2>2, <2>3, CheckMoves
<1>7. CASE FetchApprovedPlan(r)
  <2> DEFINE found == approved # None /\ PlanOf[approved].contract = issue
             p == IF found THEN approved ELSE None
             i == [j EXCEPT !.contract = issue, !.plan = p]
             k == [i EXCEPT !.final = approved]
  <2>1. /\ i \in JobType /\ i.at = j.at /\ i.evidence = j.evidence
        /\ k \in JobType /\ k.at = j.at /\ k.evidence = j.evidence
    <3>1. p \in Plans \cup {None} /\ approved \in Plans \cup {None} /\ issue \in Contracts
      BY DEF RestOK
    <3> HIDE DEF p
    <3>2. i \in JobType /\ i.at = j.at /\ i.evidence = j.evidence
      BY <1>1, <3>1 DEF JobType
    <3> HIDE DEF i
    <3>3. k \in JobType /\ k.at = i.at /\ k.evidence = i.evidence
      BY <3>1, <3>2 DEF JobType
    <3>4. QED BY <3>2, <3>3
  <2>2. FailCheck(r, j) \/ PassCheck(r, k) \/ FailCheck(r, i)
    BY <1>7 DEF FetchApprovedPlan
  <2> HIDE DEF i, k
  <2>3. At(r, "approval") /\ "approval" \in DOMAIN CheckOf
    BY <1>7, CheckNames DEF FetchApprovedPlan
  <2>4. QED BY <1>1, <2>1, <2>2, <2>3, CheckMoves
<1>8. CASE CheckScope(r) \/ CheckAuthority(r)
  <2>1. \E s \in DOMAIN CheckOf : At(r, s)
    BY <1>8, CheckNames DEF CheckScope, CheckAuthority
  <2>2. Continue(r, j) \/ FailCheck(r, j)
    BY <1>8, NextOrFailIs DEF CheckScope, CheckAuthority
  <2>3. QED BY <1>1, <2>1, <2>2, CheckMoves
<1>9. CASE ListFiles(r)
  <2> DEFINE i == [j EXCEPT !.files = head]
  <2>1. i \in JobType /\ i.at = j.at /\ i.evidence = j.evidence
    BY <1>1 DEF JobType, RestOK
  <2>2. Continue(r, i)
    BY <1>9 DEF ListFiles
  <2> HIDE DEF i
  <2>3. \E s \in DOMAIN CheckOf : At(r, s)
    BY <1>9, CheckNames DEF ListFiles
  <2>4. QED BY <2>1, <2>2, <2>3, CheckMoves
<1>10. CASE CheckScopeAgain(r) \/ CheckHumanReviewAgain(r) \/ RepositoryControls(r)
  <2>1. \E s \in DOMAIN CheckOf : At(r, s)
    BY <1>10, CheckNames DEF CheckScopeAgain, CheckHumanReviewAgain, RepositoryControls
  <2>2. PassCheck(r, j) \/ FailCheck(r, j)
    BY <1>10, PassOrFailIs DEF CheckScopeAgain, CheckHumanReviewAgain, RepositoryControls
  <2>3. QED BY <1>1, <2>1, <2>2, CheckMoves
<1>11. CASE CheckHumanReview(r)
  <2> DEFINE decided == j.plan # None /\ (PlanOf[j.plan].owner
                                          => \E p \in CodeOwners : reviews[p] # None)
             i == [j EXCEPT !.sofar = decided]
  <2>1. i \in JobType /\ i.at = j.at /\ i.evidence = j.evidence
    <3>1. decided \in BOOLEAN
      OBVIOUS
    <3> HIDE DEF decided
    <3>2. QED BY <1>1, <3>1 DEF JobType
  <2>2. Continue(r, i) \/ FailCheck(r, i)
    BY <1>11, NextOrFailIs DEF CheckHumanReview
  <2> HIDE DEF i
  <2>3. At(r, "review") /\ "review" \in DOMAIN CheckOf
    BY <1>11, CheckNames DEF CheckHumanReview
  <2>4. QED BY <2>1, <2>2, <2>3, CheckMoves
<1>12. CASE EvaluateFinalApproval(r)
  <2> DEFINE enough == j.sofar /\ Cardinality({p \in Reviewers : reviews[p] = j.sha})
                                    >= PlanOf[j.plan].minimum
             i == [j EXCEPT !.sofar = enough]
  <2>1. i \in JobType /\ i.at = j.at /\ i.evidence = j.evidence
    <3>1. enough \in BOOLEAN
      OBVIOUS
    <3> HIDE DEF enough
    <3>2. QED BY <1>1, <3>1 DEF JobType
  <2>2. Continue(r, i)
    BY <1>12 DEF EvaluateFinalApproval
  <2> HIDE DEF i
  <2>3. At(r, "reviewList") /\ "reviewList" \in DOMAIN CheckOf
    BY <1>12, CheckNames DEF EvaluateFinalApproval
  <2>4. QED BY <2>1, <2>2, <2>3, CheckMoves
<1>13. CASE CheckAuthorityAgain(r)
  <2> DEFINE changed == OnHead(r) /\ j.files \in Authority
             i == [j EXCEPT !.changed = changed]
  <2>1. i \in JobType /\ i.at = j.at /\ i.evidence = j.evidence
    <3>1. changed \in BOOLEAN
      OBVIOUS
    <3> HIDE DEF changed
    <3>2. QED BY <1>1, <3>1 DEF JobType
  <2>2. PassCheck(r, i) \/ FailCheck(r, i)
    BY <1>13, PassOrFailIs DEF CheckAuthorityAgain
  <2> HIDE DEF i
  <2>3. At(r, "authorityAgain") /\ "authorityAgain" \in DOMAIN CheckOf
    BY <1>13, CheckNames DEF CheckAuthorityAgain
  <2>4. QED BY <2>1, <2>2, <2>3, CheckMoves
<1>14. CASE VerifyRuns(r)
  <2>1. j.at = 2 /\ j.at + 1 \in 2 .. Judged(r) /\ j.at \in 2 .. Judged(r)
    BY <1>14, InPlace, RunsAre, PublishAt, MaintenanceAt DEF VerifyRuns, Judged
  <2>2. CASE j.evidence = "success"
    <3>1. Goto(r, j, j.at + 1)
      BY <1>14, <2>2 DEF VerifyRuns, Continue
    <3>2. QED BY <1>1, <2>1, <2>2, <3>1 DEF Moves, Verified
  <2>3. CASE j.evidence = "running" /\ j.polls + 1 < MaxPolls
    <3> DEFINE i == [j EXCEPT !.polls = @ + 1]
    <3>1. i \in JobType /\ i.evidence = j.evidence
      BY <1>1, <2>3, AcceptanceAssumption DEF JobType
    <3>2. Goto(r, i, j.at)
      BY <1>14, <2>3 DEF VerifyRuns
    <3> HIDE DEF i
    <3>3. QED BY <2>1, <3>1, <3>2 DEF Moves, Verified
  <2>4. QED BY <1>14, <2>2, <2>3 DEF VerifyRuns, Moves
<1>16. QED
  BY <1>3, <1>4, <1>5, <1>6, <1>7, <1>8, <1>9, <1>10, <1>11, <1>12, <1>13, <1>14
  DEF Evaluate

LEMMA EvaluateType ==
  ASSUME JobsOK, RestOK, NEW r \in Runs, Evaluate(r)
  PROVE  JobsOK' /\ RestOK'
<1>1. RestOK'
  BY ReadsType DEF Evaluate, Identify, ResolvePrTask, CheckPlan, CheckPlanAgain,
     FetchApprovedPlan, CheckScope, ListFiles, CheckScopeAgain, CheckHumanReview,
     EvaluateFinalApproval, CheckHumanReviewAgain, CheckAuthority, CheckAuthorityAgain,
     RepositoryControls, VerifyRuns
<1>2. \A n \in 2 .. Judged(r) : n \in 0 .. Length(r)
  BY DEF Judged, Length
<1>3. QED BY <1>1, <1>2, EvaluateMoves, StopType, GotoType DEF Moves

\* What a run knows of its comment, and the run it dispatches.
LEMMA SofarType ==
  ASSUME NEW j \in JobType, NEW b \in BOOLEAN
  PROVE  [j EXCEPT !.sofar = b] \in JobType /\ [j EXCEPT !.sofar = b].at = j.at
  BY DEF JobType

LEMMA MaintenanceType ==
  ASSUME NEW j \in JobType
  PROVE  LET m == MaintenanceJob(j)
         IN  /\ m \in JobType /\ m.at = 1 /\ m.decision = None /\ m.sofar = FALSE
             /\ m.sha = j.sha /\ m.good = j.good /\ m.failed = j.failed
<1> DEFINE m == MaintenanceJob(j)
<1>1. m = [j EXCEPT !.at = 1, !.changed = FALSE, !.decision = None, !.plan = None,
                    !.sofar = FALSE, !.evidence = "running"]
  BY DEF MaintenanceJob
<1> HIDE DEF m
<1>2. /\ m.at = 1 /\ m.decision = None /\ m.sofar = FALSE
      /\ m.sha = j.sha /\ m.good = j.good /\ m.failed = j.failed
  BY <1>1 DEF JobType
<1>3. m \in JobType
  <2> DEFINE k == [j EXCEPT !.at = 1, !.changed = FALSE, !.plan = None]
  <2>1. k \in JobType
    <3> DEFINE i == [j EXCEPT !.at = 1]
    <3>1. i \in JobType
      BY DEF JobType
    <3>2. k = [i EXCEPT !.changed = FALSE, !.plan = None]
      BY DEF JobType
    <3> HIDE DEF i, k
    <3>3. QED BY <3>1, <3>2 DEF JobType
  <2>2. m = [k EXCEPT !.decision = None, !.sofar = FALSE, !.evidence = "running"]
    BY <1>1 DEF JobType
  <2> HIDE DEF k
  <2>3. QED BY <2>1, <2>2 DEF JobType
<1>4. QED BY <1>2, <1>3 DEF m

\* The steps that conclude a run.
LEMMA ConcludeType ==
  ASSUME JobsOK, RestOK, NEW r \in Runs, Conclude(r)
  PROVE  JobsOK' /\ RestOK'
<1> DEFINE j == job[r]
<1>1. j \in JobType
  BY DEF JobsOK
<1>2. CASE BuildReport(r)
  <2> DEFINE decision == Report!Decision(EvidenceOf(j))
             i == [j EXCEPT !.decision = decision]
  <2>1. decision \in Report!Decisions
    BY DEF Report!Decision, Report!Decisions
  <2>2. Continue(r, i) \/ Stop(r)
    BY <1>2 DEF BuildReport
  <2>3. i \in JobType /\ i.at = j.at
    <3> HIDE DEF decision
    <3>1. QED BY <1>1, <2>1 DEF JobType
  <2> HIDE DEF i
  <2>4. j.at < Length(r)
    BY <1>2, InPlace, RunsAre, PublishAt, MaintenanceAt DEF BuildReport, Length
  <2>5. JobsOK'
    BY <2>2, <2>3, <2>4, ContinueType, StopType
  <2>6. QED BY <1>2, <2>5, ReadsType DEF BuildReport
<1>3. CASE ExistingCommentId(r)
  <2> DEFINE i == [j EXCEPT !.sofar = comments > 0]
  <2>1. i \in JobType /\ i.at = j.at
    BY <1>1, (comments > 0) \in BOOLEAN, SofarType
  <2>2. Continue(r, i)
    BY <1>3 DEF ExistingCommentId
  <2> HIDE DEF i
  <2>3. j.at < Length(r)
    BY <1>3, InPlace, RunsAre, PublishAt, MaintenanceAt DEF ExistingCommentId, Length
  <2>4. QED BY <1>3, <2>1, <2>2, <2>3, ContinueType, ReadsType DEF ExistingCommentId
<1>4. CASE PostComment(r)
  <2> DEFINE i == [j EXCEPT !.sofar = FALSE]
  <2>1. i \in JobType /\ i.at = j.at
    BY <1>1, SofarType
  <2>2. Continue(r, i)
    BY <1>4 DEF PostComment
  <2> HIDE DEF i
  <2>3. j.at < Length(r)
    BY <1>4, InPlace, RunsAre, PublishAt, MaintenanceAt DEF PostComment, Length
  <2>4. RestOK'
    BY <1>4 DEF PostComment, RestOK, github
  <2>5. QED BY <2>1, <2>2, <2>3, <2>4, ContinueType
<1>5. CASE PostStatus(r)
  <2>1. status' \in [Commits -> {"none", "success", "failure"}]
    BY <1>5 DEF PostStatus, RestOK
  <2>2. RestOK'
    BY <1>5, <2>1 DEF PostStatus, RestOK, github
  <2>3. CASE r = Publish
    <3>1. j.at < Length(r)
      BY <1>5, <2>3, InPlace, PublishAt DEF PostStatus, Length
    <3>2. QED BY <1>1, <1>5, <2>2, <2>3, <3>1, ContinueType DEF PostStatus
  <2>4. CASE r # Publish
    BY <1>5, <2>2, <2>4, EndType DEF PostStatus
  <2>5. QED BY <2>3, <2>4
<1>6. CASE DispatchMaintenance(r)
  <2>1. r = Publish /\ j.at = 24 /\ Length(r) = 25
    BY <1>6, InPlace, RunsAre, PublishAt, MaintenanceAt DEF DispatchMaintenance, Length
  <2> DEFINE next == [job EXCEPT ![r].at = j.at + 1]
             new == MaintenanceJob(j)
  <2>2. next \in [Runs -> JobType] /\ next[r].at = 25 /\ \A q \in Runs \ {r} : next[q] = job[q]
    BY <1>1, <2>1 DEF JobsOK, JobType
  <2>3. new \in JobType /\ new.at = 1
    BY <1>1, MaintenanceType
  <2>4. \/ job' = next /\ UNCHANGED queued
        \/ job' = [next EXCEPT ![j.sha] = new] /\ UNCHANGED queued
        \/ job' = next /\ queued' = [queued EXCEPT ![j.sha] = new]
    BY <1>6 DEF DispatchMaintenance
  <2> HIDE DEF next, new
  <2>5. JobsOK'
    <3>1. \A q \in Runs : /\ next[q] \in JobType /\ next[q].at \in 0 .. Length(q)
                          /\ 1 \in 0 .. Length(q)
      BY <2>1, <2>2 DEF JobsOK, Length
    <3>2. CASE job' = next /\ UNCHANGED queued
      BY <2>2, <3>1, <3>2 DEF JobsOK
    <3>3. CASE job' = [next EXCEPT ![j.sha] = new] /\ UNCHANGED queued
      BY <2>2, <2>3, <3>1, <3>3 DEF JobsOK
    <3>4. CASE job' = next /\ queued' = [queued EXCEPT ![j.sha] = new]
      BY <2>2, <2>3, <3>1, <3>4 DEF JobsOK
    <3>5. QED BY <2>4, <3>2, <3>3, <3>4
  <2>6. QED BY <1>6, <2>5, ReadsType DEF DispatchMaintenance
<1>7. CASE EndRun(r)
  <2>1. j.failed \in BOOLEAN
    BY <1>1 DEF JobType
  <2>2. QED BY <1>7, <2>1, EndType, ReadsType DEF EndRun
<1>8. QED BY <1>2, <1>3, <1>4, <1>5, <1>6, <1>7 DEF Conclude


\* A fault, a cancelled run, the approval of a deployment.
LEMMA StrayType ==
  ASSUME JobsOK, RestOK, NEW r \in Runs,
         ApproveDeployment(r) \/ TakeCancellation(r)
  PROVE  JobsOK' /\ RestOK'
<1>1. CASE ApproveDeployment(r)
  <2>1. job[r].at < Length(r) /\ job[r] \in JobType
    BY <1>1, InPlace, RunsAre, PublishAt, MaintenanceAt
    DEF ApproveDeployment, Length, JobsOK
  <2>2. QED BY <1>1, <2>1, ContinueType, StopType, ReadsType DEF ApproveDeployment
<1>2. CASE TakeCancellation(r)
  BY <1>2, StopType, ReadsType DEF TakeCancellation
<1>3. QED BY <1>1, <1>2

LEMMA FaultType ==
  ASSUME JobsOK, RestOK, NEW r \in Runs, Fault(r)
  PROVE  JobsOK' /\ RestOK'
<1>1. JobsOK'
  <2>1. FailCheck(r, job[r]) \/ Stop(r)
    BY DEF Fault
  <2>2. job[r] \in JobType /\ job[r].at # 0
    BY DEF Fault, JobsOK
  <2>3. QED BY <2>1, <2>2, FailCheckType, StopType
<1>2. RestOK'
  <2>1. comments' \in Nat
    BY DEF Fault, RestOK
  <2>2. events' \in 0 .. MaxEvents
    BY AcceptanceAssumption DEF Fault, RestOK, Intervenes
  <2>3. QED BY <2>1, <2>2 DEF Fault, RestOK, github
<1>3. QED BY <1>1, <1>2

\* Cancelling touches nothing but the mark.
LEMMA CancelledKeeps ==
  ASSUME JobsOK, NEW r \in Runs
  PROVE  LET i == Cancelled[r]
         IN  /\ i \in JobType
             /\ i.at = job[r].at /\ i.sha = job[r].sha /\ i.good = job[r].good
             /\ i.contract = job[r].contract /\ i.plan = job[r].plan
             /\ i.candidate = job[r].candidate /\ i.final = job[r].final
             /\ i.files = job[r].files /\ i.sofar = job[r].sofar
             /\ i.decision = job[r].decision /\ i.failed = job[r].failed
             /\ i.evidence = job[r].evidence
<1>1. job[r] \in JobType
  BY DEF JobsOK
<1>2. CASE Cancelled[r] = job[r]
  BY <1>1, <1>2
<1>3. CASE Cancelled[r] = [job[r] EXCEPT !.cancelled = TRUE]
  <2> DEFINE j == job[r]
  <2>1. j \in JobType
    BY <1>1
  <2> HIDE DEF j
  <2>2. [j EXCEPT !.cancelled = TRUE] \in JobType
    BY <2>1 DEF JobType
  <2>3. LET i == [j EXCEPT !.cancelled = TRUE]
        IN  /\ i.at = j.at /\ i.sha = j.sha /\ i.good = j.good
            /\ i.contract = j.contract /\ i.plan = j.plan
            /\ i.candidate = j.candidate /\ i.final = j.final
            /\ i.files = j.files /\ i.sofar = j.sofar
            /\ i.decision = j.decision /\ i.failed = j.failed
            /\ i.evidence = j.evidence
    BY <2>1 DEF JobType
  <2>4. Cancelled[r] = [j EXCEPT !.cancelled = TRUE]
    BY <1>3 DEF j
  <2>5. QED BY <2>2, <2>3, <2>4 DEF j
<1>4. Cancelled[r] = job[r] \/ Cancelled[r] = [job[r] EXCEPT !.cancelled = TRUE]
  BY DEF Cancelled, JobsOK
<1>5. QED BY <1>2, <1>3, <1>4

LEMMA CancelledType ==
  ASSUME JobsOK, job' = Cancelled, UNCHANGED queued
  PROVE  JobsOK'
<1>1. job' \in [Runs -> JobType]
  <2>1. DOMAIN job' = Runs /\ job' = [r \in Runs |-> job'[r]]
    BY DEF Cancelled, JobsOK
  <2>2. QED BY <2>1, CancelledKeeps
<1>2. QED BY <1>1, CancelledKeeps DEF JobsOK

LEMMA TriggerType ==
  ASSUME JobsOK, RestOK, head' \in Commits, UNCHANGED queued, Trigger
  PROVE  /\ JobsOK' /\ governed' \in Commits \cup {None}
         /\ waiting' \in ResultType \cup {None, Skipped}
<1>1. CASE governed = None
  BY <1>1 DEF Trigger, JobsOK, RestOK
<1>2. CASE governed # None
  <2>1. PICK ok \in {FALSE, (governed \in Green)} : waiting' = [sha |-> governed, ok |-> ok]
    BY <1>2 DEF Trigger
  <2>2. ok \in BOOLEAN /\ governed \in Commits
    <3>1. (governed \in Green) \in BOOLEAN
      OBVIOUS
    <3>2. QED BY <1>2, <3>1 DEF RestOK
  <2>3. waiting' \in ResultType
    BY <2>1, <2>2 DEF ResultType
  <2>4. QED BY <1>2, <2>3, CancelledType DEF Trigger, RestOK
<1>3. QED BY <1>1, <1>2

LEMMA PeopleType ==
  ASSUME JobsOK, RestOK, People
  PROVE  JobsOK' /\ RestOK'
<1>1. events' \in 0 .. MaxEvents /\ UNCHANGED <<posted, queued>>
  BY AcceptanceAssumption
  DEF People, Push, EditBody, ApprovePlan, Review, EditIssue, DispatchedDone, Changed,
      Intervenes, RestOK
<1>2. ASSUME NEW c \in Commits, Push(c) PROVE JobsOK' /\ RestOK'
  BY <1>1, <1>2, TriggerType DEF Push, RestOK, posted
<1>3. ASSUME NEW p \in Plans \cup {None}, EditBody(p) PROVE JobsOK' /\ RestOK'
  BY <1>1, <1>3, TriggerType DEF EditBody, RestOK, posted
<1>4. ASSUME NEW p \in Plans \cup {None}, ApprovePlan(p) PROVE JobsOK' /\ RestOK'
  BY <1>1, <1>4 DEF ApprovePlan, RestOK, JobsOK, posted
<1>5. ASSUME NEW p \in Reviewers, NEW c \in Commits \cup {None}, Review(p, c)
      PROVE  JobsOK' /\ RestOK'
  <2>1. reviews' \in [Reviewers -> Commits \cup {None}]
    BY <1>5 DEF Review, RestOK
  <2>2. QED BY <1>1, <1>5, <2>1, TriggerType DEF Review, RestOK, posted
<1>6. ASSUME NEW v \in Contracts, EditIssue(v) PROVE JobsOK' /\ RestOK'
  BY <1>1, <1>6 DEF EditIssue, RestOK, JobsOK, posted
<1>7. CASE DispatchedDone
  BY <1>1, <1>7, CancelledType DEF DispatchedDone, RestOK, github, posted
<1>8. QED BY <1>2, <1>3, <1>4, <1>5, <1>6, <1>7 DEF People

LEMMA PublishJobType ==
  ASSUME NEW result \in ResultType
  PROVE  LET j == PublishJob(result)
         IN  /\ j \in JobType /\ j.at = 1 /\ j.sha = result.sha /\ j.final = None
             /\ j.decision = None /\ j.failed = FALSE /\ j.sofar = FALSE
             /\ j.good = IF result.ok THEN Suite ELSE {}
<1> DEFINE good == IF result.ok THEN Suite ELSE {}
<1>1. good \in SUBSET (Evaluated \cup Suite) /\ result.sha \in Commits
  BY DEF ResultType
<1>2. PublishJob(result) = [NoJob EXCEPT !.at = 1, !.sha = result.sha, !.good = good]
  BY DEF PublishJob
<1> HIDE DEF good
<1>3. PublishJob(result) \in JobType
  <2>1. [NoJob EXCEPT !.at = 1] \in JobType
    BY NoJobType DEF JobType
  <2> DEFINE k == [NoJob EXCEPT !.at = 1]
  <2>2. PublishJob(result) = [k EXCEPT !.sha = result.sha, !.good = good]
    BY <1>2, NoJobType DEF JobType
  <2> HIDE DEF k
  <2>3. QED BY <1>1, <2>1, <2>2 DEF JobType, k
<1> DEFINE j == PublishJob(result)
<1>4. /\ j.at = 1 /\ j.sha = result.sha /\ j.final = None /\ j.decision = None
      /\ j.failed = FALSE /\ j.sofar = FALSE /\ j.good = good
  BY <1>2 DEF NoJob
<1>5. QED BY <1>3, <1>4 DEF good

LEMMA StartType ==
  ASSUME JobsOK, RestOK, GovernedDone \/ StartPublish
  PROVE  JobsOK' /\ RestOK'
<1>1. CASE GovernedDone
  <2>1. waiting' \in ResultType
    BY <1>1 DEF GovernedDone, ResultType, RestOK
  <2>2. QED BY <1>1, <2>1, CancelledType DEF GovernedDone, RestOK, github, posted
<1>2. CASE StartPublish
  <2> DEFINE j == PublishJob(waiting)
  <2>1. j \in JobType /\ j.at = 1
    BY <1>2, PublishJobType DEF StartPublish, RestOK
  <2>2. job' = [job EXCEPT ![Publish] = j] /\ UNCHANGED queued
    BY <1>2 DEF StartPublish
  <2> HIDE DEF j
  <2>3. JobsOK'
    BY <2>1, <2>2, RunsAre DEF JobsOK, Length
  <2>4. QED BY <1>2, <2>3 DEF StartPublish, RestOK, github, posted
<1>3. QED BY <1>1, <1>2

LEMMA InitType == Init => JobsOK /\ RestOK
<1> SUFFICES ASSUME Init PROVE JobsOK /\ RestOK
  OBVIOUS
<1>1. JobsOK
  BY NoJobType DEF Init, JobsOK, Length
<1>2. RestOK
  BY AcceptanceAssumption DEF Init, RestOK, OpeningType
<1>3. QED BY <1>1, <1>2

LEMMA StepType == JobsOK /\ RestOK /\ [EarnedNext]_earnedVars => (JobsOK /\ RestOK)'
<1> SUFFICES ASSUME JobsOK, RestOK, [EarnedNext]_earnedVars PROVE JobsOK' /\ RestOK'
  OBVIOUS
<1>1. CASE UNCHANGED earnedVars
  BY <1>1 DEF earnedVars, vars, github, posted, JobsOK, RestOK
<1>2. CASE Next
  BY <1>2, EvaluateType, ConcludeType, StrayType, StartType, PeopleType DEF Next
<1>3. CASE \E r \in Runs : Fault(r)
  BY <1>3, FaultType
<1>4. QED BY <1>1, <1>2, <1>3 DEF EarnedNext

\* Every variable keeps its type, with faults too: no run is ever beyond its
\* script, and the files of a run hold plans and versions of the task.
THEOREM AcceptanceTypes == EarnedSpec => []TypeOK
<1>1. EarnedInit => JobsOK /\ RestOK
  BY InitType DEF EarnedInit
<1>2. QED BY <1>1, StepType, TypeOfParts, PTL DEF EarnedSpec

-----------------------------------------------------------------------------
(* The single comment *)

\* CommentInv, with the step of the comment by its place in the script.
OneComment ==
  /\ comments \in {0, 1}
  /\ comments = 0 => \A c \in Commits : job[c].at = 0 /\ queued[c] = None
  /\ job[Publish].at > 22 /\ ~job[Publish].failed => comments = 1
  /\ \A r \in Runs : job[r].at = Comment(r) => (job[r].sofar <=> comments = 1)

LEMMA CommentAt ==
  ASSUME JobsOK, NEW r \in Runs
  PROVE  At(r, "comment") <=> job[r].at = Comment(r)
  BY InPlace, RunsAre, PublishAt, MaintenanceAt DEF Comment

LEMMA CommentInvIs == JobsOK /\ OneComment => CommentInv
<1> SUFFICES ASSUME JobsOK, OneComment PROVE CommentInv
  OBVIOUS
<1>1. \A c \in Commits : job[c].at <= 21 /\ (queued[c] # None => queued[c].at = 1)
  BY RunsAre DEF JobsOK, Length
<1>2. QED BY <1>1, CommentAt DEF OneComment, CommentInv

\* A run goes to a step where it need not answer for the comment.
LEMMA GotoComment ==
  ASSUME JobsOK, OneComment, NEW r \in Runs, job[r].at # 0, NEW i \in JobType,
         NEW n \in Nat, Goto(r, i, n), comments' = comments,
         n = Comment(r) => (i.sofar <=> comments = 1),
         r = Publish /\ n > 22 /\ ~i.failed => comments = 1
  PROVE  OneComment'
<1> DEFINE k == [i EXCEPT !.at = n]
<1>1. k.at = n /\ k.sofar = i.sofar /\ k.failed = i.failed
  BY DEF JobType
<1>2. job' = [job EXCEPT ![r] = k] /\ queued' = queued
  BY DEF Goto
<1> HIDE DEF k
<1>3. job'[r] = k /\ \A q \in Runs \ {r} : job'[q] = job[q]
  BY <1>2 DEF JobsOK
<1>4. comments = 0 => r = Publish
  BY RunsAre DEF OneComment
<1>5. comments = 0 => \A c \in Commits : job'[c].at = 0 /\ queued'[c] = None
  BY <1>2, <1>3, <1>4, RunsAre DEF OneComment
<1>6. job'[Publish].at > 22 /\ ~job'[Publish].failed => comments = 1
  BY <1>1, <1>3, RunsAre DEF OneComment
<1>7. \A q \in Runs : job'[q].at = Comment(q) => (job'[q].sofar <=> comments = 1)
  BY <1>1, <1>3 DEF OneComment
<1>8. QED BY <1>5, <1>6, <1>7 DEF OneComment

LEMMA EndComment ==
  ASSUME JobsOK, OneComment, NEW r \in Runs, job[r].at # 0, NEW f \in BOOLEAN,
         End(r, f), comments' = comments
  PROVE  OneComment'
<1>1. CASE r = Publish
  <2> DEFINE v == IF f THEN "other" ELSE "success"
  <2>1. v \in {"success", "other"}
    OBVIOUS
  <2> HIDE DEF v
  <2>2. /\ job' = [q \in Runs |-> IF q = r THEN NoJob ELSE Concluded(job[q], v)]
        /\ queued' = [c \in Commits |-> Concluded(queued[c], v)]
    BY <1>1 DEF End, v
  <2>3. job'[Publish].at = 0 /\ Comment(Publish) # 0
    BY <1>1, <2>2, NoJobType DEF Comment
  <2>4. \A q \in Runs : q # Publish => job'[q].at = job[q].at /\ job'[q].sofar = job[q].sofar
    BY <1>1, <2>1, <2>2, ConcludedKeeps DEF JobsOK
  <2>5. \A c \in Commits : queued[c] = None => queued'[c] = None
    BY <2>2 DEF Concluded
  <2>6. QED BY <2>3, <2>4, <2>5, RunsAre DEF OneComment
<1>2. CASE r # Publish
  <2>1. r \in Commits /\ comments = 1
    BY <1>2, RunsAre DEF OneComment
  <2>2. /\ job' = [job EXCEPT ![r] = IF queued[r] = None THEN NoJob ELSE queued[r]]
        /\ queued' = [queued EXCEPT ![r] = None]
    BY <1>2 DEF End
  <2>3. job'[r].at \in {0, 1} /\ Comment(r) \notin {0, 1}
    BY <2>1, <2>2, NoJobType DEF JobsOK, Comment
  <2>4. \A q \in Runs \ {r} : job'[q] = job[q]
    BY <2>2 DEF JobsOK
  <2>5. QED BY <1>2, <2>1, <2>3, <2>4, RunsAre DEF OneComment
<1>3. QED BY <1>1, <1>2

LEMMA StopComment ==
  ASSUME JobsOK, OneComment, NEW r \in Runs, job[r].at # 0, Stop(r), comments' = comments
  PROVE  OneComment'
<1>1. CASE r = Publish /\ (At(r, "find") \/ At(r, "comment"))
  <2> DEFINE i == [job[r] EXCEPT !.failed = TRUE]
  <2>1. i \in JobType /\ i.failed
    <3>1. job[r] \in JobType
      BY DEF JobsOK
    <3>2. QED BY <3>1 DEF JobType
  <2>2. Goto(r, i, StatusStep)
    BY <1>1 DEF Stop
  <2> HIDE DEF i
  <2>3. StatusStep \in Nat /\ StatusStep # Comment(r)
    BY DEF StatusStep, Comment
  <2>4. QED BY <2>1, <2>2, <2>3, GotoComment
<1>2. CASE ~(r = Publish /\ (At(r, "find") \/ At(r, "comment")))
  BY <1>2, EndComment DEF Stop
<1>3. QED BY <1>1, <1>2

LEMMA MoveComment ==
  ASSUME JobsOK, OneComment, NEW r \in Runs, job[r].at # 0, Moves(r), comments' = comments
  PROVE  OneComment'
<1>1. ASSUME NEW i \in JobType, NEW n \in 2 .. Judged(r), Goto(r, i, n)
      PROVE  OneComment'
  <2>1. n \in Nat /\ n # Comment(r) /\ (r = Publish => n <= 22)
    BY DEF Judged, Comment
  <2>2. QED BY <1>1, <2>1, GotoComment
<1>2. QED BY <1>1, StopComment DEF Moves

\* A fault is a stop, or a check that fails; it may come after the request.
LEMMA FaultMoves ==
  ASSUME JobsOK, NEW r \in Runs, Fault(r)
  PROVE  Stop(r) \/ (Moves(r) /\ ~At(r, "comment"))
<1>1. CASE Tolerated(r)
  <2>1. CheckAt(r, job[r].at) # "none" /\ job[r].at # 0
    BY <1>1 DEF Tolerated, Fault
  <2>2. PICK s \in DOMAIN CheckOf : At(r, s)
    BY <2>1 DEF CheckAt, At
  <2>3. FailCheck(r, job[r]) /\ job[r] \in JobType
    BY <1>1 DEF Fault, JobsOK
  <2>4. Moves(r)
    BY <2>2, <2>3, CheckMoves
  <2>5. "comment" \notin DOMAIN CheckOf
    BY CheckNames
  <2>6. QED BY <2>2, <2>4, <2>5 DEF At
<1>2. CASE ~Tolerated(r)
  BY <1>2 DEF Fault
<1>3. QED BY <1>1, <1>2

\* The comment of a run that found none is the first.
LEMMA FirstComment ==
  ASSUME JobsOK, OneComment, NEW r \in Runs, At(r, "comment"), ~job[r].sofar
  PROVE  comments = 0 /\ r = Publish
<1>1. job[r].at = Comment(r) /\ Comment(r) # 0
  BY CommentAt DEF Comment
<1>2. QED BY <1>1, RunsAre DEF OneComment

LEMMA FaultComment ==
  ASSUME JobsOK, RestOK, OneComment, NEW r \in Runs, Fault(r)
  PROVE  OneComment'
<1>1. job[r].at # 0 /\ (comments' = comments \/ comments' = comments + 1)
  BY DEF Fault, RestOK
<1>2. CASE comments' = comments
  BY <1>1, <1>2, FaultMoves, StopComment, MoveComment
<1>3. CASE comments' # comments
  <2>1. At(r, "comment") /\ ~job[r].sofar /\ comments' = comments + 1
    BY <1>3 DEF Fault, RestOK
  <2>2. comments = 0 /\ r = Publish
    BY <2>1, FirstComment
  <2> DEFINE i == [job[r] EXCEPT !.failed = TRUE]
  <2>3. Goto(r, i, StatusStep)
    BY <2>1, <2>2, FaultMoves DEF Stop
  <2>4. [i EXCEPT !.at = StatusStep].at = 23
    <3>1. job[r] \in JobType
      BY DEF JobsOK
    <3>2. QED BY <3>1 DEF JobType, StatusStep
  <2> HIDE DEF i
  <2>5. job'[Publish].at = 23 /\ \A c \in Commits : job'[c] = job[c]
    BY <2>2, <2>3, <2>4, RunsAre DEF Goto, JobsOK
  <2>6. \A q \in Runs : job'[q].at # Comment(q)
    BY <2>2, <2>5, RunsAre DEF OneComment, Comment
  <2>7. QED BY <2>1, <2>2, <2>6 DEF OneComment
<1>4. QED BY <1>2, <1>3

LEMMA PostCommentKeeps ==
  ASSUME JobsOK, RestOK, OneComment, NEW r \in Runs, PostComment(r)
  PROVE  OneComment'
<1> DEFINE i == [job[r] EXCEPT !.sofar = FALSE]
           k == [i EXCEPT !.at = job[r].at + 1]
<1>1. job[r] \in JobType /\ At(r, "comment") /\ job[r].at = Comment(r)
  BY CommentAt DEF PostComment, JobsOK
<1>2. i \in JobType /\ i.at = job[r].at
  BY <1>1, SofarType
<1>3. job' = [job EXCEPT ![r] = k] /\ queued' = queued
  BY <1>2 DEF PostComment, Continue, Goto
<1>4. k.at = Comment(r) + 1
  <2> HIDE DEF i
  <2>1. QED BY <1>1, <1>2 DEF JobType
<1> HIDE DEF i, k
<1>5. job'[r].at = Comment(r) + 1 /\ \A q \in Runs \ {r} : job'[q] = job[q]
  BY <1>3, <1>4 DEF JobsOK
<1>6. comments' = 1
  <2>1. CASE job[r].sofar
    BY <1>1, <2>1 DEF PostComment, OneComment
  <2>2. CASE ~job[r].sofar
    BY <1>1, <2>2, FirstComment DEF PostComment
  <2>3. QED BY <2>1, <2>2
<1>7. \A q \in Runs : job'[q].at = Comment(q) => (job'[q].sofar <=> comments' = 1)
  <2> SUFFICES ASSUME NEW q \in Runs, job'[q].at = Comment(q)
               PROVE  job'[q].sofar <=> comments' = 1
    OBVIOUS
  <2>1. q # r /\ job[q].at = Comment(q)
    BY <1>5 DEF Comment
  <2>2. CASE comments = 1
    BY <1>5, <1>6, <2>1, <2>2 DEF OneComment
  <2>3. CASE comments = 0
    <3>1. q \in Commits \/ r \in Commits
      BY <2>1, RunsAre
    <3>2. Comment(q) # 0 /\ Comment(r) # 0
      BY DEF Comment
    <3>3. QED BY <1>1, <2>1, <2>3, <3>1, <3>2 DEF OneComment
  <2>4. QED BY <2>2, <2>3 DEF OneComment
<1>8. QED BY <1>6, <1>7 DEF OneComment

\* A maintenance run is dispatched after the comment.
LEMMA DispatchComment ==
  ASSUME JobsOK, OneComment, NEW r \in Runs, DispatchMaintenance(r)
  PROVE  OneComment'
<1> DEFINE j == job[r]
           next == [job EXCEPT ![r].at = j.at + 1]
           new == MaintenanceJob(j)
<1>1. r = Publish /\ j.at = 24 /\ j \in JobType
  BY InPlace, RunsAre, PublishAt, MaintenanceAt DEF DispatchMaintenance, JobsOK
<1>2. /\ next[r].at = 25 /\ next[r].failed = j.failed
      /\ \A q \in Runs \ {r} : next[q] = job[q]
      /\ DOMAIN next = Runs
  BY <1>1 DEF JobsOK, JobType
<1>3. new.at = 1
  BY <1>1, MaintenanceType
<1>4. \/ job' = next /\ UNCHANGED queued
      \/ ~j.failed /\ job' = [next EXCEPT ![j.sha] = new] /\ UNCHANGED queued
      \/ ~j.failed /\ job' = next /\ queued' = [queued EXCEPT ![j.sha] = new]
  BY DEF DispatchMaintenance, Dispatched
<1>5. j.sha # Publish
  BY <1>1, AcceptanceAssumption DEF JobType, Publish
<1>6. comments' = comments
  BY DEF DispatchMaintenance, Reads, posted
<1>7. ~j.failed => comments = 1
  BY <1>1 DEF OneComment
<1> HIDE DEF next, new, j
<1>8. \A q \in Runs : \/ job'[q] = next[q]
                      \/ (~j.failed /\ q # r /\ job'[q].at = 1)
  <2>1. CASE job' = next
    BY <2>1
  <2>2. CASE ~j.failed /\ job' = [next EXCEPT ![j.sha] = new]
    <3> TAKE q \in Runs
    <3>1. CASE q = j.sha
      BY <1>1, <1>2, <1>3, <1>5, <2>2, <3>1
    <3>2. CASE q # j.sha
      BY <1>2, <2>2, <3>2
    <3>3. QED BY <3>1, <3>2
  <2>3. QED BY <1>4, <2>1, <2>2
<1>9. comments = 0 => queued' = queued
  BY <1>4, <1>7
<1>10. Comment(r) # 25 /\ \A q \in Runs : Comment(q) # 1
  BY DEF Comment
<1>11. \A q \in Runs : job'[q].at = Comment(q) => q # r /\ job'[q] = job[q]
  BY <1>2, <1>8, <1>10
<1>12. comments = 0 => \A c \in Commits : job'[c].at = 0 /\ queued'[c] = None
  BY <1>1, <1>2, <1>7, <1>8, <1>9, RunsAre DEF OneComment
<1>13. job'[Publish].at > 22 /\ ~job'[Publish].failed => comments = 1
  BY <1>1, <1>2, <1>7, <1>8, RunsAre
<1>14. QED BY <1>6, <1>11, <1>12, <1>13 DEF OneComment

LEMMA ConcludeComment ==
  ASSUME JobsOK, RestOK, OneComment, NEW r \in Runs, Conclude(r)
  PROVE  OneComment'
<1> DEFINE j == job[r]
<1>1. j \in JobType /\ Placed(r)
  BY InPlace DEF JobsOK
<1>2. CASE BuildReport(r)
  <2> DEFINE decision == Report!Decision(EvidenceOf(j))
             i == [j EXCEPT !.decision = decision]
  <2>1. decision \in Report!Decisions
    BY DEF Report!Decision, Report!Decisions
  <2>2. Continue(r, i) \/ Stop(r)
    BY <1>2 DEF BuildReport
  <2>3. i \in JobType /\ i.at = j.at
    <3> HIDE DEF decision
    <3>1. QED BY <1>1, <2>1 DEF JobType
  <2> HIDE DEF i
  <2>4. j.at \in Nat /\ j.at = Judged(r) /\ j.at + 1 # Comment(r) /\ j.at + 1 \in 1 .. 21
    BY <1>1, <1>2, RunsAre, PublishAt, MaintenanceAt DEF BuildReport, Judged, Comment
  <2>5. comments' = comments
    BY <1>2, ReadsType DEF BuildReport
  <2>6. j.at # 0
    BY <2>4 DEF Judged
  <2>7. CASE Continue(r, i)
    <3>1. Goto(r, i, j.at + 1)
      BY <2>3, <2>7 DEF Continue
    <3>2. QED BY <2>3, <2>4, <2>5, <2>6, <3>1, GotoComment
  <2>8. QED BY <2>2, <2>5, <2>6, <2>7, StopComment
<1>3. CASE ExistingCommentId(r)
  <2> DEFINE found == comments > 0
             i == [j EXCEPT !.sofar = found]
  <2>1. i \in JobType /\ i.at = j.at /\ i.sofar = found
    <3>1. found \in BOOLEAN
      OBVIOUS
    <3> HIDE DEF found
    <3>2. QED BY <1>1, <3>1, SofarType DEF JobType
  <2>2. Continue(r, i) /\ comments' = comments
    BY <1>3, ReadsType DEF ExistingCommentId
  <2>3. found <=> comments = 1
    BY DEF OneComment
  <2> HIDE DEF i, found
  <2>4. j.at + 1 \in 1 .. 22 /\ j.at # 0
    BY <1>1, <1>3, RunsAre, PublishAt, MaintenanceAt DEF ExistingCommentId
  <2>5. QED BY <2>1, <2>2, <2>3, <2>4, GotoComment DEF Continue
<1>4. CASE PostComment(r)
  BY <1>4, PostCommentKeeps
<1>5. CASE PostStatus(r)
  <2>1. comments' = comments /\ j.at # 0
    BY <1>5 DEF PostStatus, At
  <2>2. CASE r = Publish
    <3>1. j.at = 23 /\ Continue(r, j)
      BY <1>1, <1>5, <2>2, PublishAt DEF PostStatus
    <3>2. ~j.failed => comments = 1
      BY <2>2, <3>1 DEF OneComment
    <3>3. Comment(r) # 24
      BY DEF Comment
    <3>4. QED BY <1>1, <2>1, <3>1, <3>2, <3>3, GotoComment DEF Continue
  <2>3. CASE r # Publish
    BY <1>5, <2>1, <2>3, EndComment DEF PostStatus
  <2>4. QED BY <2>2, <2>3
<1>6. CASE DispatchMaintenance(r)
  BY <1>6, DispatchComment
<1>7. CASE EndRun(r)
  <2>1. j.failed \in BOOLEAN /\ j.at # 0 /\ comments' = comments
    BY <1>1, <1>7, ReadsType DEF JobType, EndRun, At
  <2>2. QED BY <1>7, <2>1, EndComment DEF EndRun
<1>8. QED BY <1>2, <1>3, <1>4, <1>5, <1>6, <1>7 DEF Conclude

\* People, and Governed Change, cancel runs and start them.
LEMMA UntouchedComment ==
  ASSUME JobsOK, OneComment, comments' = comments, UNCHANGED queued,
         job' = job \/ job' = Cancelled
  PROVE  OneComment'
<1>1. \A r \in Runs : /\ job'[r].at = job[r].at /\ job'[r].sofar = job[r].sofar
                       /\ job'[r].failed = job[r].failed
  BY CancelledKeeps
<1>2. QED BY <1>1, RunsAre DEF OneComment

LEMMA StepComment == JobsOK /\ RestOK /\ OneComment /\ [EarnedNext]_earnedVars => OneComment'
<1> SUFFICES ASSUME JobsOK, RestOK, OneComment, [EarnedNext]_earnedVars PROVE OneComment'
  OBVIOUS
<1>1. CASE UNCHANGED earnedVars
  BY <1>1, UntouchedComment DEF earnedVars, vars, posted
<1>2. ASSUME NEW r \in Runs, Evaluate(r) PROVE OneComment'
  <2>1. comments' = comments
    BY <1>2, ReadsType DEF Evaluate, Identify, ResolvePrTask, CheckPlan, CheckPlanAgain,
       FetchApprovedPlan, CheckScope, ListFiles, CheckScopeAgain, CheckHumanReview,
       EvaluateFinalApproval, CheckHumanReviewAgain, CheckAuthority, CheckAuthorityAgain,
       RepositoryControls, VerifyRuns
  <2>2. QED BY <1>2, <2>1, EvaluateMoves, MoveComment
<1>3. ASSUME NEW r \in Runs, ApproveDeployment(r) PROVE OneComment'
  <2>1. job[r].at = 1 /\ job[r] \in JobType /\ comments' = comments
    BY <1>3, InPlace, RunsAre, PublishAt, MaintenanceAt, ReadsType
    DEF ApproveDeployment, JobsOK
  <2>2. Comment(r) # 2
    BY DEF Comment
  <2>3. QED BY <1>3, <2>1, <2>2, GotoComment, StopComment DEF ApproveDeployment, Continue
<1>4. ASSUME NEW r \in Runs, TakeCancellation(r) PROVE OneComment'
  BY <1>4, StopComment, ReadsType DEF TakeCancellation
<1>5. CASE GovernedDone
  BY <1>5, UntouchedComment DEF GovernedDone, posted
<1>6. CASE StartPublish
  <2> DEFINE k == PublishJob(waiting)
  <2>1. k.at = 1
    BY <1>6, PublishJobType DEF StartPublish, RestOK
  <2>2. job' = [job EXCEPT ![Publish] = k] /\ queued' = queued /\ comments' = comments
    BY <1>6 DEF StartPublish, posted
  <2> HIDE DEF k
  <2>3. job'[Publish].at = 1 /\ \A c \in Commits : job'[c] = job[c]
    BY <2>1, <2>2, RunsAre DEF JobsOK
  <2>4. \A q \in Runs : job'[q].at = Comment(q) => q \in Commits
    BY <2>3, RunsAre DEF Comment
  <2>5. QED BY <2>2, <2>3, <2>4, RunsAre DEF OneComment
<1>7. CASE People
  BY <1>7, UntouchedComment
  DEF People, Push, EditBody, ApprovePlan, Review, EditIssue, DispatchedDone, Changed,
      Trigger, posted
<1>8. CASE \E r \in Runs : Fault(r)
  BY <1>8, FaultComment
<1>9. QED
  BY <1>1, <1>2, <1>3, <1>4, <1>5, <1>6, <1>7, <1>8, ConcludeComment DEF EarnedNext, Next

\* However runs are cancelled, fail and overlap, and however many people and
\* faults intervene, the pull request has at most one evidence comment, although
\* a run looks for it and posts it in two requests (publish-evidence.mjs).
THEOREM OneCommentOnly == EarnedSpec => [](AtMostOneComment /\ CommentInv)
<1>1. EarnedInit => JobsOK /\ RestOK /\ OneComment
  <2> SUFFICES ASSUME EarnedInit PROVE JobsOK /\ RestOK /\ OneComment
    OBVIOUS
  <2>1. \A r \in Runs : job[r].at = 0 /\ Comment(r) # 0
    BY NoJobType DEF EarnedInit, Init, Comment
  <2>2. OneComment
    BY <2>1, RunsAre DEF EarnedInit, Init, OneComment
  <2>3. QED BY <2>2, InitType DEF EarnedInit
<1>2. OneComment => AtMostOneComment
  BY DEF OneComment, AtMostOneComment
<1>3. QED BY <1>1, <1>2, StepType, StepComment, CommentInvIs, PTL DEF EarnedSpec


-----------------------------------------------------------------------------
(* What one run has earned, as it goes on *)

LEMMA LastIs ==
  /\ Last(Publish).plan = 4 /\ Last(Publish).approval = 5 /\ Last(Publish).scope = 8
  /\ Last(Publish).review = 11 /\ Last(Publish).authority = 14
  /\ Last(Publish).report = 20
  /\ \A c \in Commits :
       /\ Last(c).plan = 9 /\ Last(c).approval = 10 /\ Last(c).scope = 13
       /\ Last(c).review = 16 /\ Last(c).authority = 6 /\ Last(c).report = 18
  BY RunsAre DEF Last

LEMMA LastType ==
  ASSUME NEW r \in Runs
  PROVE  /\ Last(r).plan \in 2 .. 20 /\ Last(r).approval \in 2 .. 20
         /\ Last(r).scope \in 2 .. 20 /\ Last(r).review \in 3 .. 20
         /\ Last(r).authority \in 2 .. 20 /\ Last(r).report \in 2 .. 20
  BY LastIs, RunsAre

\* A run that begins claims only its tests.
LEMMA FreshEarned ==
  ASSUME NEW r \in Runs, NEW j \in JobType, NEW T, j.at <= 1, TestsEarned(j),
         j.decision = None, r = Publish => j.final = None
  PROVE  Earned(r, j, T)
<1>1. j.at \in Nat
  BY DEF JobType
<1>2. PlanEarned(r, j, T)
  BY <1>1, LastType DEF PlanEarned
<1>3. ScopeEarned(r, j, T)
  BY <1>1, LastType DEF ScopeEarned
<1>4. ReviewEarned(r, j, T)
  BY <1>1, LastType DEF ReviewEarned
<1>5. AuthorityEarned(r, j, T)
  BY <1>1, LastType DEF AuthorityEarned
<1>6. DecisionEarned(r, j)
  BY NoneAssumption DEF DecisionEarned, Report!Decisions
<1>7. QED BY <1>2, <1>3, <1>4, <1>5, <1>6 DEF Earned

\* What no step of a run changes but the one that is about it.
Alike(i, j) ==
  i.sha = j.sha /\ i.final = j.final /\ i.decision = j.decision /\ i.candidate = j.candidate

\* From step m to step n no check ends, and none is about to.
Between(r, m, n) ==
  /\ m > Last(r).plan <=> n > Last(r).plan
  /\ m > Last(r).approval <=> n > Last(r).approval
  /\ m > Last(r).scope <=> n > Last(r).scope
  /\ m > Last(r).review <=> n > Last(r).review
  /\ m > Last(r).authority <=> n > Last(r).authority
  /\ m > Last(r).report <=> n > Last(r).report
  /\ n # Last(r).scope /\ n # Last(r).review - 1 /\ n # Last(r).review
  /\ n # Last(r).authority

LEMMA OnwardEarned ==
  ASSUME NEW r \in Runs, NEW j \in JobType, NEW i \in JobType, NEW S, NEW T, S \subseteq T,
         Earned(r, j, S), Alike(i, j), i.good = j.good, Between(r, j.at, i.at),
         \/ i.plan = j.plan \/ i.at <= Last(r).approval \/ i.at > Last(r).review
  PROVE  Earned(r, i, T)
<1>1. j.at \in Nat /\ i.at \in Nat
  BY DEF JobType
<1>2. TestsEarned(i)
  BY DEF Earned, TestsEarned, Alike
<1>3. PlanEarned(r, i, T)
  BY <1>1, LastType DEF Earned, PlanEarned, Alike, Between
<1>4. ScopeEarned(r, i, T)
  BY <1>1, LastType DEF Earned, ScopeEarned, Alike, Between, Away
<1>5. ReviewEarned(r, i, T)
  BY <1>1, LastType DEF Earned, ReviewEarned, ReviewedBy, Alike, Between
<1>6. AuthorityEarned(r, i, T)
  BY <1>1, LastType DEF Earned, AuthorityEarned, Alike, Between, Away
<1>7. DecisionEarned(r, i)
  BY <1>1, LastType DEF Earned, DecisionEarned, Alike, Between
<1>8. QED BY <1>2, <1>3, <1>4, <1>5, <1>6, <1>7 DEF Earned

\* A run that waits, or steps of others, see more and change nothing it relies on.
LEMMA KeptEarned ==
  ASSUME NEW r \in Runs, NEW j \in JobType, NEW i \in JobType, NEW S, NEW T,
         S \subseteq T \/ j.at <= 1,
         Earned(r, j, S), Alike(i, j), i.at = j.at, i.good = j.good, i.plan = j.plan,
         i.files = j.files, i.sofar = j.sofar
  PROVE  Earned(r, i, T)
<1>1. j.at \in Nat
  BY DEF JobType
<1>2. TestsEarned(i)
  BY DEF Earned, TestsEarned, Alike
<1>3. PlanEarned(r, i, T)
  BY <1>1, LastType DEF Earned, PlanEarned, Alike
<1>4. ScopeEarned(r, i, T)
  BY <1>1, LastType DEF Earned, ScopeEarned, Alike, Away
<1>5. ReviewEarned(r, i, T)
  BY <1>1, LastType DEF Earned, ReviewEarned, ReviewedBy, Alike
<1>6. AuthorityEarned(r, i, T)
  BY <1>1, LastType DEF Earned, AuthorityEarned, Alike, Away
<1>7. DecisionEarned(r, i)
  BY DEF Earned, DecisionEarned, Alike
<1>8. QED BY <1>2, <1>3, <1>4, <1>5, <1>6, <1>7 DEF Earned

\* The checks that are tolerated, and where a run goes when one fails.
FailsTo(r, m, n, id) ==
  \/ /\ r = Publish
     /\ \/ m \in {3, 4} /\ n = 5 /\ id = "plan-contract"
        \/ m = 5 /\ n = 6 /\ id = "plan-approval"
        \/ m \in 6 .. 8 /\ n = 9 /\ id = "scope-policy"
        \/ m \in 9 .. 11 /\ n = 12 /\ id = "human-review"
        \/ m \in 12 .. 14 /\ n = 15 /\ id = "validation-authority"
        \/ m = 15 /\ n = 16 /\ id = "repository-controls"
  \/ r \in Commits /\ m \in 4 .. 6 /\ n = 7 /\ id = "validation-authority"

LEMMA FailureEarned ==
  ASSUME NEW r \in Runs, NEW j \in JobType, NEW i \in JobType, NEW S, NEW T, S \subseteq T,
         NEW id, Earned(r, j, S), FailsTo(r, j.at, i.at, id), i.good = j.good \ {id},
         i.sha = j.sha, i.final = j.final, i.decision = j.decision,
         i.candidate = j.candidate \/ (r = Publish /\ j.at \in {3, 4}),
         i.plan = j.plan \/ (r = Publish /\ j.at <= 5)
  PROVE  Earned(r, i, T)
<1>1. TestsEarned(i)
  BY DEF Earned, TestsEarned
<1>2. CASE r = Publish /\ j.at \in 3 .. 5
  <2>1. j.final = None
    BY <1>2, LastIs DEF Earned, PlanEarned
  <2>2. i.at \in 5 .. 6 /\ (j.at \in {3, 4} => i.at = 5 /\ id = "plan-contract")
                        /\ (j.at = 5 => i.at = 6)
    BY <1>2, RunsAre DEF FailsTo
  <2>3. PlanEarned(r, i, T)
    BY <1>2, <2>1, <2>2, LastIs DEF Earned, PlanEarned
  <2>4. ScopeEarned(r, i, T) /\ ReviewEarned(r, i, T) /\ AuthorityEarned(r, i, T)
    BY <1>2, <2>2, LastIs DEF ScopeEarned, ReviewEarned, AuthorityEarned
  <2>5. DecisionEarned(r, i)
    BY <1>2, <2>2, LastIs DEF Earned, DecisionEarned
  <2>6. QED BY <1>1, <2>3, <2>4, <2>5 DEF Earned
<1>3. CASE r = Publish /\ j.at \in 6 .. 15
  <2>1. /\ j.at \in 6 .. 8 => i.at = 9 /\ id = "scope-policy"
        /\ j.at \in 9 .. 11 => i.at = 12 /\ id = "human-review"
        /\ j.at \in 12 .. 14 => i.at = 15 /\ id = "validation-authority"
        /\ j.at = 15 => i.at = 16 /\ id = "repository-controls"
    BY <1>3, RunsAre DEF FailsTo
  <2>2. i.at \in {9, 12, 15, 16} /\ i.candidate = j.candidate /\ i.plan = j.plan
    BY <1>3, <2>1
  <2>3. PlanEarned(r, i, T)
    BY <1>3, <2>1, <2>2, LastIs DEF Earned, PlanEarned
  <2>4. ScopeEarned(r, i, T)
    BY <1>3, <2>1, <2>2, LastIs DEF Earned, ScopeEarned, Away
  <2>5. ReviewEarned(r, i, T)
    BY <1>3, <2>1, <2>2, LastIs DEF Earned, ReviewEarned, ReviewedBy
  <2>6. AuthorityEarned(r, i, T)
    BY <1>3, <2>1, <2>2, LastIs DEF Earned, AuthorityEarned, Away
  <2>7. DecisionEarned(r, i)
    BY <1>3, <2>2, LastIs DEF Earned, DecisionEarned
  <2>8. QED BY <1>1, <2>3, <2>4, <2>5, <2>6, <2>7 DEF Earned
<1>4. CASE r \in Commits
  <2>1. j.at \in 4 .. 6 /\ i.at = 7 /\ id = "validation-authority" /\ r # Publish
    BY <1>4, RunsAre DEF FailsTo
  <2>2. PlanEarned(r, i, T) /\ ScopeEarned(r, i, T) /\ ReviewEarned(r, i, T)
    BY <1>4, <2>1, LastIs DEF PlanEarned, ScopeEarned, ReviewEarned
  <2>3. AuthorityEarned(r, i, T)
    BY <1>4, <2>1, LastIs DEF AuthorityEarned
  <2>4. DecisionEarned(r, i)
    BY <1>4, <2>1, LastIs DEF Earned, DecisionEarned
  <2>5. QED BY <1>1, <2>2, <2>3, <2>4 DEF Earned
<1>5. QED BY <1>2, <1>3, <1>4 DEF FailsTo

-----------------------------------------------------------------------------
(* What a run has seen when a check passes *)

\* What r knows after this step: what it saw and what is true.
Seen(r) == seen[r] \cup Facts(job[r].sha)

LEMMA SeenIs ==
  ASSUME NEW r
  PROVE  /\ seen[r] \subseteq Seen(r)
         /\ \A p \in Plans : body = p => <<"described", p>> \in Seen(r)
         /\ \A p \in Plans : approved = p /\ PlanOf[p].contract = issue
                            => <<"approved", p>> \in Seen(r)
         /\ \A p \in Plans : Cardinality({u \in Reviewers : reviews[u] = job[r].sha})
                              >= PlanOf[p].minimum => <<"reviewed", p>> \in Seen(r)
         /\ (\E u \in CodeOwners : reviews[u] # None) => <<"owned", job[r].sha>> \in Seen(r)
         /\ head # job[r].sha => Away(job[r], Seen(r))
  BY DEF Seen, Facts, Away

\* check-plan has looked twice and recorded its candidate.
LEMMA PlanPasses ==
  ASSUME NEW r \in Runs, NEW j \in JobType, NEW i \in JobType, NEW S, NEW T, S \subseteq T,
         Earned(r, j, S), j.at = Last(r).plan, i.at = j.at + 1,
         i.sha = j.sha, i.final = j.final, i.decision = j.decision,
         i.good = j.good \cup {"plan-contract"},
         i.candidate = j.plan, i.plan = j.plan, j.plan # None => <<"described", j.plan>> \in T
  PROVE  Earned(r, i, T)
<1>1. j.at \in Nat /\ j.at + 1 = Last(r).approval /\ "plan-contract" \in Evaluated
  BY LastIs, RunsAre DEF JobType, Evaluated, CheckOf
<1>2. TestsEarned(i)
  BY <1>1 DEF Earned, TestsEarned
<1>3. PlanEarned(r, i, T)
  BY <1>1, LastType DEF Earned, PlanEarned
<1>4. ScopeEarned(r, i, T) /\ ReviewEarned(r, i, T)
  <2>1. i.at < Last(r).scope /\ i.at < Last(r).review - 1
    BY LastIs, RunsAre
  <2>2. QED BY <1>1, <2>1, LastType DEF ScopeEarned, ReviewEarned
<1>5. AuthorityEarned(r, i, T)
  <2>1. i.at # Last(r).authority /\ (i.at > Last(r).authority => j.at > Last(r).authority)
    BY LastIs, RunsAre
  <2>2. QED BY <2>1 DEF Earned, AuthorityEarned, Away
<1>6. DecisionEarned(r, i)
  BY LastIs, RunsAre DEF Earned, DecisionEarned
<1>7. QED BY <1>2, <1>3, <1>4, <1>5, <1>6 DEF Earned

\* fetch-approved-plan has found the candidate approved.
LEMMA ApprovalPasses ==
  ASSUME NEW r \in Runs, NEW j \in JobType, NEW i \in JobType, NEW S, NEW T, S \subseteq T,
         Earned(r, j, S), j.at = Last(r).approval, i.at = j.at + 1,
         i.sha = j.sha, i.decision = j.decision, i.good = j.good \cup {"plan-approval"},
         i.candidate = j.candidate, i.plan = j.candidate, i.final = j.candidate,
         <<"approved", j.candidate>> \in T
  PROVE  Earned(r, i, T)
<1>1. j.at \in Nat /\ "plan-approval" \in Evaluated /\ j.at > Last(r).plan
  BY LastIs, RunsAre DEF JobType, Evaluated, CheckOf
<1>2. TestsEarned(i)
  BY <1>1 DEF Earned, TestsEarned
<1>3. PlanEarned(r, i, T)
  BY <1>1, LastType DEF Earned, PlanEarned
<1>4. ScopeEarned(r, i, T) /\ ReviewEarned(r, i, T)
  <2>1. i.at < Last(r).scope /\ i.at < Last(r).review - 1
    BY LastIs, RunsAre
  <2>2. QED BY <1>1, <2>1, LastType DEF ScopeEarned, ReviewEarned
<1>5. AuthorityEarned(r, i, T)
  <2>1. i.at # Last(r).authority /\ (i.at > Last(r).authority => j.at > Last(r).authority)
    BY LastIs, RunsAre
  <2>2. QED BY <2>1 DEF Earned, AuthorityEarned, Away
<1>6. DecisionEarned(r, i)
  BY LastIs, RunsAre DEF Earned, DecisionEarned
<1>7. QED BY <1>2, <1>3, <1>4, <1>5, <1>6 DEF Earned

\* The list of a pull request's files has been read, for the scope or for the
\* control plane.
LEMMA FilesListed ==
  ASSUME NEW r \in Runs, NEW j \in JobType, NEW i \in JobType, NEW S, NEW T, S \subseteq T,
         Earned(r, j, S), j.at + 1 \in {Last(r).scope, Last(r).authority}, i.at = j.at + 1,
         Alike(i, j), i.good = j.good, i.plan = j.plan, i.files = j.sha \/ Away(j, T)
  PROVE  Earned(r, i, T)
<1>1. j.at \in Nat
  BY DEF JobType
<1>2. TestsEarned(i)
  BY DEF Earned, TestsEarned, Alike
<1>3. /\ j.at > Last(r).plan <=> i.at > Last(r).plan
      /\ j.at > Last(r).approval <=> i.at > Last(r).approval
      /\ j.at > Last(r).scope <=> i.at > Last(r).scope
      /\ j.at > Last(r).review <=> i.at > Last(r).review
      /\ j.at > Last(r).authority <=> i.at > Last(r).authority
      /\ i.at < Last(r).report /\ i.at # Last(r).review /\ i.at # Last(r).review - 1
  BY <1>1, LastIs, RunsAre
<1>4. PlanEarned(r, i, T)
  BY <1>1, <1>3, LastType DEF Earned, PlanEarned, Alike
<1>5. ScopeEarned(r, i, T)
  BY <1>1, <1>3, LastType DEF Earned, ScopeEarned, Alike, Away
<1>6. ReviewEarned(r, i, T)
  BY <1>1, <1>3, LastType DEF Earned, ReviewEarned, ReviewedBy, Alike
<1>7. AuthorityEarned(r, i, T)
  BY <1>1, <1>3, LastType DEF Earned, AuthorityEarned, Alike, Away
<1>8. DecisionEarned(r, i)
  BY <1>1, <1>3, LastType DEF Earned, DecisionEarned, Alike
<1>9. QED BY <1>2, <1>4, <1>5, <1>6, <1>7, <1>8 DEF Earned

\* check-scope has found the listed files within the plan it holds.
LEMMA ScopePasses ==
  ASSUME NEW r \in Runs, NEW j \in JobType, NEW i \in JobType, NEW S, NEW T, S \subseteq T,
         Earned(r, j, S), j.at = Last(r).scope, i.at = j.at + 1, Alike(i, j),
         i.good = j.good \cup {"scope-policy"}, i.plan = j.plan,
         <<j.files, j.plan>> \in Within
  PROVE  Earned(r, i, T)
<1>1. j.at \in Nat /\ "scope-policy" \in Evaluated
  BY DEF JobType, Evaluated, CheckOf
<1>2. /\ j.at > Last(r).plan /\ i.at > Last(r).plan
      /\ j.at > Last(r).approval /\ i.at > Last(r).approval /\ j.at <= Last(r).review
      /\ i.at > Last(r).scope /\ i.at < Last(r).review - 1
      /\ j.at > Last(r).authority <=> i.at > Last(r).authority
      /\ i.at # Last(r).authority /\ i.at < Last(r).report
  BY <1>1, LastIs, RunsAre
<1>3. TestsEarned(i)
  BY <1>1 DEF Earned, TestsEarned, Alike
<1>4. PlanEarned(r, i, T)
  BY <1>1, <1>2, LastType DEF Earned, PlanEarned, Alike
<1>5. ScopeEarned(r, i, T)
  <2>1. j.final # None => j.plan = j.final
    BY <1>1, <1>2 DEF Earned, PlanEarned
  <2>2. j.files = j.sha \/ Away(j, S)
    BY DEF Earned, ScopeEarned
  <2>3. QED BY <1>1, <1>2, <2>1, <2>2, LastType DEF ScopeEarned, Alike, Away
<1>6. ReviewEarned(r, i, T)
  BY <1>1, <1>2, LastType DEF ReviewEarned
<1>7. AuthorityEarned(r, i, T)
  BY <1>1, <1>2, LastType DEF Earned, AuthorityEarned, Alike, Away
<1>8. DecisionEarned(r, i)
  BY <1>1, <1>2, LastIs, RunsAre DEF Earned, DecisionEarned, Alike
<1>9. QED BY <1>3, <1>4, <1>5, <1>6, <1>7, <1>8 DEF Earned

\* check-human-review: a code owner, enough reviews, and the record.
LEMMA ReviewGoesOn ==
  ASSUME NEW r \in Runs, NEW j \in JobType, NEW i \in JobType, NEW S, NEW T, S \subseteq T,
         Earned(r, j, S), i.at = j.at + 1, Alike(i, j), i.plan = j.plan,
         \/ /\ j.at = Last(r).review - 2 /\ i.good = j.good
            /\ i.sofar /\ PlanOf[j.plan].owner => <<"owned", j.sha>> \in T
         \/ /\ j.at = Last(r).review - 1 /\ i.good = j.good
            /\ i.sofar => j.sofar /\ (j.plan # None => <<"reviewed", j.plan>> \in T)
         \/ /\ j.at = Last(r).review /\ i.good = j.good \cup {"human-review"} /\ j.sofar
  PROVE  Earned(r, i, T)
<1>1. j.at \in Nat /\ "human-review" \in Evaluated
  BY DEF JobType, Evaluated, CheckOf
<1>2. /\ j.at > Last(r).plan /\ i.at > Last(r).plan
      /\ j.at > Last(r).approval /\ i.at > Last(r).approval /\ j.at <= Last(r).review
      /\ j.at > Last(r).scope /\ i.at > Last(r).scope
      /\ j.at > Last(r).authority <=> i.at > Last(r).authority
      /\ i.at # Last(r).authority /\ i.at < Last(r).report
  BY <1>1, LastIs, RunsAre
<1>3. TestsEarned(i)
  BY <1>1 DEF Earned, TestsEarned, Alike
<1>4. PlanEarned(r, i, T)
  BY <1>1, <1>2, LastType DEF Earned, PlanEarned, Alike
<1>5. ScopeEarned(r, i, T)
  BY <1>1, <1>2, LastType DEF Earned, ScopeEarned, Alike, Away
<1>6. ReviewEarned(r, i, T)
  <2>1. j.final # None => j.plan = j.final
    BY <1>1, <1>2 DEF Earned, PlanEarned
  <2>2. QED BY <1>1, <1>2, <2>1, LastType DEF Earned, ReviewEarned, ReviewedBy, Alike
<1>7. AuthorityEarned(r, i, T)
  BY <1>1, <1>2, LastType DEF Earned, AuthorityEarned, Alike, Away
<1>8. DecisionEarned(r, i)
  BY <1>1, <1>2, LastIs, RunsAre DEF Earned, DecisionEarned, Alike
<1>9. QED BY <1>3, <1>4, <1>5, <1>6, <1>7, <1>8 DEF Earned

\* check-validation-authority has found what the run asks for.
LEMMA AuthorityPasses ==
  ASSUME NEW r \in Runs, NEW j \in JobType, NEW i \in JobType, NEW S, NEW T, S \subseteq T,
         Earned(r, j, S), j.at = Last(r).authority, i.at = j.at + 1, Alike(i, j),
         i.good = j.good \cup {"validation-authority"}, i.plan = j.plan,
         j.files \in Authority <=> r # Publish
  PROVE  Earned(r, i, T)
<1>1. j.at \in Nat /\ "validation-authority" \in Evaluated
  BY DEF JobType, Evaluated, CheckOf
<1>2. /\ j.at > Last(r).plan <=> i.at > Last(r).plan
      /\ j.at > Last(r).approval <=> i.at > Last(r).approval
      /\ j.at > Last(r).scope <=> i.at > Last(r).scope
      /\ j.at > Last(r).review <=> i.at > Last(r).review
      /\ i.at # Last(r).scope /\ i.at # Last(r).review /\ i.at # Last(r).review - 1
      /\ i.at > Last(r).authority /\ i.at < Last(r).report
  BY <1>1, LastIs, RunsAre
<1>3. TestsEarned(i)
  BY <1>1 DEF Earned, TestsEarned, Alike
<1>4. PlanEarned(r, i, T)
  BY <1>1, <1>2, LastType DEF Earned, PlanEarned, Alike
<1>5. ScopeEarned(r, i, T)
  BY <1>1, <1>2, LastType DEF Earned, ScopeEarned, Alike, Away
<1>6. ReviewEarned(r, i, T)
  BY <1>1, <1>2, LastType DEF Earned, ReviewEarned, ReviewedBy, Alike
<1>7. AuthorityEarned(r, i, T)
  <2>1. j.files = j.sha \/ Away(j, S)
    BY DEF Earned, AuthorityEarned
  <2>2. QED BY <1>1, <1>2, <2>1 DEF AuthorityEarned, Alike, Away
<1>8. DecisionEarned(r, i)
  BY <1>1, <1>2, LastIs, RunsAre DEF Earned, DecisionEarned, Alike
<1>9. QED BY <1>3, <1>4, <1>5, <1>6, <1>7, <1>8 DEF Earned

\* A check that nothing is claimed of.
LEMMA ControlsPass ==
  ASSUME NEW r \in Runs, NEW j \in JobType, NEW i \in JobType, NEW S, NEW T, S \subseteq T,
         Earned(r, j, S), j.at = (IF r = Publish THEN 15 ELSE 17), i.at = j.at + 1,
         Alike(i, j), i.good = j.good \cup {"repository-controls"}, i.plan = j.plan
  PROVE  Earned(r, i, T)
<1>1. /\ j.at > Last(r).plan /\ i.at > Last(r).plan
      /\ j.at > Last(r).approval /\ i.at > Last(r).approval
      /\ j.at > Last(r).scope /\ i.at > Last(r).scope
      /\ j.at > Last(r).review /\ i.at > Last(r).review
      /\ j.at > Last(r).authority /\ i.at > Last(r).authority
      /\ j.at <= Last(r).report /\ i.at \in Nat
      /\ "repository-controls" \in Evaluated
  BY LastIs, RunsAre DEF Evaluated, CheckOf
<1>2. TestsEarned(i)
  BY <1>1 DEF Earned, TestsEarned, Alike
<1>3. PlanEarned(r, i, T)
  BY <1>1, LastType DEF Earned, PlanEarned, Alike
<1>4. ScopeEarned(r, i, T)
  BY <1>1, LastType DEF Earned, ScopeEarned, Alike, Away
<1>5. ReviewEarned(r, i, T)
  BY <1>1, LastType DEF Earned, ReviewEarned, ReviewedBy, Alike
<1>6. AuthorityEarned(r, i, T)
  BY <1>1, LastType DEF Earned, AuthorityEarned, Alike, Away
<1>7. DecisionEarned(r, i)
  BY <1>1, LastIs, RunsAre DEF Earned, DecisionEarned, Alike
<1>8. QED BY <1>2, <1>3, <1>4, <1>5, <1>6, <1>7 DEF Earned

-----------------------------------------------------------------------------
(* What the others have earned *)

\* A run that the step leaves alone.
LEMMA OthersEarned ==
  ASSUME JobsOK, ClaimsInv, Witness, NEW q \in Runs, job'[q] \in JobType,
         Alike(job'[q], job[q]), job'[q].at = job[q].at, job'[q].good = job[q].good,
         job'[q].plan = job[q].plan, job'[q].files = job[q].files,
         job'[q].sofar = job[q].sofar
  PROVE  Earned(q, job'[q], seen'[q])
<1>1. job[q] \in JobType /\ Earned(q, job[q], seen[q])
  BY DEF JobsOK, ClaimsInv
<1>2. seen'[q] = IF job'[q].at <= 1 THEN {} ELSE Seen(q)
  BY DEF Witness, Seen
<1>3. seen[q] \subseteq seen'[q] \/ job[q].at <= 1
  BY <1>2, SeenIs
<1> HIDE DEF JobType
<1>4. QED BY <1>1, <1>3, KeptEarned

\* The run that goes on has seen what is true as it does.
LEMMA GotoEarned ==
  ASSUME JobsOK, ClaimsInv, Witness, UNCHANGED waiting, NEW r \in Runs, NEW i \in JobType,
         NEW n \in 2 .. Length(r), Goto(r, i, n),
         Earned(r, [i EXCEPT !.at = n], Seen(r))
  PROVE  ClaimsInv'
<1> DEFINE k == [i EXCEPT !.at = n]
<1>1. k.at = n /\ n \in Nat /\ n > 1
  BY DEF JobType
<1>2. job' = [job EXCEPT ![r] = k] /\ queued' = queued
  BY DEF Goto
<1>3. Earned(r, k, Seen(r))
  OBVIOUS
<1> HIDE DEF k
<1>4. job'[r] = k /\ \A q \in Runs \ {r} : job'[q] = job[q]
  BY <1>2 DEF JobsOK
<1>5. seen'[r] = Seen(r)
  BY <1>1, <1>4 DEF Witness, Seen
<1>6. \A q \in Runs : Earned(q, job'[q], seen'[q])
  <2> TAKE q \in Runs
  <2>1. CASE q = r
    BY <1>3, <1>4, <1>5, <2>1
  <2>2. CASE q # r
    BY <1>4, <2>2, OthersEarned DEF JobsOK, Alike
  <2>3. QED BY <2>1, <2>2
<1>7. QED BY <1>2, <1>6 DEF ClaimsInv

LEMMA NothingEarned ==
  ASSUME NEW r \in Runs, NEW T
  PROVE  TestsEarned(NoJob) /\ Earned(r, NoJob, T)
<1>1. TestsEarned(NoJob)
  BY SuiteAssumption DEF TestsEarned, NoJob
<1>2. NoJob.decision = None /\ NoJob.final = None
  BY DEF NoJob
<1>3. QED BY <1>1, <1>2, NoJobType, FreshEarned

LEMMA EndEarned ==
  ASSUME JobsOK, ClaimsInv, Witness, UNCHANGED waiting, NEW r \in Runs,
         NEW f \in BOOLEAN, End(r, f)
  PROVE  ClaimsInv'
<1>0. JobsOK'
  BY EndType
<1>1. CASE r = Publish
  <2> DEFINE v == IF f THEN "other" ELSE "success"
  <2>1. v \in {"success", "other"}
    OBVIOUS
  <2> HIDE DEF v
  <2>2. /\ job' = [q \in Runs |-> IF q = r THEN NoJob ELSE Concluded(job[q], v)]
        /\ queued' = [c \in Commits |-> Concluded(queued[c], v)]
    BY <1>1 DEF End, v
  <2>3. \A q \in Runs : Earned(q, job'[q], seen'[q])
    <3> TAKE q \in Runs
    <3>1. CASE q = r
      BY <2>2, <3>1, NothingEarned
    <3>2. CASE q # r
      <4>1. job'[q] = Concluded(job[q], v) /\ job[q] \in JobType
        BY <2>2, <3>2 DEF JobsOK
      <4>2. QED BY <2>1, <4>1, ConcludedKeeps, OthersEarned DEF Alike
    <3>3. QED BY <3>1, <3>2
  <2>4. \A c \in Commits : queued'[c] # None
                           => TestsEarned(queued'[c]) /\ queued'[c].decision = None
    <3> TAKE c \in Commits
    <3>1. CASE queued[c] = None
      BY <2>2, <3>1 DEF Concluded
    <3>2. CASE queued[c] # None
      <4>1. queued[c] \in JobType /\ TestsEarned(queued[c]) /\ queued[c].decision = None
        BY <3>2 DEF JobsOK, ClaimsInv
      <4>2. queued'[c] = Concluded(queued[c], v)
        BY <2>2
      <4>3. QED BY <2>1, <4>1, <4>2, ConcludedKeeps DEF TestsEarned
    <3>3. QED BY <3>1, <3>2
  <2>5. QED BY <2>3, <2>4 DEF ClaimsInv
<1>2. CASE r # Publish
  <2>1. r \in Commits
    BY <1>2, RunsAre
  <2>2. /\ job' = [job EXCEPT ![r] = IF queued[r] = None THEN NoJob ELSE queued[r]]
        /\ queued' = [queued EXCEPT ![r] = None]
    BY <1>2 DEF End
  <2>3. Earned(r, job'[r], seen'[r])
    <3>1. CASE queued[r] = None
      BY <2>2, <3>1, NothingEarned DEF JobsOK
    <3>2. CASE queued[r] # None
      <4>1. job'[r] = queued[r]
        BY <2>2, <3>2 DEF JobsOK
      <4>2. /\ queued[r] \in JobType /\ queued[r].at = 1
            /\ TestsEarned(queued[r]) /\ queued[r].decision = None
        BY <2>1, <3>2 DEF JobsOK, ClaimsInv
      <4>3. QED BY <1>2, <4>1, <4>2, FreshEarned
    <3>3. QED BY <3>1, <3>2
  <2>4. \A q \in Runs \ {r} : job'[q] = job[q]
    BY <2>2 DEF JobsOK
  <2>5. \A q \in Runs : Earned(q, job'[q], seen'[q])
    BY <2>3, <2>4, OthersEarned DEF JobsOK, Alike
  <2>6. \A c \in Commits : queued'[c] = None \/ queued'[c] = queued[c]
    BY <2>2 DEF JobsOK
  <2>7. QED BY <2>5, <2>6 DEF ClaimsInv
<1>3. QED BY <1>1, <1>2

LEMMA StopEarned ==
  ASSUME JobsOK, ClaimsInv, Witness, UNCHANGED waiting, NEW r \in Runs, Stop(r)
  PROVE  ClaimsInv'
<1>1. CASE r = Publish /\ (At(r, "find") \/ At(r, "comment"))
  <2> DEFINE j == job[r]
             i == [j EXCEPT !.failed = TRUE]
             k == [i EXCEPT !.at = 23]
  <2>1. j \in JobType /\ j.at \in 21 .. 22 /\ Earned(r, j, seen[r])
    BY <1>1, InPlace, PublishAt DEF JobsOK, ClaimsInv
  <2>2. Goto(r, i, StatusStep)
    BY <1>1 DEF Stop
  <2>3. StatusStep = 23 /\ 23 \in 2 .. Length(r)
    BY <1>1 DEF StatusStep, Length
  <2> HIDE DEF j
  <2>4. i \in JobType /\ Alike(i, j) /\ i.good = j.good /\ i.plan = j.plan
    BY <2>1 DEF JobType, Alike
  <2> HIDE DEF i
  <2>5. k \in JobType /\ k.at = 23 /\ Alike(k, i) /\ k.good = i.good /\ k.plan = i.plan
    BY <2>4 DEF JobType, Alike
  <2>6. Earned(r, k, Seen(r))
    <3> HIDE DEF k
    <3>1. Between(r, j.at, k.at)
      BY <1>1, <2>1, <2>5, LastIs DEF Between
    <3>2. QED BY <2>1, <2>4, <2>5, <3>1, SeenIs, OnwardEarned DEF Alike
  <2>7. QED BY <2>2, <2>3, <2>4, <2>6, GotoEarned
<1>2. CASE ~(r = Publish /\ (At(r, "find") \/ At(r, "comment")))
  BY <1>2, EndEarned DEF Stop
<1>3. QED BY <1>1, <1>2

LEMMA TolerableIs ==
  ASSUME JobsOK, NEW r \in Runs, Tolerated(r), job[r].at # 0
  PROVE  FailsTo(r, job[r].at, AfterCheck(r), CheckAt(r, job[r].at))
<1>1. Placed(r) /\ CheckAt(r, job[r].at) # "none"
  BY InPlace DEF Tolerated
<1>2. CASE r = Publish
  <2>1. job[r].at \in 1 .. 15
    BY <1>1, <1>2 DEF Placed, Tolerated, Controls
  <2>2. job[r].at \in 3 .. 15
    BY <1>1, <1>2, <2>1, PublishChecks
  <2>3. CASE job[r].at \in {3, 4, 5, 15}
    BY <1>1, <1>2, <2>1, <2>3, PublishChecks, PublishAfterCheck DEF FailsTo
  <2>4. CASE job[r].at \in 6 .. 8
    BY <1>1, <1>2, <2>1, <2>4, PublishChecks, PublishAfterCheck DEF FailsTo
  <2>5. CASE job[r].at \in 9 .. 11
    BY <1>1, <1>2, <2>1, <2>5, PublishChecks, PublishAfterCheck DEF FailsTo
  <2>6. CASE job[r].at \in 12 .. 14
    BY <1>1, <1>2, <2>1, <2>6, PublishChecks, PublishAfterCheck DEF FailsTo
  <2>7. QED BY <2>2, <2>3, <2>4, <2>5, <2>6
<1>3. CASE r \in Commits
  <2>1. job[r].at \in 1 .. 21 /\ r # Publish
    BY <1>1, <1>3, RunsAre DEF Placed
  <2>2. job[r].at \in 4 .. 6
    BY <1>3, <2>1, MaintenanceChecks DEF Tolerated
  <2>3. QED BY <1>1, <1>3, <2>1, <2>2, MaintenanceChecks, MaintenanceAfterCheck DEF FailsTo
<1>4. QED BY <1>2, <1>3, RunsAre

\* What is left of a run's files when a check is recorded, and where it goes.
LEMMA RecordedIs ==
  ASSUME NEW j \in JobType, NEW good \in SUBSET (Evaluated \cup Suite)
  PROVE  LET i == [j EXCEPT !.good = good, !.files = None, !.sofar = FALSE]
         IN  /\ i \in JobType /\ Alike(i, j) /\ i.good = good /\ i.plan = j.plan
             /\ i.at = j.at
<1> DEFINE i == [j EXCEPT !.good = good, !.files = None, !.sofar = FALSE]
<1>1. i \in JobType
  BY DEF JobType
<1>2. Alike(i, j) /\ i.good = good /\ i.plan = j.plan /\ i.at = j.at
  BY DEF JobType, Alike
<1>3. QED BY <1>1, <1>2

LEMMA WentTo ==
  ASSUME NEW j \in JobType, NEW n \in 0 .. 25
  PROVE  LET i == [j EXCEPT !.at = n]
         IN  /\ i \in JobType /\ Alike(i, j) /\ i.good = j.good /\ i.plan = j.plan
             /\ i.at = n /\ i.files = j.files /\ i.sofar = j.sofar
<1> DEFINE i == [j EXCEPT !.at = n]
<1>1. i \in JobType
  BY DEF JobType
<1>2. /\ Alike(i, j) /\ i.good = j.good /\ i.plan = j.plan
      /\ i.at = n /\ i.files = j.files /\ i.sofar = j.sofar
  BY DEF JobType, Alike
<1>3. QED BY <1>1, <1>2

\* A check fails: its record is not among the passed ones any more.
LEMMA FailEarned ==
  ASSUME JobsOK, ClaimsInv, Witness, UNCHANGED waiting, NEW r \in Runs, job[r].at # 0,
         NEW j \in JobType, FailCheck(r, j), j.at = job[r].at, j.good = job[r].good,
         j.sha = job[r].sha, j.final = job[r].final, j.decision = job[r].decision,
         Tolerated(r) => /\ j.candidate = job[r].candidate \/ (r = Publish /\ j.at \in {3, 4})
                         /\ j.plan = job[r].plan \/ (r = Publish /\ j.at <= 5)
  PROVE  ClaimsInv'
<1>1. CASE Tolerated(r)
  <2> DEFINE id == CheckAt(r, job[r].at)
             i == [j EXCEPT !.good = j.good \ {id}, !.files = None, !.sofar = FALSE]
             n == AfterCheck(r)
             k == [i EXCEPT !.at = n]
  <2>1. Goto(r, i, n)
    BY <1>1 DEF FailCheck
  <2>2. FailsTo(r, j.at, n, id)
    BY <1>1, TolerableIs
  <2>3. n \in 2 .. Length(r)
    BY <2>2, RunsAre DEF FailsTo, Length
  <2> HIDE DEF n, id
  <2>4. i \in JobType /\ Alike(i, j) /\ i.good = j.good \ {id} /\ i.plan = j.plan
    <3>1. j.good \ {id} \in SUBSET (Evaluated \cup Suite)
      BY DEF JobType
    <3>2. QED BY <3>1, RecordedIs
  <2> HIDE DEF i
  <2>5. k \in JobType /\ k.at = n /\ Alike(k, i) /\ k.good = i.good /\ k.plan = i.plan
    <3>1. n \in 0 .. 25
      BY <2>3 DEF Length
    <3>2. QED BY <2>4, <3>1, WentTo
  <2>6. Earned(r, k, Seen(r))
    <3> HIDE DEF k
    <3>1. Earned(r, job[r], seen[r]) /\ job[r] \in JobType
      BY DEF ClaimsInv, JobsOK
    <3>2. QED BY <1>1, <2>2, <2>4, <2>5, <3>1, SeenIs, FailureEarned DEF Alike
  <2>7. QED BY <2>1, <2>3, <2>4, <2>6, GotoEarned
<1>2. CASE ~Tolerated(r)
  BY <1>2, StopEarned DEF FailCheck
<1>3. QED BY <1>1, <1>2

\* A script that asks once more, or changes nothing the run relies on.
LEMMA ContinueEarned ==
  ASSUME JobsOK, ClaimsInv, Witness, UNCHANGED waiting, NEW r \in Runs,
         NEW j \in JobType, NEW n \in 2 .. Length(r), Goto(r, j, n),
         Alike(j, job[r]), j.good = job[r].good, Between(r, job[r].at, n),
         \/ j.plan = job[r].plan \/ n <= Last(r).approval \/ n > Last(r).review
  PROVE  ClaimsInv'
<1> DEFINE k == [j EXCEPT !.at = n]
<1>1. k \in JobType /\ k.at = n /\ Alike(k, j) /\ k.good = j.good /\ k.plan = j.plan
  <2>1. n \in 0 .. 25
    BY DEF Length
  <2>2. QED BY <2>1, WentTo
<1>2. Earned(r, k, Seen(r))
  <2> HIDE DEF k
  <2>1. Earned(r, job[r], seen[r]) /\ job[r] \in JobType
    BY DEF ClaimsInv, JobsOK
  <2>2. Alike(k, job[r]) /\ k.good = job[r].good /\ Between(r, job[r].at, k.at)
    BY <1>1 DEF Alike
  <2>3. \/ k.plan = job[r].plan \/ k.at <= Last(r).approval \/ k.at > Last(r).review
    BY <1>1
  <2>4. QED BY <1>1, <2>1, <2>2, <2>3, SeenIs, OnwardEarned
<1>3. QED BY <1>2, GotoEarned

\* A check passes, and the run has seen what its record claims.
LEMMA PassEarned ==
  ASSUME JobsOK, ClaimsInv, Witness, UNCHANGED waiting, NEW r \in Runs,
         NEW j \in JobType, PassCheck(r, j), j.at = job[r].at,
         NEW id \in Evaluated, CheckAt(r, j.at) = id, NEW n \in 2 .. Length(r),
         AfterCheck(r) = n, ~(r = Publish /\ j.at > Controls),
         \A i \in JobType :
           Alike(i, j) /\ i.good = j.good \cup {id} /\ i.plan = j.plan /\ i.at = n
             => Earned(r, i, Seen(r))
  PROVE  ClaimsInv'
<1> DEFINE good == j.good \cup {id}
           i == [j EXCEPT !.good = good, !.files = None, !.sofar = FALSE]
           k == [i EXCEPT !.at = n]
<1>1. Goto(r, i, n)
  BY DEF PassCheck
<1>2. good \in SUBSET (Evaluated \cup Suite) /\ n \in 0 .. 25
  BY DEF JobType, Length
<1>3. i \in JobType /\ Alike(i, j) /\ i.good = good /\ i.plan = j.plan
  <2> HIDE DEF good
  <2>1. QED BY <1>2, RecordedIs
<1> HIDE DEF i
<1>4. k \in JobType /\ Alike(k, i) /\ k.good = i.good /\ k.plan = i.plan /\ k.at = n
  BY <1>2, <1>3, WentTo
<1>5. Earned(r, k, Seen(r))
  <2> HIDE DEF k
  <2>1. QED BY <1>3, <1>4 DEF Alike
<1>6. QED BY <1>1, <1>3, <1>5, GotoEarned

\* Where the scripts of the checks have their turn.
LEMMA LastAt ==
  ASSUME JobsOK, NEW r \in Runs
  PROVE  /\ At(r, "planAgain") <=> \/ job[r].at = Last(r).plan
                                   \/ (r = Publish /\ job[r].at = 19)
         /\ At(r, "plan") <=> \/ job[r].at = Last(r).plan - 1
                              \/ (r = Publish /\ job[r].at = 18)
         /\ At(r, "approval") <=> job[r].at = Last(r).approval
         /\ At(r, "scopeAgain") <=> job[r].at = Last(r).scope
         /\ At(r, "scopeFiles") <=> job[r].at = Last(r).scope - 1
         /\ At(r, "scope") <=> job[r].at = Last(r).scope - 2
         /\ At(r, "reviewAgain") <=> job[r].at = Last(r).review
         /\ At(r, "reviewList") <=> job[r].at = Last(r).review - 1
         /\ At(r, "review") <=> job[r].at = Last(r).review - 2
         /\ At(r, "authorityAgain") <=> job[r].at = Last(r).authority
         /\ At(r, "authorityFiles") <=> job[r].at = Last(r).authority - 1
         /\ At(r, "authority") <=> job[r].at = Last(r).authority - 2
         /\ At(r, "controls") <=> job[r].at = (IF r = Publish THEN 15 ELSE 17)
         /\ At(r, "report") <=> job[r].at = Last(r).report
<1>1. CASE r = Publish
  BY <1>1, InPlace, PublishAt, LastIs
<1>2. CASE r \in Commits
  <2>1. r # Publish
    BY <1>2, RunsAre
  <2>2. QED BY <1>2, <2>1, InPlace, MaintenanceAt, LastIs
<1>3. QED BY <1>1, <1>2, RunsAre

\* The steps that end the recorded checks.
LEMMA LastCheck ==
  ASSUME JobsOK, NEW r \in Runs
  PROVE  /\ job[r].at = Last(r).plan =>
              CheckAt(r, job[r].at) = "plan-contract" /\ AfterCheck(r) = job[r].at + 1
         /\ job[r].at = Last(r).approval =>
              CheckAt(r, job[r].at) = "plan-approval" /\ AfterCheck(r) = job[r].at + 1
         /\ job[r].at = Last(r).scope =>
              CheckAt(r, job[r].at) = "scope-policy" /\ AfterCheck(r) = job[r].at + 1
         /\ job[r].at = Last(r).review =>
              CheckAt(r, job[r].at) = "human-review" /\ AfterCheck(r) = job[r].at + 1
         /\ job[r].at = Last(r).authority =>
              CheckAt(r, job[r].at) = "validation-authority" /\ AfterCheck(r) = job[r].at + 1
         /\ job[r].at = (IF r = Publish THEN 15 ELSE 17) =>
              CheckAt(r, job[r].at) = "repository-controls" /\ AfterCheck(r) = job[r].at + 1
<1>1. Placed(r)
  BY InPlace
<1>2. CASE r = Publish
  <2> SUFFICES ASSUME job[r].at \in {4, 5, 8, 11, 14, 15} PROVE
        /\ AfterCheck(r) = job[r].at + 1
        /\ CheckAt(r, job[r].at) =
             CASE job[r].at = 4 -> "plan-contract" [] job[r].at = 5 -> "plan-approval"
               [] job[r].at = 8 -> "scope-policy" [] job[r].at = 11 -> "human-review"
               [] job[r].at = 14 -> "validation-authority"
               [] job[r].at = 15 -> "repository-controls"
    BY <1>2, LastIs
  <2>1. job[r].at \in 1 .. 25
    OBVIOUS
  <2>2. CheckAt(r, job[r].at) =
          CASE job[r].at \in {3, 4, 18, 19} -> "plan-contract"
            [] job[r].at = 5 -> "plan-approval"
            [] job[r].at \in 6 .. 8 -> "scope-policy" [] job[r].at \in 9 .. 11 -> "human-review"
            [] job[r].at \in 12 .. 14 -> "validation-authority"
            [] job[r].at = 15 -> "repository-controls" [] OTHER -> "none"
    BY <1>2, <2>1, PublishChecks
  <2>3. CASE job[r].at \in {4, 5, 15}
    BY <1>1, <1>2, <2>2, <2>3, PublishAfterCheck
  <2>4. CASE job[r].at \in {8, 11, 14}
    BY <1>1, <1>2, <2>2, <2>4, PublishAfterCheck
  <2>5. QED BY <2>3, <2>4
<1>3. CASE r \in Commits
  <2> SUFFICES ASSUME job[r].at \in {6, 9, 10, 13, 16, 17} PROVE
        /\ AfterCheck(r) = job[r].at + 1
        /\ CheckAt(r, job[r].at) =
             CASE job[r].at = 9 -> "plan-contract" [] job[r].at = 10 -> "plan-approval"
               [] job[r].at = 13 -> "scope-policy" [] job[r].at = 16 -> "human-review"
               [] job[r].at = 6 -> "validation-authority"
               [] job[r].at = 17 -> "repository-controls"
    BY <1>3, LastIs, RunsAre
  <2>1. job[r].at \in 1 .. 21
    OBVIOUS
  <2>2. CheckAt(r, job[r].at) =
          CASE job[r].at \in 4 .. 6 -> "validation-authority"
            [] job[r].at \in 8 .. 9 -> "plan-contract"
            [] job[r].at = 10 -> "plan-approval" [] job[r].at \in 11 .. 13 -> "scope-policy"
            [] job[r].at \in 14 .. 16 -> "human-review"
            [] job[r].at = 17 -> "repository-controls" [] OTHER -> "none"
    BY <1>3, <2>1, MaintenanceChecks
  <2>3. CASE job[r].at \in {9, 10, 17}
    BY <1>1, <1>3, <2>2, <2>3, MaintenanceAfterCheck
  <2>4. CASE job[r].at \in {6, 13, 16}
    BY <1>1, <1>3, <2>2, <2>4, MaintenanceAfterCheck
  <2>5. QED BY <2>3, <2>4
<1>4. QED BY <1>2, <1>3, RunsAre

LEMMA BetweenIs ==
  ASSUME NEW r \in Runs, NEW m,
         \/ r = Publish /\ m \in {1, 2, 3, 6, 12, 15, 16, 17, 18, 19, 21, 22, 23, 24}
         \/ r \in Commits /\ m \in {1, 2, 3, 4, 7, 8, 11, 17, 19, 20}
  PROVE  Between(r, m, m + 1) /\ m + 1 \in 2 .. Length(r)
<1>1. CASE r = Publish /\ m \in {1, 2, 3, 6, 12, 15, 16, 17, 18, 19, 21, 22, 23, 24}
  BY <1>1, LastIs DEF Between, Length
<1>2. CASE r \in Commits /\ m \in {1, 2, 3, 4, 7, 8, 11, 17, 19, 20}
  BY <1>2, LastIs, RunsAre DEF Between, Length
<1>3. QED BY <1>1, <1>2

-----------------------------------------------------------------------------
(* The scripts *)

\* A step of run r, with everything known before it.
Ready(r) == JobsOK /\ RestOK /\ ClaimsInv /\ Witness /\ r \in Runs

LEMMA ReadyMeans ==
  ASSUME NEW r, Ready(r)
  PROVE  /\ JobsOK /\ RestOK /\ ClaimsInv /\ Witness /\ r \in Runs
         /\ job[r] \in JobType /\ Earned(r, job[r], seen[r]) /\ Placed(r)
         /\ job[r].at \in 0 .. 25
         /\ Alike(job[r], job[r])
         /\ Reads => UNCHANGED waiting
  BY InPlace DEF Ready, JobsOK, ClaimsInv, Alike, Reads, JobType

\* A script goes on to the next step, its files apart.
LEMMA NextEarned ==
  ASSUME NEW r, Ready(r), UNCHANGED waiting, NEW j \in JobType, Continue(r, j),
         Alike(j, job[r]), j.at = job[r].at, j.good = job[r].good,
         \/ r = Publish /\ j.at \in {1, 2, 3, 6, 12, 15, 16, 17, 18, 19, 21, 22, 23, 24}
         \/ r \in Commits /\ j.at \in {1, 2, 3, 4, 7, 8, 11, 17, 19, 20},
         \/ j.plan = job[r].plan
         \/ r = Publish /\ j.at \in {3, 18}
         \/ r \in Commits /\ j.at = 8
  PROVE  ClaimsInv'
<1>1. JobsOK /\ ClaimsInv /\ Witness /\ r \in Runs
  BY ReadyMeans
<1>2. Goto(r, j, j.at + 1)
  BY DEF Continue
<1>3. Between(r, j.at, j.at + 1) /\ j.at + 1 \in 2 .. Length(r)
  BY <1>1, BetweenIs
<1>4. \/ j.plan = job[r].plan \/ j.at + 1 <= Last(r).approval \/ j.at + 1 > Last(r).review
  BY <1>1, LastIs, RunsAre
<1>5. QED BY <1>1, <1>2, <1>3, <1>4, ContinueEarned

LEMMA IdentifyEarned ==
  ASSUME NEW r, Ready(r), Identify(r)
  PROVE  ClaimsInv'
<1>1. \/ r = Publish /\ job[r].at \in {1, 16}
      \/ r \in Commits /\ job[r].at = 3
  BY ReadyMeans, RunsAre, PublishAt, MaintenanceAt DEF Identify
<1>2. Continue(r, job[r]) \/ Stop(r)
  BY DEF Identify
<1>3. UNCHANGED waiting
  BY ReadyMeans DEF Identify
<1>4. QED BY <1>1, <1>2, <1>3, ReadyMeans, NextEarned, StopEarned

LEMMA ResolvePrTaskEarned ==
  ASSUME NEW r, Ready(r), ResolvePrTask(r)
  PROVE  ClaimsInv'
<1> DEFINE i == [job[r] EXCEPT !.contract = issue]
<1>1. \/ r = Publish /\ job[r].at \in {2, 17}
      \/ r \in Commits /\ job[r].at = 7
  BY ReadyMeans, RunsAre, PublishAt, MaintenanceAt DEF ResolvePrTask
<1>2. i \in JobType /\ Alike(i, job[r]) /\ i.at = job[r].at /\ i.good = job[r].good
      /\ i.plan = job[r].plan
  BY ReadyMeans DEF JobType, RestOK, Alike
<1>3. Continue(r, i) \/ Stop(r)
  BY DEF ResolvePrTask
<1>4. UNCHANGED waiting
  BY ReadyMeans DEF ResolvePrTask
<1> HIDE DEF i
<1>5. QED BY <1>1, <1>2, <1>3, <1>4, ReadyMeans, NextEarned, StopEarned

LEMMA CheckPlanEarned ==
  ASSUME NEW r, Ready(r), CheckPlan(r)
  PROVE  ClaimsInv'
<1> DEFINE j == job[r]
           i == [j EXCEPT !.plan = body]
           k == [j EXCEPT !.candidate = j.plan]
<1>1. \/ r = Publish /\ j.at \in {3, 18}
      \/ r \in Commits /\ j.at = 8
  BY ReadyMeans, RunsAre, PublishAt, MaintenanceAt DEF CheckPlan
<1>2. i \in JobType /\ Alike(i, j) /\ i.at = j.at /\ i.good = j.good
  BY ReadyMeans DEF JobType, RestOK, Alike
<1>3. /\ k \in JobType /\ k.at = j.at /\ k.good = j.good /\ k.plan = j.plan
      /\ k.sha = j.sha /\ k.final = j.final /\ k.decision = j.decision
  BY ReadyMeans DEF JobType
<1>4. Continue(r, i) \/ FailCheck(r, k)
  BY DEF CheckPlan
<1>5. UNCHANGED waiting
  BY ReadyMeans DEF CheckPlan
<1> HIDE DEF i, k
<1>6. CASE Continue(r, i)
  BY <1>1, <1>2, <1>5, <1>6, ReadyMeans, NextEarned
<1>7. CASE FailCheck(r, k)
  <2>1. j.at # 0
    BY <1>1
  <2>2. Tolerated(r) => r = Publish /\ k.at \in {3, 4}
    <3>1. r = Publish /\ j.at = 18 => ~Tolerated(r)
      BY DEF Tolerated, Controls
    <3>2. r \in Commits /\ j.at = 8 => ~Tolerated(r)
      BY RunsAre, MaintenanceChecks DEF Tolerated
    <3>3. QED BY <1>1, <1>3, <3>1, <3>2
  <2>3. QED BY <1>3, <1>5, <1>7, <2>1, <2>2, ReadyMeans, FailEarned
<1>8. QED BY <1>4, <1>6, <1>7

LEMMA CheckScopeEarned ==
  ASSUME NEW r, Ready(r), CheckScope(r) \/ CheckAuthority(r)
  PROVE  ClaimsInv'
<1>1. \/ r = Publish /\ job[r].at \in {6, 12}
      \/ r \in Commits /\ job[r].at \in {4, 11}
  BY ReadyMeans, RunsAre, PublishAt, MaintenanceAt DEF CheckScope, CheckAuthority
<1>2. Continue(r, job[r]) \/ FailCheck(r, job[r])
  BY NextOrFailIs DEF CheckScope, CheckAuthority
<1>3. UNCHANGED waiting
  BY ReadyMeans DEF CheckScope, CheckAuthority
<1>4. job[r].at # 0
  BY <1>1
<1>5. QED BY <1>1, <1>2, <1>3, <1>4, ReadyMeans, NextEarned, FailEarned

LEMMA ListFilesEarned ==
  ASSUME NEW r, Ready(r), ListFiles(r)
  PROVE  ClaimsInv'
<1> DEFINE j == job[r]
           i == [j EXCEPT !.files = head]
           n == j.at + 1
           k == [i EXCEPT !.at = n]
<1>1. n \in {Last(r).scope, Last(r).authority} /\ n \in 2 .. Length(r)
  <2>1. j.at = Last(r).scope - 1 \/ j.at = Last(r).authority - 1
    BY ReadyMeans, LastAt DEF ListFiles
  <2>2. QED BY <2>1, ReadyMeans, LastIs, RunsAre DEF Length
<1>2. /\ i \in JobType /\ Alike(i, j) /\ i.at = j.at /\ i.good = j.good
      /\ i.plan = j.plan /\ i.files = head
  BY ReadyMeans DEF JobType, RestOK, Alike
<1>3. Goto(r, i, n) /\ UNCHANGED waiting
  BY <1>2, ReadyMeans DEF ListFiles, Continue
<1>4. n \in 0 .. 25
  BY <1>1 DEF Length
<1> HIDE DEF i
<1>5. /\ k \in JobType /\ Alike(k, i) /\ k.good = i.good /\ k.plan = i.plan
      /\ k.at = n /\ k.files = i.files
  <2> HIDE DEF n
  <2>1. QED BY <1>2, <1>4, WentTo
<1>6. Earned(r, k, Seen(r))
  <2>1. k.files = j.sha \/ Away(j, Seen(r))
    BY <1>2, <1>5, SeenIs
  <2>2. Alike(k, j) /\ k.good = j.good /\ k.plan = j.plan /\ k.at = j.at + 1
    BY <1>2, <1>5 DEF Alike
  <2> HIDE DEF k
  <2>3. QED BY <1>1, <1>5, <2>1, <2>2, ReadyMeans, SeenIs, FilesListed
<1>7. QED BY <1>1, <1>2, <1>3, <1>6, ReadyMeans, GotoEarned

LEMMA CheckScopeAgainEarned ==
  ASSUME NEW r, Ready(r), CheckScopeAgain(r)
  PROVE  ClaimsInv'
<1> DEFINE j == job[r]
<1>1. j.at = Last(r).scope /\ UNCHANGED waiting
  BY ReadyMeans, LastAt DEF CheckScopeAgain
<1>2. /\ CheckAt(r, j.at) = "scope-policy" /\ AfterCheck(r) = j.at + 1
      /\ "scope-policy" \in Evaluated
  BY <1>1, ReadyMeans, LastCheck DEF Evaluated, CheckOf
<1>3. j.at + 1 \in 2 .. Length(r) /\ ~(r = Publish /\ j.at > Controls) /\ j.at # 0
  BY <1>1, ReadyMeans, LastIs, RunsAre DEF Length, Controls
<1>4. CASE PassCheck(r, j) /\ <<j.files, j.plan>> \in Within
  <2>1. \A i \in JobType :
          Alike(i, j) /\ i.good = j.good \cup {"scope-policy"} /\ i.plan = j.plan
            /\ i.at = j.at + 1 => Earned(r, i, Seen(r))
    BY <1>1, <1>4, ReadyMeans, SeenIs, ScopePasses
  <2> HIDE DEF j
  <2>2. QED BY <1>1, <1>2, <1>3, <1>4, <2>1, ReadyMeans, PassEarned DEF j
<1>5. CASE FailCheck(r, j)
  BY <1>1, <1>3, <1>5, ReadyMeans, FailEarned
<1>6. QED BY <1>4, <1>5 DEF CheckScopeAgain, PassOrFail

LEMMA CheckPlanAgainEarned ==
  ASSUME NEW r, Ready(r), CheckPlanAgain(r)
  PROVE  ClaimsInv'
<1> DEFINE j == job[r]
<1>1. UNCHANGED waiting /\ (j.at = Last(r).plan \/ (r = Publish /\ j.at = 19))
  BY ReadyMeans, LastAt DEF CheckPlanAgain
<1>2. CASE j.at = Last(r).plan
  <2> DEFINE i == [j EXCEPT !.candidate = j.plan]
  <2>1. /\ CheckAt(r, j.at) = "plan-contract" /\ AfterCheck(r) = j.at + 1
        /\ "plan-contract" \in Evaluated
    BY <1>2, ReadyMeans, LastCheck DEF Evaluated, CheckOf
  <2>2. /\ j.at + 1 \in 2 .. Length(r) /\ ~(r = Publish /\ j.at > Controls) /\ j.at # 0
        /\ (r = Publish => j.at = 4)
    BY <1>2, ReadyMeans, LastIs, RunsAre DEF Length, Controls
  <2>3. /\ i \in JobType /\ i.at = j.at /\ i.good = j.good /\ i.plan = j.plan
        /\ i.sha = j.sha /\ i.final = j.final /\ i.decision = j.decision
        /\ i.candidate = j.plan
    BY ReadyMeans DEF JobType
  <2>4. PassOrFail(r, i, OnHead(r) /\ body = i.plan)
    BY <2>2 DEF CheckPlanAgain
  <2> HIDE DEF i
  <2>5. CASE PassCheck(r, i) /\ body = j.plan
    <3>1. j.plan # None => <<"described", j.plan>> \in Seen(r)
      BY <2>5, ReadyMeans, SeenIs DEF RestOK
    <3>2. \A k \in JobType :
            Alike(k, i) /\ k.good = i.good \cup {"plan-contract"} /\ k.plan = i.plan
              /\ k.at = j.at + 1 => Earned(r, k, Seen(r))
      <4> SUFFICES ASSUME NEW k \in JobType, Alike(k, i), k.good = i.good \cup {"plan-contract"},
                          k.plan = i.plan, k.at = j.at + 1
                   PROVE  Earned(r, k, Seen(r))
        OBVIOUS
      <4>1. /\ k.sha = j.sha /\ k.final = j.final /\ k.decision = j.decision
            /\ k.good = j.good \cup {"plan-contract"} /\ k.candidate = j.plan
            /\ k.plan = j.plan
        BY <2>3 DEF Alike
      <4>2. QED BY <1>2, <3>1, <4>1, ReadyMeans, SeenIs, PlanPasses
    <3> HIDE DEF j
    <3>3. QED BY <1>1, <2>1, <2>2, <2>3, <2>5, <3>2, ReadyMeans, PassEarned DEF j
  <2>6. CASE FailCheck(r, i)
    <3>1. Tolerated(r) => r = Publish
      BY <1>2, <2>1 DEF Tolerated
    <3>2. QED BY <1>1, <2>2, <2>3, <2>6, <3>1, ReadyMeans, FailEarned
  <2>7. QED BY <2>3, <2>4, <2>5, <2>6 DEF PassOrFail
<1>3. CASE r = Publish /\ j.at = 19
  <2> DEFINE i == [j EXCEPT !.good = j.good, !.files = None, !.sofar = FALSE]
  <2>1. AfterCheck(r) = 20
    BY <1>3, ReadyMeans, PublishChecks, PublishAfterCheck
  <2>2. PassCheck(r, j) \/ FailCheck(r, j)
    BY <1>3, PassOrFailIs DEF CheckPlanAgain, Controls
  <2>3. CASE PassCheck(r, j)
    <3>1. Goto(r, i, 20)
      BY <1>3, <2>1, <2>3 DEF PassCheck, Controls
    <3>2. i \in JobType /\ Alike(i, j) /\ i.good = j.good /\ i.plan = j.plan
      <4>1. j.good \in SUBSET (Evaluated \cup Suite) /\ j \in JobType
        BY ReadyMeans DEF JobType
      <4> HIDE DEF j
      <4>2. QED BY <4>1, RecordedIs
    <3> HIDE DEF i
    <3>3. Between(r, 19, 20) /\ 20 \in 2 .. Length(r)
      BY <1>3, ReadyMeans, LastIs DEF Between, Length
    <3>4. QED BY <1>1, <1>3, <3>1, <3>2, <3>3, ReadyMeans, ContinueEarned
  <2>4. CASE FailCheck(r, j)
    <3>1. ~Tolerated(r)
      BY <1>3 DEF Tolerated, Controls
    <3>2. QED BY <1>1, <2>4, <3>1, ReadyMeans, StopEarned DEF FailCheck
  <2>5. QED BY <2>2, <2>3, <2>4
<1>4. QED BY <1>1, <1>2, <1>3

LEMMA FetchApprovedPlanEarned ==
  ASSUME NEW r, Ready(r), FetchApprovedPlan(r)
  PROVE  ClaimsInv'
<1> DEFINE j == job[r]
           found == approved # None /\ PlanOf[approved].contract = issue
           p == IF found THEN approved ELSE None
           i == [j EXCEPT !.contract = issue, !.plan = p]
           k == [i EXCEPT !.final = approved]
<1>1. j.at = Last(r).approval /\ UNCHANGED waiting
  BY ReadyMeans, LastAt DEF FetchApprovedPlan
<1>2. /\ CheckAt(r, j.at) = "plan-approval" /\ AfterCheck(r) = j.at + 1
      /\ "plan-approval" \in Evaluated
  BY <1>1, ReadyMeans, LastCheck DEF Evaluated, CheckOf
<1>3. /\ j.at + 1 \in 2 .. Length(r) /\ ~(r = Publish /\ j.at > Controls) /\ j.at # 0
      /\ (r = Publish => j.at = 5)
  BY <1>1, ReadyMeans, LastIs, RunsAre DEF Length, Controls
<1>4. p \in Plans \cup {None} /\ approved \in Plans \cup {None} /\ issue \in Contracts
  BY ReadyMeans DEF RestOK
<1>5. \/ FailCheck(r, j) \/ FailCheck(r, i)
      \/ (PassCheck(r, k) /\ found /\ approved = j.candidate)
  BY DEF FetchApprovedPlan
<1>6. found => <<"approved", approved>> \in Seen(r) /\ p = approved
  BY <1>4, SeenIs
<1> HIDE DEF found, p
<1>7. /\ i \in JobType /\ Alike(i, j) /\ i.at = j.at /\ i.good = j.good /\ i.plan = p
  BY <1>4, ReadyMeans DEF JobType, Alike
<1>8. Tolerated(r) => r = Publish
  BY <1>2 DEF Tolerated
<1> HIDE DEF i
<1>9. /\ k \in JobType /\ k.at = i.at /\ k.good = i.good /\ k.plan = i.plan
      /\ k.final = approved /\ k.candidate = i.candidate /\ k.sha = i.sha
      /\ k.decision = i.decision
  BY <1>4, <1>7 DEF JobType
<1> HIDE DEF k
<1>10. CASE PassCheck(r, k) /\ found /\ approved = j.candidate
  <2>1. \A q \in JobType :
          Alike(q, k) /\ q.good = k.good \cup {"plan-approval"} /\ q.plan = k.plan
            /\ q.at = j.at + 1 => Earned(r, q, Seen(r))
    <3> SUFFICES ASSUME NEW q \in JobType, Alike(q, k), q.good = k.good \cup {"plan-approval"},
                        q.plan = k.plan, q.at = j.at + 1
                 PROVE  Earned(r, q, Seen(r))
      OBVIOUS
    <3>1. /\ q.sha = j.sha /\ q.decision = j.decision /\ q.good = j.good \cup {"plan-approval"}
          /\ q.candidate = j.candidate /\ q.plan = j.candidate /\ q.final = j.candidate
      BY <1>6, <1>7, <1>9, <1>10 DEF Alike
    <3>2. <<"approved", j.candidate>> \in Seen(r)
      BY <1>6, <1>10
    <3>3. QED BY <1>1, <3>1, <3>2, ReadyMeans, SeenIs, ApprovalPasses
  <2> HIDE DEF j
  <2>2. k.at = job[r].at /\ CheckAt(r, k.at) = "plan-approval"
    BY <1>2, <1>7, <1>9 DEF j
  <2>3. QED BY <1>1, <1>2, <1>3, <1>9, <1>10, <2>1, <2>2, ReadyMeans, PassEarned DEF j
<1>11. CASE FailCheck(r, j)
  BY <1>1, <1>3, <1>11, ReadyMeans, FailEarned
<1>12. CASE FailCheck(r, i)
  BY <1>1, <1>3, <1>7, <1>8, <1>12, ReadyMeans, FailEarned DEF Alike
<1>13. QED BY <1>5, <1>10, <1>11, <1>12

\* A step of check-human-review that goes on with what it has found so far.
LEMMA ReviewStepEarned ==
  ASSUME NEW r, Ready(r), UNCHANGED waiting, NEW b \in BOOLEAN,
         Continue(r, [job[r] EXCEPT !.sofar = b]),
         \/ /\ job[r].at = Last(r).review - 2
            /\ b /\ PlanOf[job[r].plan].owner => <<"owned", job[r].sha>> \in Seen(r)
         \/ /\ job[r].at = Last(r).review - 1
            /\ b => job[r].sofar
            /\ b /\ job[r].plan # None => <<"reviewed", job[r].plan>> \in Seen(r)
  PROVE  ClaimsInv'
<1> DEFINE j == job[r]
           i == [j EXCEPT !.sofar = b]
           n == j.at + 1
           k == [i EXCEPT !.at = n]
<1>1. j \in JobType /\ n \in 2 .. Length(r)
  BY ReadyMeans, LastIs, RunsAre DEF Length
<1>2. n \in 0 .. 25
  BY <1>1 DEF Length
<1> HIDE DEF j
<1>3. /\ i \in JobType /\ Alike(i, j) /\ i.at = j.at /\ i.good = j.good
      /\ i.plan = j.plan /\ i.sofar = b
  BY <1>1 DEF JobType, Alike
<1>4. Goto(r, i, n)
  BY <1>3 DEF Continue, j
<1> HIDE DEF i, n
<1>5. /\ k \in JobType /\ Alike(k, i) /\ k.good = i.good /\ k.plan = i.plan
      /\ k.at = n /\ k.sofar = i.sofar
  BY <1>2, <1>3, WentTo
<1> HIDE DEF k
<1>6. Earned(r, j, seen[r]) /\ r \in Runs /\ seen[r] \subseteq Seen(r)
  BY ReadyMeans, SeenIs DEF j
<1>7. Alike(k, j) /\ k.good = j.good /\ k.plan = j.plan /\ k.sofar = b
  BY <1>3, <1>5 DEF Alike
<1>8. k.at = j.at + 1
  BY <1>5 DEF n
<1>9. Earned(r, k, Seen(r))
  <2>1. CASE j.at = Last(r).review - 2
    <3>1. b /\ PlanOf[j.plan].owner => <<"owned", j.sha>> \in Seen(r)
      BY <1>6, <2>1, LastType DEF j
    <3>2. QED BY <1>1, <1>5, <1>6, <1>7, <1>8, <2>1, <3>1, ReviewGoesOn
  <2>2. CASE j.at = Last(r).review - 1
    BY <1>1, <1>5, <1>6, <1>7, <1>8, <2>2, LastType, ReviewGoesOn DEF j
  <2>3. QED BY <2>1, <2>2 DEF j
<1>10. QED BY <1>1, <1>3, <1>4, <1>9, ReadyMeans, GotoEarned DEF k

LEMMA CheckHumanReviewEarned ==
  ASSUME NEW r, Ready(r), CheckHumanReview(r)
  PROVE  ClaimsInv'
<1> DEFINE j == job[r]
           decided == j.plan # None /\ (PlanOf[j.plan].owner
                                        => \E p \in CodeOwners : reviews[p] # None)
           i == [j EXCEPT !.sofar = decided]
<1>1. j.at = Last(r).review - 2 /\ UNCHANGED waiting
  BY ReadyMeans, LastAt DEF CheckHumanReview
<1>2. decided \in BOOLEAN
  OBVIOUS
<1>3. decided /\ PlanOf[j.plan].owner => <<"owned", j.sha>> \in Seen(r)
  BY SeenIs
<1>4. Continue(r, i) \/ FailCheck(r, i)
  BY NextOrFailIs DEF CheckHumanReview
<1> HIDE DEF decided
<1>5. CASE Continue(r, i)
  BY <1>1, <1>2, <1>3, <1>5, ReviewStepEarned
<1>6. CASE FailCheck(r, i)
  <2>1. /\ i \in JobType /\ Alike(i, j) /\ i.at = j.at /\ i.good = j.good
        /\ i.plan = j.plan
    BY <1>2, ReadyMeans DEF JobType, Alike
  <2>2. j.at # 0
    BY <1>1, ReadyMeans, LastType
  <2> HIDE DEF i
  <2>3. QED BY <1>1, <1>6, <2>1, <2>2, ReadyMeans, FailEarned DEF Alike
<1>7. QED BY <1>4, <1>5, <1>6

LEMMA EvaluateFinalApprovalEarned ==
  ASSUME NEW r, Ready(r), EvaluateFinalApproval(r)
  PROVE  ClaimsInv'
<1> DEFINE j == job[r]
           enough == Cardinality({p \in Reviewers : reviews[p] = j.sha})
                       >= PlanOf[j.plan].minimum
           b == j.sofar /\ enough
<1>1. j.at = Last(r).review - 1 /\ UNCHANGED waiting
  BY ReadyMeans, LastAt DEF EvaluateFinalApproval
<1>2. enough /\ j.plan # None => <<"reviewed", j.plan>> \in Seen(r)
  BY ReadyMeans, SeenIs DEF JobType
<1>3. Continue(r, [j EXCEPT !.sofar = b])
  BY DEF EvaluateFinalApproval
<1>4. b \in BOOLEAN
  OBVIOUS
<1>5. (b => j.sofar) /\ (b /\ j.plan # None => <<"reviewed", j.plan>> \in Seen(r))
  BY <1>2
<1> HIDE DEF b
<1>6. QED BY <1>1, <1>3, <1>4, <1>5, ReviewStepEarned

LEMMA CheckHumanReviewAgainEarned ==
  ASSUME NEW r, Ready(r), CheckHumanReviewAgain(r)
  PROVE  ClaimsInv'
<1> DEFINE j == job[r]
<1>1. j.at = Last(r).review /\ UNCHANGED waiting
  BY ReadyMeans, LastAt DEF CheckHumanReviewAgain
<1>2. /\ CheckAt(r, j.at) = "human-review" /\ AfterCheck(r) = j.at + 1
      /\ "human-review" \in Evaluated
  BY <1>1, ReadyMeans, LastCheck DEF Evaluated, CheckOf
<1>3. j.at + 1 \in 2 .. Length(r) /\ ~(r = Publish /\ j.at > Controls) /\ j.at # 0
  BY <1>1, ReadyMeans, LastIs, RunsAre DEF Length, Controls
<1>4. CASE PassCheck(r, j) /\ j.sofar
  <2>1. \A i \in JobType :
          Alike(i, j) /\ i.good = j.good \cup {"human-review"} /\ i.plan = j.plan
            /\ i.at = j.at + 1 => Earned(r, i, Seen(r))
    BY <1>1, <1>4, ReadyMeans, SeenIs, ReviewGoesOn
  <2> HIDE DEF j
  <2>2. QED BY <1>1, <1>2, <1>3, <1>4, <2>1, ReadyMeans, PassEarned DEF j
<1>5. CASE FailCheck(r, j)
  BY <1>1, <1>3, <1>5, ReadyMeans, FailEarned
<1>6. QED BY <1>4, <1>5 DEF CheckHumanReviewAgain, PassOrFail

LEMMA CheckAuthorityAgainEarned ==
  ASSUME NEW r, Ready(r), CheckAuthorityAgain(r)
  PROVE  ClaimsInv'
<1> DEFINE j == job[r]
           own == j.files \in Authority
           changed == OnHead(r) /\ own
           i == [j EXCEPT !.changed = changed]
<1>1. j.at = Last(r).authority /\ UNCHANGED waiting
  BY ReadyMeans, LastAt DEF CheckAuthorityAgain
<1>2. /\ CheckAt(r, j.at) = "validation-authority" /\ AfterCheck(r) = j.at + 1
      /\ "validation-authority" \in Evaluated
  BY <1>1, ReadyMeans, LastCheck DEF Evaluated, CheckOf
<1>3. j.at + 1 \in 2 .. Length(r) /\ ~(r = Publish /\ j.at > Controls) /\ j.at # 0
  BY <1>1, ReadyMeans, LastIs, RunsAre DEF Length, Controls
<1>4. \/ PassCheck(r, i) /\ (own <=> r # Publish)
      \/ FailCheck(r, i)
  BY DEF CheckAuthorityAgain, PassOrFail
<1>5. changed \in BOOLEAN
  OBVIOUS
<1> HIDE DEF changed
<1>6. /\ i \in JobType /\ Alike(i, j) /\ i.at = j.at /\ i.good = j.good
      /\ i.plan = j.plan
  BY <1>5, ReadyMeans DEF JobType, Alike
<1> HIDE DEF i
<1>7. CASE PassCheck(r, i) /\ (own <=> r # Publish)
  <2>1. \A k \in JobType :
          Alike(k, i) /\ k.good = i.good \cup {"validation-authority"} /\ k.plan = i.plan
            /\ k.at = j.at + 1 => Earned(r, k, Seen(r))
    <3> SUFFICES ASSUME NEW k \in JobType, Alike(k, i),
                        k.good = i.good \cup {"validation-authority"}, k.plan = i.plan,
                        k.at = j.at + 1
                 PROVE  Earned(r, k, Seen(r))
      OBVIOUS
    <3>1. Alike(k, j) /\ k.good = j.good \cup {"validation-authority"} /\ k.plan = j.plan
      BY <1>6 DEF Alike
    <3>2. QED BY <1>1, <1>7, <3>1, ReadyMeans, SeenIs, AuthorityPasses
  <2> HIDE DEF j
  <2>2. QED BY <1>1, <1>2, <1>3, <1>6, <1>7, <2>1, ReadyMeans, PassEarned DEF j
<1>8. CASE FailCheck(r, i)
  BY <1>1, <1>3, <1>6, <1>8, ReadyMeans, FailEarned DEF Alike
<1>9. QED BY <1>4, <1>7, <1>8

LEMMA RepositoryControlsEarned ==
  ASSUME NEW r, Ready(r), RepositoryControls(r)
  PROVE  ClaimsInv'
<1> DEFINE j == job[r]
<1>1. j.at = (IF r = Publish THEN 15 ELSE 17) /\ UNCHANGED waiting
  BY ReadyMeans, LastAt DEF RepositoryControls
<1>2. /\ CheckAt(r, j.at) = "repository-controls" /\ AfterCheck(r) = j.at + 1
      /\ "repository-controls" \in Evaluated
  BY <1>1, ReadyMeans, LastCheck DEF Evaluated, CheckOf
<1>3. j.at + 1 \in 2 .. Length(r) /\ ~(r = Publish /\ j.at > Controls)
  BY <1>1 DEF Length, Controls
<1>4. PassCheck(r, j)
  BY DEF RepositoryControls
<1>5. \A i \in JobType :
        Alike(i, j) /\ i.good = j.good \cup {"repository-controls"} /\ i.plan = j.plan
          /\ i.at = j.at + 1 => Earned(r, i, Seen(r))
  BY <1>1, ReadyMeans, SeenIs, ControlsPass
<1> HIDE DEF j
<1>6. QED BY <1>1, <1>2, <1>3, <1>4, <1>5, ReadyMeans, PassEarned DEF j

LEMMA VerifyRunsEarned ==
  ASSUME NEW r, Ready(r), VerifyRuns(r)
  PROVE  ClaimsInv'
<1> DEFINE j == job[r]
           i == [j EXCEPT !.polls = @ + 1]
<1>1. r \in Commits /\ j.at = 2 /\ UNCHANGED waiting
  BY ReadyMeans, RunsAre, PublishAt, MaintenanceAt DEF VerifyRuns
<1>2. \/ Continue(r, j) \/ Stop(r)
      \/ (j.polls + 1 < MaxPolls /\ Goto(r, i, 2))
  BY <1>1 DEF VerifyRuns
<1>3. CASE j.polls + 1 < MaxPolls /\ Goto(r, i, 2)
  <2>1. /\ i \in JobType /\ Alike(i, j) /\ i.good = j.good /\ i.plan = j.plan
    BY <1>3, ReadyMeans, AcceptanceAssumption DEF JobType, Alike
  <2>2. Between(r, 2, 2) /\ 2 \in 2 .. Length(r)
    BY <1>1, LastIs, RunsAre DEF Between, Length
  <2> HIDE DEF i
  <2>3. QED BY <1>1, <1>3, <2>1, <2>2, ReadyMeans, ContinueEarned
<1>4. CASE Continue(r, j)
  BY <1>1, <1>4, ReadyMeans, NextEarned
<1>5. QED BY <1>1, <1>2, <1>3, <1>4, ReadyMeans, StopEarned

\* build-execution-report: what a decision to accept rests on.
LEMMA DecisionNeeds ==
  ASSUME NEW j \in JobType,
         Report!Decision(EvidenceOf(j)) = "ready_for_acceptance"
  PROVE  /\ j.final # None /\ Suite \subseteq j.good
         /\ (PlanOf[j.final].checks \ {"evidence"}) \cup {"validation-authority"} \subseteq j.good
<1> DEFINE e == EvidenceOf(j)
<1>1. Report!LocalReady(e) /\ Report!FailedChecks(e) = {}
  BY DEF Report!Decision
<1>2. j.final # None
  BY <1>1 DEF Report!LocalReady, EvidenceOf
<1>3. Suite \subseteq j.good
  BY <1>1 DEF Report!LocalReady, EvidenceOf, Report!NoSuite
<1>4. /\ e.checks = PlanOf[j.final].checks /\ e.hosted
      /\ \A x \in e.records : x.id \in j.good
  BY <1>2 DEF EvidenceOf, Report!CheckRecord
<1> HIDE DEF e
<1>5. \A id \in Report!RequiredChecks(e) : Report!CheckPasses(id, e)
  BY <1>1 DEF Report!FailedChecks
<1>6. ASSUME NEW id, Report!CheckPasses(id, e) PROVE id \in j.good
  BY <1>4, <1>6 DEF Report!CheckPasses
<1>7. QED BY <1>2, <1>3, <1>4, <1>5, <1>6 DEF Report!RequiredChecks

LEMMA BuildReportEarned ==
  ASSUME NEW r, Ready(r), BuildReport(r)
  PROVE  ClaimsInv'
<1> DEFINE j == job[r]
           decision == Report!Decision(EvidenceOf(j))
           i == [j EXCEPT !.decision = decision]
           n == j.at + 1
           k == [i EXCEPT !.at = n]
<1>1. j.at = Last(r).report /\ UNCHANGED waiting /\ n \in 2 .. Length(r)
  BY ReadyMeans, LastAt, LastIs, RunsAre DEF BuildReport, Length
<1>2. Continue(r, i) \/ Stop(r)
  BY DEF BuildReport
<1>3. decision \in Report!Decisions
  BY DEF Report!Decision, Report!Decisions
<1>4. decision = "ready_for_acceptance" =>
        /\ j.final # None /\ Suite \subseteq j.good
        /\ (PlanOf[j.final].checks \ {"evidence"}) \cup {"validation-authority"} \subseteq j.good
  BY ReadyMeans, DecisionNeeds
<1> HIDE DEF decision
<1>5. /\ i \in JobType /\ i.at = j.at /\ i.good = j.good /\ i.plan = j.plan
      /\ i.sha = j.sha /\ i.final = j.final /\ i.candidate = j.candidate
      /\ i.decision = decision
  BY <1>3, ReadyMeans DEF JobType
<1>6. n \in 0 .. 25
  BY <1>1 DEF Length
<1> HIDE DEF i
<1>7. CASE Continue(r, i)
  <2>1. Goto(r, i, n)
    BY <1>5, <1>7 DEF Continue
  <2>2. k.at = j.at + 1
    BY <1>5, <1>6, WentTo
  <2> HIDE DEF n
  <2>3. k \in JobType /\ Alike(k, i) /\ k.good = i.good /\ k.plan = i.plan
    BY <1>5, <1>6, WentTo
  <2> HIDE DEF k
  <2>4. /\ k.sha = j.sha /\ k.final = j.final /\ k.candidate = j.candidate
        /\ k.good = j.good /\ k.plan = j.plan /\ k.decision = decision
    BY <1>5, <2>3 DEF Alike
  <2>5. Earned(r, j, seen[r]) /\ seen[r] \subseteq Seen(r) /\ r \in Runs
    BY ReadyMeans, SeenIs
  <2>6. /\ j.at > Last(r).plan /\ j.at + 1 > Last(r).plan
        /\ j.at > Last(r).approval /\ j.at + 1 > Last(r).approval
        /\ j.at > Last(r).scope /\ j.at + 1 > Last(r).scope
        /\ j.at > Last(r).review /\ j.at + 1 > Last(r).review
        /\ j.at > Last(r).authority /\ j.at + 1 > Last(r).authority
        /\ j.at + 1 > Last(r).report /\ j.at \in Nat
    BY <1>1, <2>5, LastIs, RunsAre
  <2> HIDE DEF j
  <2>7. TestsEarned(k)
    BY <2>4, <2>5 DEF Earned, TestsEarned
  <2>8. PlanEarned(r, k, Seen(r))
    BY <2>2, <2>4, <2>5, <2>6, LastType DEF Earned, PlanEarned
  <2>9. ScopeEarned(r, k, Seen(r))
    BY <2>2, <2>4, <2>5, <2>6, LastType DEF Earned, ScopeEarned, Away
  <2>10. ReviewEarned(r, k, Seen(r))
    BY <2>2, <2>4, <2>5, <2>6, LastType DEF Earned, ReviewEarned, ReviewedBy
  <2>11. AuthorityEarned(r, k, Seen(r))
    BY <2>2, <2>4, <2>5, <2>6, LastType DEF Earned, AuthorityEarned, Away
  <2>12. DecisionEarned(r, k)
    BY <1>4, <2>2, <2>4, <2>6 DEF DecisionEarned
  <2>13. Earned(r, k, Seen(r))
    BY <2>7, <2>8, <2>9, <2>10, <2>11, <2>12 DEF Earned
  <2>14. QED BY <1>1, <1>5, <2>1, <2>13, ReadyMeans, GotoEarned DEF k, n, j
<1>8. QED BY <1>1, <1>2, <1>7, ReadyMeans, StopEarned

LEMMA EvaluateEarned ==
  ASSUME NEW r, Ready(r), Evaluate(r)
  PROVE  ClaimsInv'
  BY IdentifyEarned, ResolvePrTaskEarned, CheckPlanEarned, CheckPlanAgainEarned,
     FetchApprovedPlanEarned, CheckScopeEarned, ListFilesEarned, CheckScopeAgainEarned,
     CheckHumanReviewEarned, EvaluateFinalApprovalEarned, CheckHumanReviewAgainEarned,
     CheckAuthorityAgainEarned, RepositoryControlsEarned, VerifyRunsEarned
  DEF Evaluate

\* The look-up and the comment, whose outcome no claim rests on.
LEMMA CommentEarned ==
  ASSUME NEW r, Ready(r), ExistingCommentId(r) \/ PostComment(r)
  PROVE  ClaimsInv'
<1> DEFINE j == job[r]
<1>1. \/ r = Publish /\ j.at \in {21, 22}
      \/ r \in Commits /\ j.at \in {19, 20}
  BY ReadyMeans, RunsAre, PublishAt, MaintenanceAt DEF ExistingCommentId, PostComment
<1>2. UNCHANGED waiting
  BY ReadyMeans DEF ExistingCommentId, PostComment
<1>3. \E b \in BOOLEAN : Continue(r, [j EXCEPT !.sofar = b])
  <2>1. (comments > 0) \in BOOLEAN
    OBVIOUS
  <2>2. QED BY <2>1 DEF ExistingCommentId, PostComment
<1>4. PICK b \in BOOLEAN : Continue(r, [j EXCEPT !.sofar = b])
  BY <1>3
<1> DEFINE i == [j EXCEPT !.sofar = b]
<1>5. /\ i \in JobType /\ Alike(i, j) /\ i.at = j.at /\ i.good = j.good
      /\ i.plan = j.plan
  BY ReadyMeans DEF JobType, Alike
<1>6. Continue(r, i)
  BY <1>4
<1> HIDE DEF i
<1>7. QED BY <1>1, <1>2, <1>5, <1>6, ReadyMeans, NextEarned

LEMMA PostStatusEarned ==
  ASSUME NEW r, Ready(r), PostStatus(r)
  PROVE  ClaimsInv'
<1>1. UNCHANGED waiting
  BY DEF PostStatus
<1>2. CASE r = Publish
  <2>1. job[r].at = 23 /\ Continue(r, job[r])
    BY <1>2, ReadyMeans, PublishAt DEF PostStatus
  <2>2. QED BY <1>1, <1>2, <2>1, ReadyMeans, NextEarned
<1>3. CASE r # Publish
  BY <1>1, <1>3, ReadyMeans, EndEarned DEF PostStatus
<1>4. QED BY <1>2, <1>3

\* The maintenance run takes over the tests, and nothing else that is claimed.
LEMMA DispatchEarned ==
  ASSUME NEW r, Ready(r), DispatchMaintenance(r)
  PROVE  ClaimsInv'
<1> DEFINE j == job[r]
           next == [job EXCEPT ![r].at = j.at + 1]
           new == MaintenanceJob(j)
<1>1. r = Publish /\ j.at = 24 /\ UNCHANGED waiting
  BY ReadyMeans, RunsAre, PublishAt, MaintenanceAt DEF DispatchMaintenance
<1>2. /\ new \in JobType /\ new.at = 1 /\ new.decision = None
      /\ new.sha = j.sha /\ new.good = j.good
  BY ReadyMeans, MaintenanceType
<1>3. \/ job' = next /\ UNCHANGED queued
      \/ job' = [next EXCEPT ![j.sha] = new] /\ UNCHANGED queued
      \/ job' = next /\ queued' = [queued EXCEPT ![j.sha] = new]
  BY DEF DispatchMaintenance
<1>4. j.sha # Publish
  BY ReadyMeans, AcceptanceAssumption DEF JobType, Publish
<1>5. TestsEarned(new)
  <2>1. TestsEarned(j)
    BY ReadyMeans DEF Earned
  <2> HIDE DEF new, j
  <2>2. QED BY <1>2, <2>1 DEF TestsEarned
<1>6. next[r] = [j EXCEPT !.at = 25] /\ DOMAIN next = Runs
      /\ \A q \in Runs \ {r} : next[q] = job[q]
  BY <1>1, ReadyMeans DEF JobsOK
<1> HIDE DEF new, next
<1>7. job'[r] = [j EXCEPT !.at = 25]
  BY <1>1, <1>3, <1>4, <1>6, ReadyMeans
<1>8. \A q \in Runs \ {r} : job'[q] = job[q] \/ job'[q] = new
  <2>1. CASE job' = next
    BY <1>6, <2>1
  <2>2. CASE job' = [next EXCEPT ![j.sha] = new]
    <3> TAKE q \in Runs \ {r}
    <3>1. CASE q = j.sha
      BY <1>6, <2>2, <3>1
    <3>2. CASE q # j.sha
      BY <1>6, <2>2, <3>2
    <3>3. QED BY <3>1, <3>2
  <2>3. QED BY <1>3, <2>1, <2>2
<1>9. Earned(r, job'[r], seen'[r])
  <2> DEFINE k == [j EXCEPT !.at = 25]
  <2>1. /\ k \in JobType /\ Alike(k, j) /\ k.good = j.good /\ k.plan = j.plan
        /\ k.at = 25
    <3>1. j \in JobType /\ 25 \in 0 .. 25
      BY ReadyMeans
    <3> HIDE DEF j
    <3>2. QED BY <3>1, WentTo
  <2>2. seen'[r] = Seen(r)
    <3>1. job'[r].at = 25
      BY <1>7, <2>1
    <3>2. ~(25 <= 1)
      OBVIOUS
    <3>3. QED BY <3>1, <3>2, ReadyMeans DEF Witness, Seen
  <2> HIDE DEF k
  <2>3. Between(r, j.at, k.at)
    BY <1>1, <2>1, LastIs DEF Between
  <2>4. Earned(r, k, Seen(r))
    BY <2>1, <2>3, ReadyMeans, SeenIs, OnwardEarned
  <2>5. QED BY <1>7, <2>2, <2>4 DEF k
<1>10. \A q \in Runs : Earned(q, job'[q], seen'[q])
  <2> SUFFICES ASSUME NEW q \in Runs, q # r PROVE Earned(q, job'[q], seen'[q])
    BY <1>9
  <2>1. CASE job'[q] = job[q]
    BY <2>1, ReadyMeans, OthersEarned DEF JobsOK, Alike
  <2>2. CASE job'[q] = new
    BY <1>1, <1>2, <1>5, <2>2, FreshEarned
  <2>3. QED BY <1>8, <2>1, <2>2
<1>11. \A c \in Commits : queued'[c] = queued[c] \/ queued'[c] = new
  <2>1. CASE UNCHANGED queued
    BY <2>1
  <2>2. CASE queued' = [queued EXCEPT ![j.sha] = new]
    <3> TAKE c \in Commits
    <3>1. CASE c = j.sha
      BY <2>2, <3>1, ReadyMeans DEF JobsOK
    <3>2. CASE c # j.sha
      BY <2>2, <3>2, ReadyMeans DEF JobsOK
    <3>3. QED BY <3>1, <3>2
  <2>3. QED BY <1>3, <2>1, <2>2
<1>12. QED BY <1>1, <1>2, <1>5, <1>10, <1>11, ReadyMeans DEF ClaimsInv

LEMMA EndRunEarned ==
  ASSUME NEW r, Ready(r), EndRun(r)
  PROVE  ClaimsInv'
<1>1. job[r].failed \in BOOLEAN /\ UNCHANGED waiting /\ End(r, job[r].failed)
  BY ReadyMeans DEF EndRun, JobType
<1>2. QED BY <1>1, ReadyMeans, EndEarned

LEMMA StrayEarned ==
  ASSUME NEW r, Ready(r), ApproveDeployment(r) \/ TakeCancellation(r) \/ Fault(r)
  PROVE  ClaimsInv'
<1>1. CASE ApproveDeployment(r)
  <2>1. r \in Commits /\ job[r].at = 1 /\ UNCHANGED waiting
    BY <1>1, ReadyMeans, RunsAre, PublishAt, MaintenanceAt DEF ApproveDeployment
  <2>2. CASE Continue(r, job[r])
    BY <2>1, <2>2, ReadyMeans, NextEarned
  <2>3. QED BY <1>1, <2>1, <2>2, ReadyMeans, StopEarned DEF ApproveDeployment
<1>2. CASE TakeCancellation(r)
  BY <1>2, ReadyMeans, StopEarned DEF TakeCancellation
<1>3. CASE Fault(r)
  <2>1. UNCHANGED waiting /\ job[r].at # 0 /\ (FailCheck(r, job[r]) \/ Stop(r))
    BY <1>3 DEF Fault
  <2>2. QED BY <2>1, ReadyMeans, FailEarned, StopEarned
<1>4. QED BY <1>1, <1>2, <1>3

\* Cancelling a run takes nothing from what it has earned.
LEMMA CancelledEarned ==
  ASSUME JobsOK, ClaimsInv, Witness, job' = job \/ job' = Cancelled, UNCHANGED queued
  PROVE  /\ \A q \in Runs : Earned(q, job'[q], seen'[q])
         /\ \A c \in Commits : queued'[c] # None
                               => TestsEarned(queued'[c]) /\ queued'[c].decision = None
<1>1. ASSUME NEW q \in Runs PROVE Earned(q, job'[q], seen'[q])
  <2>1. CASE job' = job
    BY <2>1, OthersEarned DEF JobsOK, Alike
  <2>2. CASE job' = Cancelled
    BY <2>2, CancelledKeeps, OthersEarned DEF Alike
  <2>3. QED BY <2>1, <2>2
<1>2. QED BY <1>1 DEF ClaimsInv

LEMMA WaitingEarned ==
  ASSUME JobsOK, RestOK, ClaimsInv, Witness,
         GovernedDone \/ People
  PROVE  ClaimsInv'
<1>1. job' = job \/ job' = Cancelled
  BY DEF GovernedDone, People, Push, EditBody, ApprovePlan, Review, EditIssue,
         DispatchedDone, Trigger
<1>2. UNCHANGED queued
  BY DEF GovernedDone, People, Push, EditBody, ApprovePlan, Review, EditIssue,
         DispatchedDone, Changed
<1>3. \/ waiting' = waiting \/ waiting' = Skipped
      \/ \E ok \in {FALSE, (governed \in Green)} :
           waiting' = [sha |-> governed, ok |-> ok]
  BY DEF GovernedDone, People, Push, EditBody, ApprovePlan, Review, EditIssue,
         DispatchedDone, Trigger
<1>4. waiting' # None /\ waiting'.ok => waiting'.sha \in Green
  <2>1. CASE waiting' = waiting
    BY <2>1 DEF ClaimsInv
  <2>2. ASSUME NEW ok \in {FALSE, (governed \in Green)},
               waiting' = [sha |-> governed, ok |-> ok]
        PROVE  waiting'.ok => waiting'.sha \in Green
    <3>1. waiting'.ok = ok /\ waiting'.sha = governed
      BY <2>2
    <3>2. ok => governed \in Green
      OBVIOUS
    <3>3. QED BY <3>1, <3>2
  <2>3. CASE waiting' = Skipped
    BY <2>3 DEF Skipped
  <2>4. QED BY <1>3, <2>1, <2>2, <2>3
<1>5. QED BY <1>1, <1>2, <1>4, CancelledEarned DEF ClaimsInv

LEMMA StartEarned ==
  ASSUME JobsOK, RestOK, ClaimsInv, Witness, StartPublish
  PROVE  ClaimsInv'
<1> DEFINE k == PublishJob(waiting)
<1>1. waiting \in ResultType /\ (waiting.ok => waiting.sha \in Green)
  BY DEF StartPublish, RestOK, ClaimsInv
<1>2. /\ k \in JobType /\ k.at = 1 /\ k.sha = waiting.sha /\ k.final = None
      /\ k.decision = None /\ k.good = IF waiting.ok THEN Suite ELSE {}
  BY <1>1, PublishJobType
<1>3. job' = [job EXCEPT ![Publish] = k] /\ queued' = queued /\ waiting' = None
  BY DEF StartPublish
<1> HIDE DEF k
<1>4. TestsEarned(k)
  BY <1>1, <1>2, SuiteAssumption DEF TestsEarned
<1>5. job'[Publish] = k /\ \A q \in Runs \ {Publish} : job'[q] = job[q]
  BY <1>3, RunsAre DEF JobsOK
<1>6. \A q \in Runs : Earned(q, job'[q], seen'[q])
  <2> TAKE q \in Runs
  <2>1. CASE q = Publish
    BY <1>2, <1>4, <1>5, <2>1, FreshEarned
  <2>2. CASE q # Publish
    BY <1>5, <2>2, OthersEarned DEF JobsOK, Alike
  <2>3. QED BY <2>1, <2>2
<1>7. QED BY <1>3, <1>6 DEF ClaimsInv

-----------------------------------------------------------------------------
(* What a maintenance run has verified *)

LEMMA GotoVerified ==
  ASSUME JobsOK, VerifiedInv, NEW r \in Runs, NEW i \in JobType, NEW n \in Nat,
         Goto(r, i, n), r \in Commits /\ n > 2 => i.evidence = "success"
  PROVE  VerifiedInv'
<1> DEFINE k == [i EXCEPT !.at = n]
<1>1. k.at = n /\ k.evidence = i.evidence
  BY DEF JobType
<1>2. job' = [job EXCEPT ![r] = k]
  BY DEF Goto
<1> HIDE DEF k
<1>3. job'[r] = k /\ \A q \in Runs \ {r} : job'[q] = job[q]
  BY <1>2 DEF JobsOK
<1>4. QED BY <1>1, <1>3, RunsAre DEF VerifiedInv

LEMMA EndVerified ==
  ASSUME JobsOK, VerifiedInv, NEW r \in Runs, NEW f \in BOOLEAN, End(r, f)
  PROVE  VerifiedInv'
<1>1. CASE r = Publish
  <2> DEFINE v == IF f THEN "other" ELSE "success"
  <2>1. v \in {"success", "other"}
    OBVIOUS
  <2> HIDE DEF v
  <2>2. job' = [q \in Runs |-> IF q = r THEN NoJob ELSE Concluded(job[q], v)]
    BY <1>1 DEF End, v
  <2>3. ASSUME NEW c \in Commits, job'[c].at > 2 PROVE job'[c].evidence = "success"
    <3>1. job'[c] = Concluded(job[c], v) /\ job[c] \in JobType
      BY <1>1, <2>2, RunsAre DEF JobsOK
    <3>2. job[c].at > 2
      BY <2>1, <2>3, <3>1, ConcludedKeeps
    <3>3. job[c].evidence = "success"
      BY <3>2 DEF VerifiedInv
    <3>4. QED BY <2>1, <3>1, <3>3, ConcludedKeeps
  <2>4. QED BY <2>3 DEF VerifiedInv
<1>2. CASE r # Publish
  <2> DEFINE i == IF queued[r] = None THEN NoJob ELSE queued[r]
  <2>1. r \in Commits /\ job' = [job EXCEPT ![r] = i]
    BY <1>2, RunsAre DEF End
  <2>2. i.at \in {0, 1}
    BY <2>1, NoJobType DEF JobsOK
  <2> HIDE DEF i
  <2>3. job'[r] = i /\ \A q \in Runs \ {r} : job'[q] = job[q]
    BY <2>1 DEF JobsOK
  <2>4. QED BY <2>2, <2>3, RunsAre DEF VerifiedInv
<1>3. QED BY <1>1, <1>2

LEMMA StopVerified ==
  ASSUME JobsOK, VerifiedInv, NEW r \in Runs, Stop(r)
  PROVE  VerifiedInv'
<1>1. CASE r = Publish /\ (At(r, "find") \/ At(r, "comment"))
  <2> DEFINE i == [job[r] EXCEPT !.failed = TRUE]
  <2>1. i \in JobType
    <3>1. job[r] \in JobType
      BY DEF JobsOK
    <3>2. QED BY <3>1 DEF JobType
  <2>2. Goto(r, i, StatusStep) /\ StatusStep \in Nat /\ r \notin Commits
    BY <1>1, RunsAre DEF Stop, StatusStep
  <2> HIDE DEF i
  <2>3. QED BY <2>1, <2>2, GotoVerified
<1>2. CASE ~(r = Publish /\ (At(r, "find") \/ At(r, "comment")))
  BY <1>2, EndVerified DEF Stop
<1>3. QED BY <1>1, <1>2

LEMMA MovesVerified ==
  ASSUME JobsOK, VerifiedInv, NEW r \in Runs, Moves(r)
  PROVE  VerifiedInv'
<1>1. ASSUME NEW i \in JobType, NEW n \in 2 .. Judged(r), Goto(r, i, n), Verified(r, i, n)
      PROVE  VerifiedInv'
  <2>1. job[r].at \in Nat /\ n \in Nat
    BY DEF JobsOK, JobType, Judged
  <2>2. r \in Commits /\ n > 2 => i.evidence = "success"
    BY <1>1, <2>1 DEF Verified, VerifiedInv
  <2>3. QED BY <1>1, <2>1, <2>2, GotoVerified
<1>2. QED BY <1>1, StopVerified DEF Moves

\* A run that is past that step goes on with what it has verified.
LEMMA OnwardVerified ==
  ASSUME JobsOK, VerifiedInv, NEW r \in Runs, NEW i \in JobType, Continue(r, i),
         i.evidence = job[r].evidence, i.at = job[r].at, r \in Commits => i.at > 2
  PROVE  VerifiedInv'
<1>1. i.at + 1 \in Nat /\ Goto(r, i, i.at + 1)
  BY DEF Continue, JobType
<1>2. r \in Commits => i.evidence = "success"
  BY DEF VerifiedInv
<1>3. QED BY <1>1, <1>2, GotoVerified

LEMMA ConcludeVerified ==
  ASSUME JobsOK, VerifiedInv, NEW r \in Runs, Conclude(r)
  PROVE  VerifiedInv'
<1> DEFINE j == job[r]
<1>1. j \in JobType /\ Placed(r)
  BY InPlace DEF JobsOK
<1>2. CASE BuildReport(r)
  <2> DEFINE decision == Report!Decision(EvidenceOf(j))
             i == [j EXCEPT !.decision = decision]
  <2>1. decision \in Report!Decisions
    BY DEF Report!Decision, Report!Decisions
  <2>2. Continue(r, i) \/ Stop(r)
    BY <1>2 DEF BuildReport
  <2>3. i \in JobType /\ i.at = j.at /\ i.evidence = j.evidence
    <3> HIDE DEF decision
    <3>1. QED BY <1>1, <2>1 DEF JobType
  <2> HIDE DEF i
  <2>4. r \in Commits => j.at > 2
    BY <1>1, <1>2, RunsAre, MaintenanceAt DEF BuildReport
  <2>5. QED BY <2>2, <2>3, <2>4, OnwardVerified, StopVerified
<1>3. CASE ExistingCommentId(r) \/ PostComment(r)
  <2>1. PICK b \in BOOLEAN : Continue(r, [j EXCEPT !.sofar = b])
    <3>1. (comments > 0) \in BOOLEAN
      OBVIOUS
    <3>2. QED BY <1>3, <3>1 DEF ExistingCommentId, PostComment
  <2> DEFINE i == [j EXCEPT !.sofar = b]
  <2>2. i \in JobType /\ i.at = j.at /\ i.evidence = j.evidence /\ Continue(r, i)
    BY <1>1, <2>1 DEF JobType
  <2> HIDE DEF i
  <2>3. r \in Commits => j.at > 2
    BY <1>1, <1>3, RunsAre, MaintenanceAt DEF ExistingCommentId, PostComment
  <2>4. QED BY <2>2, <2>3, OnwardVerified
<1>4. CASE PostStatus(r)
  <2>1. CASE r = Publish
    BY <1>1, <1>4, <2>1, RunsAre, OnwardVerified DEF PostStatus
  <2>2. CASE r # Publish
    BY <1>4, <2>2, EndVerified DEF PostStatus
  <2>3. QED BY <2>1, <2>2
<1>5. CASE DispatchMaintenance(r)
  <2> DEFINE next == [job EXCEPT ![r].at = j.at + 1]
             new == MaintenanceJob(j)
  <2>1. r = Publish
    BY <1>1, <1>5, RunsAre, MaintenanceAt DEF DispatchMaintenance
  <2>2. new.at = 1
    BY <1>1, MaintenanceType
  <2>3. job' = next \/ job' = [next EXCEPT ![j.sha] = new]
    BY <1>5 DEF DispatchMaintenance
  <2>4. DOMAIN next = Runs /\ \A c \in Commits : next[c] = job[c]
    BY <2>1, RunsAre DEF JobsOK
  <2> HIDE DEF next, new
  <2>5. \A c \in Commits : job'[c] = job[c] \/ job'[c] = new
    BY <2>3, <2>4, RunsAre
  <2>6. QED BY <2>2, <2>5 DEF VerifiedInv
<1>6. CASE EndRun(r)
  <2>1. j.failed \in BOOLEAN
    BY <1>1 DEF JobType
  <2>2. QED BY <1>6, <2>1, EndVerified DEF EndRun
<1>7. QED BY <1>2, <1>3, <1>4, <1>5, <1>6 DEF Conclude

LEMMA StepVerified ==
  JobsOK /\ RestOK /\ VerifiedInv /\ [EarnedNext]_earnedVars => VerifiedInv'
<1> SUFFICES ASSUME JobsOK, RestOK, VerifiedInv, [EarnedNext]_earnedVars PROVE VerifiedInv'
  OBVIOUS
<1>1. ASSUME job' = job \/ job' = Cancelled PROVE VerifiedInv'
  <2>1. \A c \in Commits : job'[c].at = job[c].at /\ job'[c].evidence = job[c].evidence
    BY <1>1, CancelledKeeps, RunsAre
  <2>2. QED BY <2>1 DEF VerifiedInv
<1>2. ASSUME NEW r \in Runs, ApproveDeployment(r) PROVE VerifiedInv'
  <2>1. job[r].at = 1 /\ job[r] \in JobType
    BY <1>2, InPlace, RunsAre, PublishAt, MaintenanceAt DEF ApproveDeployment, JobsOK
  <2>2. CASE Continue(r, job[r])
    BY <2>1, <2>2, GotoVerified DEF Continue
  <2>3. QED BY <1>2, <2>2, StopVerified DEF ApproveDeployment
<1>3. ASSUME NEW r \in Runs, TakeCancellation(r) PROVE VerifiedInv'
  BY <1>3, StopVerified DEF TakeCancellation
<1>4. CASE StartPublish
  <2>1. \A c \in Commits : job'[c] = job[c]
    BY <1>4, RunsAre DEF StartPublish, JobsOK
  <2>2. QED BY <2>1 DEF VerifiedInv
<1>5. CASE GovernedDone \/ People \/ UNCHANGED earnedVars
  <2>1. job' = job \/ job' = Cancelled
    BY <1>5 DEF GovernedDone, People, Push, EditBody, ApprovePlan, Review, EditIssue,
         DispatchedDone, Trigger, earnedVars, vars
  <2>2. QED BY <1>1, <2>1
<1>6. ASSUME NEW r \in Runs, Fault(r) PROVE VerifiedInv'
  BY <1>6, FaultMoves, MovesVerified, StopVerified
<1>7. ASSUME NEW r \in Runs, Evaluate(r) PROVE VerifiedInv'
  BY <1>7, EvaluateMoves, MovesVerified
<1>8. QED
  BY <1>2, <1>3, <1>4, <1>5, <1>6, <1>7, ConcludeVerified DEF EarnedNext, Next

LEMMA InitVerified == EarnedInit => VerifiedInv
  BY RunsAre, NoJobType DEF EarnedInit, Init, VerifiedInv

-----------------------------------------------------------------------------
(* The theorem *)

LEMMA StepEarned == JobsOK /\ RestOK /\ ClaimsInv /\ [EarnedNext]_earnedVars => ClaimsInv'
<1> SUFFICES ASSUME JobsOK, RestOK, ClaimsInv, [EarnedNext]_earnedVars PROVE ClaimsInv'
  OBVIOUS
<1>1. CASE UNCHANGED earnedVars
  BY <1>1 DEF earnedVars, vars, github, posted, ClaimsInv
<1>2. CASE Next /\ Witness
  <2>1. ASSUME NEW r \in Runs PROVE Ready(r)
    BY <1>2 DEF Ready
  <2>2. ASSUME NEW r \in Runs, Conclude(r) PROVE ClaimsInv'
    BY <2>1, <2>2, BuildReportEarned, CommentEarned, PostStatusEarned, DispatchEarned,
       EndRunEarned
    DEF Conclude
  <2>3. QED
    BY <1>2, <2>1, <2>2, EvaluateEarned, StrayEarned, WaitingEarned, StartEarned DEF Next
<1>3. CASE \E r \in Runs : Fault(r) /\ Witness
  BY <1>3, StrayEarned DEF Ready
<1>4. QED BY <1>1, <1>2, <1>3 DEF EarnedNext

LEMMA InitEarned == EarnedInit => ClaimsInv
<1> SUFFICES ASSUME EarnedInit PROVE ClaimsInv
  OBVIOUS
<1>1. \A r \in Runs : Earned(r, job[r], seen[r])
  BY NothingEarned DEF EarnedInit, Init
<1>2. QED BY <1>1 DEF EarnedInit, Init, ClaimsInv

LEMMA EarnedIsEnough == JobsOK /\ EarnedInv => ReadyWasEarned
<1> SUFFICES ASSUME JobsOK, EarnedInv, NEW r \in Runs,
                    job[r].decision = "ready_for_acceptance"
             PROVE
      LET j == job[r]
          p == j.final
          Asked(id) == id \in PlanOf[p].checks
      IN  /\ p # None /\ j.sha \in Green
          /\ Asked("plan-contract") => <<"described", p>> \in seen[r]
          /\ <<"approved", p>> \in seen[r]
          /\ Asked("human-review") => /\ <<"reviewed", p>> \in seen[r]
                                      /\ PlanOf[p].owner => <<"owned", j.sha>> \in seen[r]
          /\ <<"away", j.sha>> \notin seen[r] =>
               /\ Asked("scope-policy") => <<j.sha, p>> \in Within
               /\ (r = Publish) <=> (j.sha \notin Authority)
          /\ r # Publish => j.evidence = "success"
  BY DEF ReadyWasEarned
<1> DEFINE j == job[r]
<1>1. j \in JobType /\ Earned(r, j, seen[r])
  BY DEF JobsOK, EarnedInv, ClaimsInv
<1>2. /\ j.at > Last(r).report /\ j.final # None /\ Suite \subseteq j.good
      /\ (PlanOf[j.final].checks \ {"evidence"}) \cup {"validation-authority"} \subseteq j.good
  BY <1>1 DEF Earned, DecisionEarned
<1>3. /\ j.at > Last(r).plan /\ j.at > Last(r).approval /\ j.at > Last(r).scope
      /\ j.at > Last(r).review /\ j.at > Last(r).authority
  BY <1>1, <1>2, LastIs, RunsAre DEF JobType
<1>10. r # Publish => j.evidence = "success"
  BY <1>1, <1>2, LastIs, RunsAre DEF JobType, EarnedInv, VerifiedInv
<1> HIDE DEF j
<1>4. j.sha \in Green
  BY <1>1, <1>2 DEF Earned, TestsEarned
<1>5. /\ <<"approved", j.final>> \in seen[r] /\ j.candidate = j.final
      /\ "plan-contract" \in PlanOf[j.final].checks => <<"described", j.final>> \in seen[r]
  BY <1>1, <1>2, <1>3 DEF Earned, PlanEarned
<1>6. "human-review" \in PlanOf[j.final].checks => ReviewedBy(j, seen[r])
  BY <1>1, <1>2, <1>3 DEF Earned, ReviewEarned
<1>7. "scope-policy" \in PlanOf[j.final].checks
        => <<j.sha, j.final>> \in Within \/ Away(j, seen[r])
  BY <1>1, <1>2, <1>3 DEF Earned, ScopeEarned
<1>8. Away(j, seen[r]) \/ (r = Publish <=> j.sha \notin Authority)
  BY <1>1, <1>2, <1>3 DEF Earned, AuthorityEarned
<1>9. QED BY <1>2, <1>4, <1>5, <1>6, <1>7, <1>8, <1>10 DEF j, Away, ReviewedBy

\* However people push, edit, review and approve while runs are under way, and
\* whatever faults hit them, a run that decides ready_for_acceptance reports on a
\* tested commit and an approved plan, and each fact that its policy asks for was
\* true at some moment of that very run; where the head never left the commit, its
\* files are within the plan and a maintenance run accepted a change of the
\* control plane; and a maintenance run saw the run that dispatched it end well
\* (build-execution-report.mjs, publish-evidence.yml,
\* system-maintenance-approval.yml, verify-maintenance-runs.mjs).
THEOREM AcceptanceIsEarned == EarnedSpec => [](ReadyWasEarned /\ EarnedInv)
<1>1. EarnedInit => JobsOK /\ RestOK /\ ClaimsInv /\ VerifiedInv
  BY InitType, InitEarned, InitVerified DEF EarnedInit
<1>2. ClaimsInv /\ VerifiedInv => EarnedInv
  BY DEF EarnedInv
<1>3. QED
  BY <1>1, <1>2, StepType, StepEarned, StepVerified, EarnedIsEnough, PTL DEF EarnedSpec

\* Each run has seen, by the step it is at, the facts that its decision will
\* claim (ready_for_acceptance), and a maintenance run past its second step has
\* verified the run that dispatched it.
THEOREM ClaimsWereSeen == EarnedSpec => []EarnedInv
<1>1. QED BY AcceptanceIsEarned, PTL
=============================================================================
