----------------------- MODULE PlanPublicationProofs -----------------------
(***************************************************************************)
(* That publishing never moves the head of an open pull request, for any     *)
(* number of publishers, plans and commits: an open pull request has a       *)
(* branch, and a push only ever creates one.                                *)
(***************************************************************************)
EXTENDS PlanPublication, TLAPS

\* TypeOK and OpenInv together are inductive.
IInv == TypeOK /\ OpenInv

\* What TypeOK and OpenInv say of one run.
Sound(x) ==
  /\ x \in PubType
  /\ x.at = "edit" => x.found # 0
  /\ x.at = "create" => x.commit # 0

-----------------------------------------------------------------------------
(* Runs *)

\* A run that goes on as it should, beside a pull request as it should be.
LEMMA StepKeeps ==
  ASSUME IInv, NEW p \in Publishers, NEW x, Sound(x), pub' = [pub EXCEPT ![p] = x],
         branch' \in 0 .. MaxCommit, commits' \in 0 .. MaxCommit,
         pr' \in [plan : Plans \cup {None}, number : 0 .. MaxCommit],
         pr' # NoPr => branch' # 0 /\ pr'.number # 0
  PROVE  IInv'
<1>1. /\ pub' \in [Publishers -> PubType] /\ pub'[p] = x
      /\ \A q \in Publishers \ {p} : pub'[q] = pub[q]
  BY DEF IInv, TypeOK, Sound
<1>2. QED BY <1>1 DEF IInv, TypeOK, OpenInv, Sound

LEMMA NoPubSound ==
  /\ NoPub \in PubType
  /\ \A outcome \in {"none", "published", "pushRejected", "callFailed"} :
       Sound([NoPub EXCEPT !.outcome = outcome])
  BY PublicationAssumption DEF NoPub, PubType, Sound

LEMMA StepEnds ==
  ASSUME IInv, NEW p \in Publishers,
         NEW outcome \in {"none", "published", "pushRejected", "callFailed"}, Ends(p, outcome),
         branch' = branch, commits' = commits,
         pr' \in [plan : Plans \cup {None}, number : 0 .. MaxCommit],
         pr' # NoPr => branch # 0 /\ pr'.number # 0
  PROVE  IInv'
<1> DEFINE x == [NoPub EXCEPT !.outcome = outcome]
<1>1. Sound(x) /\ pub' = [pub EXCEPT ![p] = x]
  BY NoPubSound DEF Ends
<1> HIDE DEF x
<1>2. QED BY <1>1, StepKeeps DEF IInv, TypeOK

LEMMA PublishStep ==
  ASSUME IInv, NEW p \in Publishers, NEW plan \in Plans, Publish(p, plan)
  PROVE  IInv'
<1> DEFINE x == [NoPub EXCEPT !.at = "find", !.plan = plan]
<1>1. Sound(x)
  <2> DEFINE y == [NoPub EXCEPT !.plan = plan]
  <2>1. y \in PubType
    BY NoPubSound DEF PubType
  <2>2. x = [y EXCEPT !.at = "find"]
    BY DEF NoPub
  <2> HIDE DEF x, y
  <2>3. x \in PubType /\ x.at = "find"
    BY <2>1, <2>2 DEF PubType
  <2>4. QED BY <2>3 DEF Sound
<1>2. pub' = [pub EXCEPT ![p] = x] /\ UNCHANGED <<branch, commits, pr>>
  BY DEF Publish
<1> HIDE DEF x
<1>3. QED BY <1>1, <1>2, StepKeeps DEF IInv, TypeOK, OpenInv

LEMMA FindStep ==
  ASSUME IInv, NEW p \in Publishers, Find(p)
  PROVE  IInv'
<1> DEFINE y == [pub[p] EXCEPT !.found = pr.number]
           phase == IF pr = NoPr THEN "push" ELSE "edit"
           x == [y EXCEPT !.at = phase]
<1>1. pub[p] \in PubType /\ pr.number \in 0 .. MaxCommit /\ (pr # NoPr => pr.number # 0)
  BY DEF IInv, TypeOK, OpenInv
<1>2. pub' = [pub EXCEPT ![p] = x] /\ UNCHANGED <<branch, commits, pr>>
  BY DEF Find, IInv, TypeOK, PubType
<1>3. y \in PubType /\ y.found = pr.number
  BY <1>1 DEF PubType
<1> HIDE DEF y
<1>4. Sound(x)
  BY <1>1, <1>3 DEF PubType, Sound
<1> HIDE DEF x
<1>5. QED BY <1>2, <1>4, StepKeeps DEF IInv, TypeOK, OpenInv

\* The pull request that is edited is the one that was found, or none.
LEMMA EditStep ==
  ASSUME IInv, NEW p \in Publishers, Edit(p)
  PROVE  IInv' /\ branch' = branch
<1>1. /\ pub[p].plan \in Plans \cup {None} /\ pub[p].found # 0
      /\ pr \in [plan : Plans \cup {None}, number : 0 .. MaxCommit]
      /\ pr.number # 0 => pr # NoPr
  BY DEF IInv, TypeOK, PubType, Edit, NoPr
<1>2. /\ pr' \in [plan : Plans \cup {None}, number : 0 .. MaxCommit]
      /\ pr'.number = pr.number /\ (pr' = pr \/ pr # NoPr)
  BY <1>1 DEF Edit
<1>3. pr' # NoPr => branch # 0 /\ pr'.number # 0
  BY <1>2 DEF IInv, OpenInv
<1>4. QED BY <1>2, <1>3, StepEnds DEF Edit

LEMMA PushStep ==
  ASSUME IInv, NEW p \in Publishers, Push(p)
  PROVE  IInv' /\ (pr # NoPr => branch' = branch)
<1>1. CASE branch = 0
  <2> DEFINE y == [pub[p] EXCEPT !.commit = commits + 1]
             x == [y EXCEPT !.at = "create"]
  <2>1. /\ commits \in Nat /\ commits + 1 \in 0 .. MaxCommit /\ commits + 1 # 0
        /\ pub[p] \in PubType /\ pr = NoPr
    BY <1>1, PublicationAssumption DEF Push, IInv, TypeOK, OpenInv
  <2>2. /\ pub' = [pub EXCEPT ![p] = x] /\ commits' = commits + 1
        /\ branch' = commits + 1 /\ pr' = pr
    BY <1>1 DEF Push, IInv, TypeOK, PubType
  <2>3. y \in PubType /\ y.commit # 0
    BY <2>1 DEF PubType
  <2> HIDE DEF y
  <2>4. Sound(x)
    BY <2>3 DEF PubType, Sound
  <2> HIDE DEF x
  <2>5. QED BY <2>1, <2>2, <2>4, StepKeeps DEF IInv, TypeOK
<1>2. CASE branch # 0
  BY <1>2, StepEnds DEF Push, IInv, TypeOK, OpenInv
<1>3. QED BY <1>1, <1>2

LEMMA CreateStep ==
  ASSUME IInv, NEW p \in Publishers, Create(p)
  PROVE  IInv' /\ branch' = branch
<1>1. CASE branch # 0 /\ pr = NoPr
  <2>1. /\ pr' = [plan |-> pub[p].plan, number |-> pub[p].commit]
        /\ Ends(p, "published") /\ branch' = branch /\ commits' = commits
    BY <1>1 DEF Create
  <2>2. /\ pub[p].plan \in Plans \cup {None} /\ pub[p].commit \in 0 .. MaxCommit
        /\ pub[p].commit # 0
    BY DEF IInv, TypeOK, OpenInv, PubType, Create
  <2>3. QED BY <1>1, <2>1, <2>2, StepEnds
<1>2. CASE ~(branch # 0 /\ pr = NoPr)
  BY <1>2, StepEnds DEF Create, IInv, TypeOK, OpenInv
<1>3. QED BY <1>1, <1>2

\* Whatever people close and delete, no pull request is left without a branch.
LEMMA PeopleStep ==
  ASSUME IInv, ClosePr \/ DeleteBranch
  PROVE  IInv' /\ pr' = NoPr
<1>1. NoPr \in [plan : Plans \cup {None}, number : 0 .. MaxCommit] /\ 0 \in 0 .. MaxCommit
  BY PublicationAssumption DEF NoPr
<1>2. CASE ClosePr
  BY <1>1, <1>2 DEF ClosePr, IInv, TypeOK, OpenInv
<1>3. CASE DeleteBranch
  BY <1>1, <1>3 DEF DeleteBranch, IInv, TypeOK, OpenInv
<1>4. QED BY <1>2, <1>3

-----------------------------------------------------------------------------
(* The theorems *)

LEMMA InitOK == Init => IInv
<1>1. NoPr \in [plan : Plans \cup {None}, number : 0 .. MaxCommit] /\ 0 \in 0 .. MaxCommit
  BY PublicationAssumption DEF NoPr
<1>2. NoPub \in PubType /\ NoPub.at = "idle"
  BY NoPubSound DEF NoPub
<1>3. QED BY <1>1, <1>2 DEF Init, IInv, TypeOK, OpenInv

\* The invariant is kept, and an open pull request keeps its head.
LEMMA NextOK ==
  ASSUME IInv, [Next]_vars
  PROVE  IInv' /\ (pr # NoPr /\ pr'.number = pr.number => branch' = branch)
<1>1. CASE UNCHANGED vars
  BY <1>1 DEF vars, IInv, TypeOK, OpenInv
<1>2. ASSUME NEW p \in Publishers, CallFails(p)
      PROVE  IInv' /\ branch' = branch
  BY <1>2, StepEnds DEF CallFails, IInv, TypeOK, OpenInv
<1>3. CASE ClosePr \/ DeleteBranch
  <2>1. pr # NoPr => pr.number # NoPr.number
    BY DEF IInv, OpenInv, NoPr
  <2>2. IInv' /\ pr' = NoPr
    BY <1>3, PeopleStep
  <2>3. QED BY <2>1, <2>2
<1>4. ASSUME NEW p \in Publishers, NEW plan \in Plans, Publish(p, plan)
      PROVE  IInv' /\ branch' = branch
  BY <1>4, PublishStep DEF Publish
<1>5. ASSUME NEW p \in Publishers, Find(p)
      PROVE  IInv' /\ branch' = branch
  BY <1>5, FindStep DEF Find
<1>6. QED
  BY <1>1, <1>2, <1>3, <1>4, <1>5, EditStep, PushStep, CreateStep DEF Next, Run

\* An open pull request has its branch and its number, and a run that is about
\* to edit or to open one knows which (publish-plan.mjs:186-283).
THEOREM OpenInvariant == Spec => [](TypeOK /\ OpenInv)
<1>1. Init => IInv
  BY InitOK
<1>2. IInv /\ [Next]_vars => IInv'
  BY NextOK
<1>3. QED BY <1>1, <1>2, PTL DEF Spec, IInv

\* However many people publish plans for one task at once, and whatever fails,
\* nobody's run moves the head of a pull request that stays open.
THEOREM HeadsStay == Spec => OpenPrKeepsHead
<1>1. IInv /\ [Next]_vars => [pr # NoPr /\ pr'.number = pr.number => branch' = branch]_vars
  BY NextOK
<1>2. QED BY <1>1, OpenInvariant, PTL DEF Spec, IInv, OpenPrKeepsHead
=============================================================================
