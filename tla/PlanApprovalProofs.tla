------------------------- MODULE PlanApprovalProofs -------------------------
(***************************************************************************)
(* That a plan which fetchApprovedPlan returns was approved in full at one   *)
(* moment, and that an approval which stands is found, for any people,       *)
(* plans, commits and versions, as long as the pull request has no more      *)
(* reviews than the one page that is read.  The argument is that reviews     *)
(* only grow and lapse (Grown), so that what a later look at them accepts    *)
(* an earlier one would have accepted too.                                   *)
(***************************************************************************)
EXTENDS PlanApproval, TLAPS

\* TypeOK and ApprovalInv together are inductive.
IInv == TypeOK /\ ApprovalInv

-----------------------------------------------------------------------------
(* Reviews that grow *)

LEMMA GrownSame == ASSUME NEW revs \in Seq(ReviewType) PROVE Grown(revs, revs)
  BY DEF Grown

LEMMA GrownTransitive ==
  ASSUME NEW a \in Seq(ReviewType), NEW b \in Seq(ReviewType), NEW c \in Seq(ReviewType),
         Grown(a, b), Grown(b, c)
  PROVE  Grown(a, c)
<1>1. DOMAIN a = 1 .. Len(a) /\ DOMAIN b = 1 .. Len(b) /\ Len(a) \in Nat /\ Len(b) \in Nat /\ Len(c) \in Nat
  OBVIOUS
<1>2. \A i \in DOMAIN a : i \in DOMAIN b
  BY <1>1 DEF Grown
<1>3. ASSUME NEW i \in DOMAIN a
      PROVE  c[i].user = a[i].user /\ c[i].approves \in {a[i].approves, None}
  BY <1>2 DEF Grown
<1>4. Len(a) <= Len(c)
  BY <1>1 DEF Grown
<1>5. QED BY <1>3, <1>4 DEF Grown

\* What the evaluation accepts on the later reviews it accepts on the earlier.
LEMMA GrownApproves ==
  ASSUME NEW old \in Seq(ReviewType), NEW new \in Seq(ReviewType), Grown(old, new),
         NEW r \in RecordType, r.review \in DOMAIN old, NEW c, NEW p,
         Approves(r, c, p, new)
  PROVE  Approves(r, c, p, old)
<1>1. /\ DOMAIN old = 1 .. Len(old) /\ DOMAIN new = 1 .. Len(new)
      /\ Len(old) \in Nat /\ Len(new) \in Nat
  OBVIOUS
<1>2. \A i \in DOMAIN old : i \in DOMAIN new
  BY <1>1 DEF Grown
<1>3. r.review \in LatestReviews(old)
  <2>1. ASSUME NEW j \in DOMAIN old, old[j].user = old[r.review].user
        PROVE  j <= r.review
    BY <1>2, <2>1 DEF Grown, Approves, LatestReviews
  <2>2. QED BY <2>1 DEF LatestReviews
<1>4. r.commit # None
  BY PlanAssumption DEF RecordType
<1>5. old[r.review].user = new[r.review].user /\ old[r.review].approves = new[r.review].approves
  BY <1>4 DEF Grown, Approves, HumanApproval
<1>6. QED BY <1>3, <1>5 DEF Approves, HumanApproval

LEMMA WellFoundedLasts ==
  ASSUME TypeOK, reviews' \in Seq(ReviewType), Grown(reviews, reviews'),
         NEW r, WellFounded(r)
  PROVE  WellFounded(r)'
<1>1. /\ DOMAIN reviews = 1 .. Len(reviews) /\ DOMAIN reviews' = 1 .. Len(reviews')
      /\ Len(reviews) \in Nat /\ Len(reviews') \in Nat
  BY DEF TypeOK
<1>2. r.review \in DOMAIN reviews'
  BY <1>1 DEF Grown, WellFounded
<1>3. QED BY <1>2 DEF Grown, WellFounded

LEMMA LenReviews ==
  ASSUME TypeOK
  PROVE  Len(reviews) \in Nat /\ DOMAIN reviews = 1 .. Len(reviews)
  BY DEF TypeOK

-----------------------------------------------------------------------------
(* The parts of ApprovalInv *)

RecInv ==
  /\ rec.at # "idle" => rec.review \in DOMAIN reviews
  /\ rec.at = "post" => NewRecord \in RecordType /\ WellFounded(NewRecord)
  /\ \A r \in records : WellFounded(r)

FetchInv ==
  /\ fetch.at \in {"reviews", "evaluate"} =>
       /\ fetch.held \subseteq fetch.records /\ fetch.records \subseteq records
       /\ \A r \in fetch.held : Names(r)
       /\ Grown(Seen, reviews)
       /\ Lasting
  /\ fetch.result # None =>
       fetch.at = "done" /\ (Len(reviews) <= PageSize => fetch.result \in fetch.held)

LEMMA Parts == ApprovalInv <=> RecInv /\ FetchInv
  BY DEF ApprovalInv, RecInv, FetchInv

LEMMA PartsPrimed == ApprovalInv' <=> RecInv' /\ FetchInv'
  BY DEF ApprovalInv, RecInv, FetchInv

-----------------------------------------------------------------------------
(* What people do *)

\* No run moves, and the reviews only grow.
LEMMA PeopleKeep ==
  ASSUME IInv, UNCHANGED <<records, rec, fetch>>,
         base' \in 0 .. MaxBase, branch' \in Commits, plan' \in Plans \cup {None},
         reviews' \in Seq(ReviewType), Len(reviews') <= MaxReviews, Grown(reviews, reviews')
  PROVE  IInv'
<1>1. TypeOK /\ RecInv /\ FetchInv
  BY Parts DEF IInv
<1>2. TypeOK'
  BY <1>1 DEF TypeOK
<1>3. /\ Len(reviews) \in Nat /\ Len(reviews') \in Nat /\ Len(reviews) <= Len(reviews')
      /\ DOMAIN reviews = 1 .. Len(reviews) /\ DOMAIN reviews' = 1 .. Len(reviews')
  BY <1>1 DEF TypeOK, Grown
<1>4. \A i \in DOMAIN reviews : i \in DOMAIN reviews'
  BY <1>3
<1>5. RecInv'
  <2>1. rec'.at # "idle" => rec'.review \in DOMAIN reviews'
    BY <1>1, <1>4 DEF RecInv
  <2>2. ASSUME rec'.at = "post"
        PROVE  NewRecord' \in RecordType /\ WellFounded(NewRecord)'
    <3>1. rec.review \in DOMAIN reviews
      BY <1>1, <2>2 DEF RecInv
    <3>2. reviews'[rec.review].user = reviews[rec.review].user
      BY <3>1 DEF Grown
    <3>3. NewRecord' = NewRecord
      BY <3>2 DEF NewRecord
    <3>4. NewRecord \in RecordType /\ WellFounded(NewRecord)
      BY <1>1, <2>2 DEF RecInv
    <3>5. \A x : WellFounded(x) => WellFounded(x)'
      BY <1>1, WellFoundedLasts
    <3>6. \A x : x = NewRecord => (WellFounded(x)' => WellFounded(NewRecord)')
      BY <3>3 DEF WellFounded
    <3>7. QED BY <3>3, <3>4, <3>5, <3>6
  <2>3. \A r \in records' : WellFounded(r)'
    BY <1>1, WellFoundedLasts DEF RecInv
  <2>4. QED BY <2>1, <2>2, <2>3 DEF RecInv
<1>6. FetchInv'
  <2>1. ASSUME fetch'.at \in {"reviews", "evaluate"}
        PROVE  /\ fetch'.held \subseteq fetch'.records /\ fetch'.records \subseteq records'
               /\ \A r \in fetch'.held : Names(r)'
               /\ Grown(Seen, reviews)' /\ Lasting'
    <3>1. /\ fetch.at \in {"reviews", "evaluate"} /\ fetch.held \subseteq fetch.records
          /\ fetch.records \subseteq records /\ (\A r \in fetch.held : Names(r))
          /\ Grown(Seen, reviews) /\ Lasting
      BY <1>1, <2>1 DEF FetchInv
    <3>2. \A r \in fetch'.held : Names(r)'
      BY <3>1 DEF Names
    <3>3. CASE fetch.at = "evaluate"
      <4>1. Seen = fetch.reviews /\ Seen' = Seen /\ fetch.reviews \in Seq(ReviewType)
        BY <1>1, <3>3 DEF Seen, TypeOK, FetchType
      <4>2. Grown(fetch.reviews, reviews')
        BY <1>1, <3>1, <4>1, GrownTransitive DEF TypeOK
      <4>3. Grown(Seen, reviews)'
        BY <4>1, <4>2 DEF Grown
      <4>4. Len(reviews') <= PageSize => Len(reviews) <= PageSize
        BY <1>3, PlanAssumption
      <4>5. Lasting'
        BY <3>1, <4>1, <4>4 DEF Lasting, Approves, LatestReviews, HumanApproval
      <4>6. QED BY <3>1, <3>2, <4>3, <4>5
    <3>4. CASE fetch.at = "reviews"
      <4>1. Seen = reviews /\ Seen' = reviews'
        BY <3>4 DEF Seen
      <4>2. Grown(reviews', reviews')
        BY GrownSame
      <4>3. Grown(Seen, reviews)'
        BY <4>1, <4>2 DEF Grown
      <4>4. ASSUME Len(reviews') <= PageSize, NEW r \in fetch.records
            PROVE  /\ r.review \in DOMAIN reviews'
                   /\ Approves(r, fetch.contract, fetch.pull, reviews') => r \in fetch.held
        <5>1. Len(reviews) <= PageSize
          BY <1>3, <4>4, PlanAssumption
        <5>2. r \in RecordType /\ r.review \in DOMAIN reviews
          BY <1>1, <3>1, <4>1, <5>1 DEF Lasting, TypeOK
        <5>3. Approves(r, fetch.contract, fetch.pull, reviews) => r \in fetch.held
          BY <3>1, <4>1, <5>1 DEF Lasting
        <5>4. QED BY <1>1, <1>4, <5>2, <5>3, GrownApproves DEF TypeOK
      <4>5. Lasting'
        BY <4>1, <4>4 DEF Lasting, Approves, LatestReviews, HumanApproval
      <4>6. QED BY <3>1, <3>2, <4>3, <4>5
    <3>5. QED BY <3>1, <3>3, <3>4
  <2>2. fetch'.result # None =>
          fetch'.at = "done" /\ (Len(reviews') <= PageSize => fetch'.result \in fetch'.held)
    BY <1>1, <1>3, PlanAssumption DEF FetchInv
  <2>3. QED BY <2>1, <2>2 DEF FetchInv
<1>7. QED BY <1>2, <1>5, <1>6, PartsPrimed DEF IInv

\* A dismissal and a new review are all that happens to the reviews.
LEMMA ReviewsGrow ==
  ASSUME TypeOK,
         \/ \E user \in Users, approved \in BOOLEAN : Review(user, approved)
         \/ \E i \in DOMAIN reviews : Dismiss(i)
  PROVE  /\ reviews' \in Seq(ReviewType) /\ Len(reviews') <= MaxReviews
         /\ Grown(reviews, reviews')
<1>1. reviews \in Seq(ReviewType) /\ Len(reviews) <= MaxReviews /\ branch \in Commits
  BY DEF TypeOK
<1>2. ASSUME NEW user \in Users, NEW approved \in BOOLEAN, Review(user, approved)
      PROVE  /\ reviews' \in Seq(ReviewType) /\ Len(reviews') <= MaxReviews
             /\ Grown(reviews, reviews')
  <2> DEFINE v == [user |-> user, approves |-> IF approved THEN branch ELSE None]
  <2>1. v \in ReviewType
    BY <1>1 DEF ReviewType
  <2>2. reviews' = Append(reviews, v) /\ Len(reviews) < MaxReviews
    BY <1>2 DEF Review
  <2> HIDE DEF v
  <2>3. /\ reviews' \in Seq(ReviewType) /\ Len(reviews') = Len(reviews) + 1
        /\ \A i \in DOMAIN reviews : reviews'[i] = reviews[i]
    BY <1>1, <2>1, <2>2
  <2>4. QED BY <1>1, <2>2, <2>3, PlanAssumption DEF Grown
<1>3. ASSUME NEW i \in DOMAIN reviews, Dismiss(i)
      PROVE  /\ reviews' \in Seq(ReviewType) /\ Len(reviews') <= MaxReviews
             /\ Grown(reviews, reviews')
  <2> DEFINE v == [reviews[i] EXCEPT !.approves = None]
  <2>1. reviews[i] \in ReviewType
    BY <1>1
  <2>2. v \in ReviewType /\ v.user = reviews[i].user /\ v.approves = None
    BY <2>1 DEF ReviewType
  <2>3. reviews' = [reviews EXCEPT ![i] = v]
    BY <1>3 DEF Dismiss
  <2> HIDE DEF v
  <2>4. /\ reviews' \in Seq(ReviewType) /\ Len(reviews') = Len(reviews)
        /\ reviews'[i] = v /\ \A j \in DOMAIN reviews \ {i} : reviews'[j] = reviews[j]
    BY <1>1, <2>2, <2>3
  <2>5. QED BY <1>1, <2>2, <2>4 DEF Grown
<1>4. QED BY <1>2, <1>3

LEMMA PeopleStep ==
  ASSUME IInv, PeopleNext
  PROVE  IInv'
<1>1. TypeOK
  BY DEF IInv
<1>2. Grown(reviews, reviews) /\ reviews \in Seq(ReviewType) /\ Len(reviews) <= MaxReviews
  BY <1>1, GrownSame DEF TypeOK
<1>3. CASE AdvanceBase
  <2>1. base' \in 0 .. MaxBase
    BY <1>1, <1>3, PlanAssumption DEF AdvanceBase, TypeOK
  <2>2. QED BY <1>1, <1>2, <1>3, <2>1, PeopleKeep DEF AdvanceBase, prVars, TypeOK
<1>4. ASSUME NEW new \in Plans \cup {None}, EditDescription(new)
      PROVE  IInv'
  BY <1>1, <1>2, <1>4, PeopleKeep DEF EditDescription, repoVars, TypeOK
<1>5. ASSUME NEW commit \in Commits, MoveBranch(commit)
      PROVE  IInv'
  BY <1>1, <1>2, <1>5, PeopleKeep DEF MoveBranch, prVars, TypeOK
<1>6. CASE \/ \E user \in Users, approved \in BOOLEAN : Review(user, approved)
           \/ \E i \in DOMAIN reviews : Dismiss(i)
  <2>1. UNCHANGED <<repoVars, plan, records, rec, fetch>>
    BY <1>6 DEF Review, Dismiss
  <2>2. QED BY <1>1, <1>6, <2>1, ReviewsGrow, PeopleKeep DEF repoVars, TypeOK
<1>7. QED BY <1>3, <1>4, <1>5, <1>6 DEF PeopleNext

-----------------------------------------------------------------------------
(* plan-approval.mjs *)

\* Only the run and the records change, and the records only grow.
LEMMA RecordKeeps ==
  ASSUME IInv, UNCHANGED <<repoVars, plan, reviews, fetch>>,
         rec' \in RecType, records' \subseteq RecordType, records \subseteq records',
         RecInv'
  PROVE  IInv'
<1>1. TypeOK /\ FetchInv
  BY Parts DEF IInv
<1>2. TypeOK'
  BY <1>1 DEF TypeOK, repoVars
<1>3. FetchInv'
  BY <1>1 DEF FetchInv, Seen, Grown, Lasting, Names, Approves, LatestReviews, HumanApproval
<1>4. QED BY <1>2, <1>3, PartsPrimed DEF IInv

LEMMA PullTyped ==
  /\ NoPull \in PullType
  /\ TypeOK => Pull \in PullType
  BY PlanAssumption DEF NoPull, Pull, PullType, TypeOK

LEMMA NoRecTyped == NoRec \in RecType
  BY PullTyped, PlanAssumption DEF NoRec, RecType

LEMMA RecordStartStep ==
  ASSUME IInv, NEW i \in DOMAIN reviews, NEW contract \in 0 .. MaxIssue,
         RecordStart(i, contract)
  PROVE  IInv'
<1> DEFINE x == [at |-> "check", contract |-> contract, review |-> i, pull |-> Pull]
<1>1. TypeOK /\ RecInv
  BY Parts DEF IInv
<1>2. i \in 0 .. MaxReviews
  BY <1>1, LenReviews, PlanAssumption DEF TypeOK
<1>3. x \in RecType /\ x.at = "check" /\ x.review = i
  BY <1>1, <1>2, PullTyped DEF RecType
<1>4. rec' = x /\ UNCHANGED <<repoVars, prVars, fetch>>
  BY DEF RecordStart
<1> HIDE DEF x
<1>5. RecInv'
  BY <1>1, <1>3, <1>4 DEF RecInv, WellFounded, prVars
<1>6. QED BY <1>1, <1>3, <1>4, <1>5, RecordKeeps DEF prVars, TypeOK

\* Until the next attempt there is nothing to record.
LEMMA RecordOver ==
  ASSUME IInv, rec' = NoRec, UNCHANGED <<repoVars, prVars, fetch>>
  PROVE  IInv'
<1>1. TypeOK /\ RecInv
  BY Parts DEF IInv
<1>2. rec'.at = "idle" /\ rec' \in RecType
  BY NoRecTyped DEF NoRec
<1>3. RecInv'
  BY <1>1, <1>2 DEF RecInv, WellFounded, prVars
<1>4. QED BY <1>1, <1>2, <1>3, RecordKeeps DEF prVars, TypeOK

\* The checks are what makes a record well-founded.
LEMMA RecordCheckStep ==
  ASSUME IInv, RecordCheck
  PROVE  IInv'
<1>1. TypeOK /\ RecInv /\ rec.at = "check" /\ UNCHANGED <<repoVars, prVars, fetch>>
  BY Parts DEF IInv, RecordCheck
<1>2. CASE rec' = NoRec
  BY <1>1, <1>2, RecordOver
<1>3. CASE /\ rec.pull.plan # None
           /\ rec.pull.plan.contract = rec.contract
           /\ rec.pull.head \notin CodeCommits
           /\ HumanApproval(reviews[rec.review], rec.pull.head)
           /\ rec' = [rec EXCEPT !.at = "post"]
  <2>1. /\ rec \in RecType /\ reviews \in Seq(ReviewType) /\ Len(reviews) <= MaxReviews
        /\ rec.review \in DOMAIN reviews
    BY <1>1 DEF TypeOK, RecInv
  <2>2. /\ rec' \in RecType /\ rec'.at = "post" /\ rec'.pull = rec.pull
        /\ rec'.contract = rec.contract /\ rec'.review = rec.review
    BY <1>3, <2>1 DEF RecType
  <2>3. /\ rec.pull.plan \in Plans /\ rec.pull.base \in 0 .. MaxBase
        /\ rec.pull.head \in Commits /\ rec.contract \in 0 .. MaxIssue
    BY <1>3, <2>1 DEF RecType, PullType
  <2>4. rec.review \in 1 .. MaxReviews /\ reviews[rec.review].user \in Users
    <3>1. reviews[rec.review] \in ReviewType
      BY <2>1
    <3>2. reviews[rec.review].user \in Users
      BY <3>1 DEF ReviewType
    <3>3. Len(reviews) \in Nat /\ rec.review \in 1 .. Len(reviews)
      BY <1>1, <2>1, LenReviews
    <3>4. QED BY <2>1, <3>2, <3>3, PlanAssumption
  <2>5. NewRecord \in RecordType
    BY <2>3, <2>4 DEF NewRecord, RecordType
  <2>6. WellFounded(NewRecord)
    BY <1>3, <2>1 DEF WellFounded, NewRecord, HumanApproval
  <2>7. RecInv'
    <3>1. NewRecord' = NewRecord
      BY <1>1, <2>2 DEF NewRecord, prVars
    <3>2. \A r : WellFounded(r) => WellFounded(r)'
      BY <1>1 DEF WellFounded, prVars
    <3>3. \A r : r = NewRecord => (WellFounded(r)' => WellFounded(NewRecord)')
      BY <3>1 DEF WellFounded
    <3>4. WellFounded(NewRecord)'
      BY <2>6, <3>2, <3>3
    <3>5. QED BY <1>1, <2>1, <2>2, <2>5, <3>1, <3>2, <3>4 DEF RecInv, prVars
  <2>8. QED BY <1>1, <2>2, <2>7, RecordKeeps DEF prVars, TypeOK
<1>4. QED BY <1>2, <1>3 DEF RecordCheck

LEMMA RecordPostStep ==
  ASSUME IInv, RecordPost
  PROVE  IInv'
<1>1. TypeOK /\ RecInv /\ rec.at = "post"
  BY Parts DEF IInv, RecordPost
<1>2. /\ records' = records \cup {NewRecord} /\ rec' = NoRec
      /\ UNCHANGED <<repoVars, plan, reviews, fetch>>
  BY DEF RecordPost
<1>3. NewRecord \in RecordType /\ WellFounded(NewRecord)
  BY <1>1 DEF RecInv
<1>4. rec'.at = "idle" /\ rec' \in RecType
  BY <1>2, NoRecTyped DEF NoRec
<1>5. \A r \in records' : WellFounded(r)
  BY <1>1, <1>2, <1>3 DEF RecInv
<1>6. RecInv'
  BY <1>2, <1>4, <1>5 DEF RecInv, WellFounded
<1>7. QED BY <1>1, <1>2, <1>3, <1>4, <1>6, RecordKeeps DEF TypeOK

LEMMA RecordStep ==
  ASSUME IInv, RecordNext
  PROVE  IInv'
<1>1. CASE RecordFails
  BY <1>1, RecordOver DEF RecordFails
<1>2. QED BY <1>1, RecordStartStep, RecordCheckStep, RecordPostStep DEF RecordNext

-----------------------------------------------------------------------------
(* fetchApprovedPlan *)

\* Only the run changes.
LEMMA FetchKeeps ==
  ASSUME IInv, UNCHANGED <<repoVars, prVars, rec>>, fetch' \in FetchType, FetchInv'
  PROVE  IInv'
<1>1. TypeOK /\ RecInv
  BY Parts DEF IInv
<1>2. TypeOK'
  BY <1>1 DEF TypeOK, repoVars, prVars
<1>3. NewRecord' = NewRecord
  BY DEF NewRecord, prVars
<1>4. RecInv'
  BY <1>1, <1>3 DEF RecInv, WellFounded, prVars
<1>5. QED BY <1>2, <1>4, PartsPrimed DEF IInv

LEMMA NoFetchTyped ==
  /\ NoFetch \in FetchType /\ NoFetch.at = "idle" /\ NoFetch.result = None
  BY PullTyped, PlanAssumption DEF NoFetch, FetchType

LEMMA FetchStartStep ==
  ASSUME IInv, FetchStart
  PROVE  IInv'
<1>1. PICK issue \in 0 .. MaxIssue :
        fetch' = [NoFetch EXCEPT !.at = "find", !.contract = issue]
  BY DEF FetchStart
<1> DEFINE x == [NoFetch EXCEPT !.contract = issue]
<1>2. x \in FetchType /\ x.result = None
  BY NoFetchTyped DEF FetchType
<1>3. fetch' = [x EXCEPT !.at = "find"]
  BY <1>1 DEF NoFetch
<1> HIDE DEF x
<1>4. fetch' \in FetchType /\ fetch'.at = "find" /\ fetch'.result = None
  BY <1>2, <1>3 DEF FetchType
<1>5. FetchInv'
  BY <1>4 DEF FetchInv
<1>6. QED BY <1>4, <1>5, FetchKeeps DEF FetchStart

\* Without a result there is nothing to show.
LEMMA FetchNothing ==
  ASSUME IInv, fetch' = NoFetch, UNCHANGED <<repoVars, prVars, rec>>
  PROVE  IInv'
<1>1. FetchInv'
  BY NoFetchTyped DEF FetchInv
<1>2. QED BY <1>1, NoFetchTyped, FetchKeeps

\* The moment that counts: here a record that would be accepted holds.
LEMMA FetchFindStep ==
  ASSUME IInv, FetchFind
  PROVE  IInv'
<1>1. TypeOK /\ RecInv /\ fetch.at = "find" /\ UNCHANGED <<repoVars, prVars, rec>>
  BY Parts DEF IInv, FetchFind
<1>2. CASE plan = None
  BY <1>1, <1>2, FetchNothing DEF FetchFind
<1>3. CASE plan # None
  <2> DEFINE now == {r \in records : HoldsNow(r, fetch.contract)}
             x == [[[fetch EXCEPT !.pull = Pull] EXCEPT !.records = records]
                     EXCEPT !.held = now]
  <2>1. fetch \in FetchType /\ Pull \in PullType /\ records \subseteq RecordType
    BY <1>1, PullTyped DEF TypeOK
  <2>2. now \in SUBSET RecordType /\ now \subseteq records
    BY <2>1
  <2>3. \A r \in records : HoldsNow(r, fetch.contract) => r \in now
    OBVIOUS
  <2>4. \A r \in now : HoldsNow(r, fetch.contract)
    OBVIOUS
  <2>5. fetch' = [x EXCEPT !.at = "reviews"]
    BY <1>3, <2>1 DEF FetchFind, FetchType
  <2> HIDE DEF now
  <2>6. /\ x \in FetchType /\ x.pull = Pull /\ x.records = records /\ x.held = now
        /\ x.contract = fetch.contract /\ x.result = fetch.result
    BY <2>1, <2>2 DEF FetchType
  <2> HIDE DEF x
  <2>7. /\ fetch' \in FetchType /\ fetch'.at = "reviews" /\ fetch'.pull = Pull
        /\ fetch'.records = records /\ fetch'.held = now
        /\ fetch'.contract = fetch.contract /\ fetch'.result = fetch.result
    BY <2>5, <2>6 DEF FetchType
  <2>8. fetch'.result = None
    BY <1>1, <2>7, Parts DEF IInv, FetchInv
  <2>9. ASSUME NEW r \in records
        PROVE  /\ r.review \in DOMAIN reviews
               /\ Approves(r, fetch.contract, Pull, reviews) => r \in now
    <3>1. WellFounded(r)
      BY <1>1 DEF RecInv
    <3>2. ASSUME Approves(r, fetch.contract, Pull, reviews)
          PROVE  HoldsNow(r, fetch.contract)
      BY <3>1, <3>2 DEF Approves, HumanApproval, LatestReviews, Pull, HoldsNow, WellFounded
    <3>3. QED BY <2>3, <3>1, <3>2 DEF WellFounded
  <2>10. \A r \in fetch'.held : Names(r)'
    BY <1>1, <2>4, <2>7 DEF Names, HoldsNow, Pull
  <2>11. Grown(Seen, reviews)'
    <3>1. Seen' = reviews' /\ reviews' \in Seq(ReviewType)
      BY <1>1, <2>7 DEF Seen, prVars, TypeOK
    <3>2. Grown(reviews', reviews')
      BY <3>1, GrownSame
    <3>3. QED BY <3>1, <3>2 DEF Grown
  <2>12. Lasting'
    <3>1. Seen' = reviews /\ fetch'.contract = fetch.contract /\ fetch'.pull = Pull
      BY <1>1, <2>7 DEF Seen, prVars
    <3>2. QED BY <2>7, <2>9, <3>1 DEF Lasting, Approves, LatestReviews, HumanApproval
  <2>13. FetchInv'
    BY <1>1, <2>2, <2>7, <2>8, <2>10, <2>11, <2>12 DEF FetchInv, prVars
  <2>14. QED BY <1>1, <2>7, <2>13, FetchKeeps
<1>4. QED BY <1>2, <1>3

LEMMA FetchReviewsStep ==
  ASSUME IInv, FetchReviews
  PROVE  IInv'
<1> DEFINE n == IF Len(reviews) < PageSize THEN Len(reviews) ELSE PageSize
           page == SubSeq(reviews, 1, n)
<1>1. /\ TypeOK /\ FetchInv /\ fetch.at = "reviews" /\ UNCHANGED <<repoVars, prVars, rec>>
  BY Parts DEF IInv, FetchReviews
<1>2. /\ Len(reviews) \in Nat /\ n \in 0 .. Len(reviews)
      /\ Len(reviews) <= PageSize => n = Len(reviews)
  <2>1. Len(reviews) \in Nat /\ PageSize \in Nat
    BY <1>1, LenReviews, PlanAssumption
  <2>2. QED BY <2>1
<1>3. /\ page \in Seq(ReviewType) /\ Len(page) = n /\ DOMAIN page = 1 .. n
      /\ \A i \in 1 .. n : page[i] = reviews[i]
  BY <1>1, <1>2 DEF TypeOK
<1>4. Grown(page, reviews)
  BY <1>2, <1>3 DEF Grown
<1>5. Len(reviews) <= PageSize => page = reviews
  BY <1>1, <1>2, <1>3 DEF TypeOK
<1> DEFINE x == [fetch EXCEPT !.reviews = page]
<1>6. fetch' = [x EXCEPT !.at = "evaluate"]
  BY <1>1 DEF FetchReviews, TypeOK, FetchType
<1> HIDE DEF page
<1>7. /\ x \in FetchType /\ x.reviews = page /\ x.pull = fetch.pull
      /\ x.records = fetch.records /\ x.held = fetch.held
      /\ x.contract = fetch.contract /\ x.result = fetch.result
  BY <1>1, <1>3 DEF FetchType, TypeOK
<1> HIDE DEF x
<1>8. /\ fetch' \in FetchType /\ fetch'.at = "evaluate" /\ fetch'.reviews = page
      /\ fetch'.pull = fetch.pull /\ fetch'.records = fetch.records
      /\ fetch'.held = fetch.held /\ fetch'.contract = fetch.contract
      /\ fetch'.result = fetch.result
  BY <1>6, <1>7 DEF FetchType
<1>9. /\ fetch.held \subseteq fetch.records /\ fetch.records \subseteq records
      /\ (\A r \in fetch.held : Names(r)) /\ Lasting /\ fetch.result = None
  BY <1>1 DEF FetchInv
<1>10. Seen = reviews /\ Seen' = page
  BY <1>1, <1>8 DEF Seen
<1>11. Grown(Seen, reviews)'
  BY <1>1, <1>4, <1>10 DEF Grown, prVars
<1>12. Lasting'
  <2>1. Len(reviews) <= PageSize => Seen' = Seen
    BY <1>5, <1>10
  <2>2. reviews' = reviews
    BY <1>1 DEF prVars
  <2>3. QED BY <1>8, <1>9, <2>1, <2>2 DEF Lasting, Approves, LatestReviews, HumanApproval
<1>13. FetchInv'
  BY <1>1, <1>8, <1>9, <1>11, <1>12 DEF FetchInv, Names, prVars
<1>14. QED BY <1>1, <1>8, <1>13, FetchKeeps

\* The record that is chosen was accepted, and so held.
LEMMA FetchEvaluateStep ==
  ASSUME IInv, NEW compared \in SUBSET fetch.records, FetchEvaluate(compared)
  PROVE  IInv'
<1> DEFINE good == {r \in compared : Approves(r, fetch.contract, fetch.pull, fetch.reviews)}
           result == IF good = {} THEN None ELSE CHOOSE r \in good : TRUE
<1>1. /\ TypeOK /\ FetchInv /\ fetch.at = "evaluate" /\ UNCHANGED <<repoVars, prVars, rec>>
      /\ FetchDone(result)
  BY Parts DEF IInv, FetchEvaluate
<1>2. result = None \/ result \in good
  OBVIOUS
<1>3. fetch.held \in SUBSET RecordType /\ fetch.records \in SUBSET RecordType
  BY <1>1 DEF TypeOK, FetchType
<1>4. result # None =>
        /\ result \in RecordType
        /\ Len(reviews) <= PageSize => result \in fetch.held
  <2>1. Lasting /\ Seen = fetch.reviews
    BY <1>1 DEF FetchInv, Seen
  <2>2. QED BY <1>2, <1>3, <2>1 DEF Lasting
<1> HIDE DEF result
<1>5. CASE result = None
  BY <1>1, <1>5, FetchNothing DEF FetchDone
<1>6. CASE result # None
  <2> DEFINE x == [[NoFetch EXCEPT !.held = fetch.held] EXCEPT !.result = result]
  <2>1. fetch' = [x EXCEPT !.at = "done"]
    BY <1>1, <1>6 DEF FetchDone, NoFetch
  <2>2. x \in FetchType /\ x.held = fetch.held /\ x.result = result
    BY <1>3, <1>4, <1>6, NoFetchTyped DEF FetchType
  <2> HIDE DEF x
  <2>3. /\ fetch' \in FetchType /\ fetch'.at = "done" /\ fetch'.held = fetch.held
        /\ fetch'.result = result
    BY <2>1, <2>2 DEF FetchType
  <2>4. FetchInv'
    BY <1>1, <1>4, <1>6, <2>3 DEF FetchInv, prVars
  <2>5. QED BY <1>1, <2>3, <2>4, FetchKeeps
<1>7. QED BY <1>5, <1>6

LEMMA FetchStep ==
  ASSUME IInv, FetchNext
  PROVE  IInv'
<1>1. CASE FetchFails
  BY <1>1, FetchNothing DEF FetchFails, FetchDone
<1>2. QED
  BY <1>1, FetchStartStep, FetchFindStep, FetchReviewsStep, FetchEvaluateStep DEF FetchNext

-----------------------------------------------------------------------------
(* The theorems *)

LEMMA InitOK == Init => IInv
<1> SUFFICES ASSUME Init PROVE IInv
  OBVIOUS
<1>1. TypeOK
  BY NoRecTyped, NoFetchTyped, PlanAssumption DEF Init, TypeOK
<1>2. RecInv
  BY DEF Init, RecInv, NoRec
<1>3. FetchInv
  BY NoFetchTyped DEF Init, FetchInv
<1>4. QED BY <1>1, <1>2, <1>3, Parts DEF IInv

LEMMA NextOK == IInv /\ [Next]_vars => IInv'
<1> SUFFICES ASSUME IInv, [Next]_vars PROVE IInv'
  OBVIOUS
<1>1. CASE UNCHANGED vars
  <2>1. Grown(reviews, reviews)
    BY GrownSame DEF IInv, TypeOK
  <2>2. QED BY <1>1, <2>1, PeopleKeep DEF vars, repoVars, prVars, IInv, TypeOK
<1>2. QED BY <1>1, RecordStep, FetchStep, PeopleStep DEF Next

\* Every record names what plan-approval.mjs checked, and what fetchApprovedPlan
\* holds of its first calls still adds up with the reviews as they are: types
\* and ApprovalInv are invariant.
THEOREM ApprovalInvariant == Spec => [](TypeOK /\ ApprovalInv)
<1>1. Init => IInv
  BY InitOK
<1>2. IInv /\ [Next]_vars => IInv'
  BY NextOK
<1>3. QED BY <1>1, <1>2, PTL DEF Spec, IInv

\* While the reviews fit on the one page that is read, a plan that
\* fetchApprovedPlan returns was approved in full at the moment of its first
\* call, whatever people do to the description, the branch, the base, the issue
\* and the reviews between its calls.
THEOREM FetchedAsOfOneMoment == Spec => [](Len(reviews) <= PageSize => FetchIsAtomic)
<1>1. IInv => (Len(reviews) <= PageSize => FetchIsAtomic)
  BY DEF IInv, ApprovalInv, FetchIsAtomic
<1>2. QED BY <1>1, ApprovalInvariant, PTL DEF IInv

LEMMA StandingIsFound ==
  ASSUME IInv, Len(reviews) <= PageSize
  PROVE  StandingApprovalIsFound
<1> SUFFICES ASSUME fetch.at = "evaluate", NEW r \in fetch.held, Stands(r)
             PROVE  r \in fetch.records /\ Approves(r, fetch.contract, fetch.pull, fetch.reviews)
  BY DEF StandingApprovalIsFound
<1>1. TypeOK /\ RecInv /\ FetchInv
  BY Parts DEF IInv
<1>2. /\ r \in fetch.records /\ r \in records /\ Names(r)
      /\ Seen = fetch.reviews /\ Grown(fetch.reviews, reviews) /\ Lasting
  BY <1>1 DEF FetchInv, Seen
<1>3. WellFounded(r) /\ r.review \in DOMAIN fetch.reviews
  BY <1>1, <1>2 DEF RecInv, Lasting
<1>4. /\ fetch.reviews[r.review].user = r.reviewer
      /\ fetch.reviews[r.review].approves = r.commit
  BY <1>2, <1>3 DEF Grown, Stands, WellFounded
<1>5. r.review \in LatestReviews(fetch.reviews)
  <2>1. /\ DOMAIN fetch.reviews = 1 .. Len(fetch.reviews) /\ Len(fetch.reviews) \in Nat
        /\ Len(reviews) \in Nat /\ Len(fetch.reviews) <= Len(reviews)
    BY <1>1, <1>2 DEF TypeOK, FetchType, Grown
  <2>2. ASSUME NEW j \in DOMAIN fetch.reviews,
               fetch.reviews[j].user = fetch.reviews[r.review].user, ~(j <= r.review)
        PROVE  FALSE
    <3>1. j \in r.review + 1 .. Len(reviews)
      BY <1>3, <2>1, <2>2
    <3>2. reviews[j].user = r.reviewer
      BY <1>2, <1>4, <2>2 DEF Grown
    <3>3. QED BY <3>1, <3>2 DEF Stands
  <2>3. QED BY <1>3, <2>2 DEF LatestReviews
<1>6. QED BY <1>2, <1>3, <1>4, <1>5 DEF Approves, HumanApproval, Names, WellFounded

\* And an approval that held when the pull request was read and still stands is
\* not missed, under the same condition.
THEOREM StandingIsAccepted ==
  Spec => [](Len(reviews) <= PageSize => StandingApprovalIsFound)
<1>1. IInv => (Len(reviews) <= PageSize => StandingApprovalIsFound)
  BY StandingIsFound
<1>2. QED BY <1>1, ApprovalInvariant, PTL DEF IInv

LEMMA ReviewsOnlyGrow ==
  ASSUME TypeOK, [Next]_vars
  PROVE  reviews' \in Seq(ReviewType) /\ Grown(reviews, reviews')
<1>1. CASE reviews' = reviews
  BY <1>1, GrownSame DEF TypeOK
<1>2. CASE \/ \E user \in Users, approved \in BOOLEAN : Review(user, approved)
           \/ \E i \in DOMAIN reviews : Dismiss(i)
  BY <1>2, ReviewsGrow
<1>3. QED
  BY <1>1, <1>2 DEF Next, vars, prVars, repoVars, RecordNext, RecordStart, RecordCheck,
     RecordPost, RecordFails, FetchNext, FetchStart, FetchFind, FetchReviews, FetchEvaluate,
     FetchFails, PeopleNext, AdvanceBase, EditDescription, MoveBranch

\* An approval that is dismissed or that a later review of the same person
\* replaces never counts again, with any number of reviews.
THEOREM LapsedStaysLapsed == Spec => LapsedApprovalsStayLapsed
<1>1. ASSUME IInv, [Next]_vars, NEW r \in records, r.review \notin Effective(reviews)
      PROVE  r.review \notin Effective(reviews')
  <2>1. /\ reviews \in Seq(ReviewType) /\ reviews' \in Seq(ReviewType)
        /\ Grown(reviews, reviews') /\ r.review \in DOMAIN reviews
    BY <1>1, ReviewsOnlyGrow, Parts DEF IInv, TypeOK, RecInv, WellFounded
  <2>2. \A i \in DOMAIN reviews : i \in DOMAIN reviews'
    BY <2>1 DEF Grown
  <2>3. CASE reviews[r.review].approves = None
    BY <2>1, <2>3 DEF Effective, Grown
  <2>4. CASE r.review \notin LatestReviews(reviews)
    <3>1. PICK j \in DOMAIN reviews : reviews[j].user = reviews[r.review].user /\ ~(j <= r.review)
      BY <2>1, <2>4 DEF LatestReviews
    <3>2. reviews'[j].user = reviews'[r.review].user
      BY <2>1, <3>1 DEF Grown
    <3>3. QED BY <2>2, <3>1, <3>2 DEF Effective, LatestReviews
  <2>5. QED BY <1>1, <2>3, <2>4 DEF Effective
<1>2. IInv /\ [Next]_vars =>
        [\A r \in records : r.review \notin Effective(reviews)
                              => r.review \notin Effective(reviews')]_vars
  BY <1>1
<1>3. QED BY <1>2, ApprovalInvariant, PTL DEF Spec, IInv, LapsedApprovalsStayLapsed

\* A fetch is never beyond its script, and what it holds are plans, commits and
\* records of the right kinds (plan-approval.mjs, main and fetchApprovedPlan).
THEOREM ApprovalTypes == Spec => []TypeOK
<1>1. QED BY ApprovalInvariant, PTL
=============================================================================
