-------------------------- MODULE AgentLoopProofs --------------------------
(***************************************************************************)
(* That the Stop hook lets an agent stop only on a report of this run that   *)
(* is true, for any checks, trees, tasks and plans, however often others      *)
(* edit and run the suites and the gate is killed, and although HEAD,         *)
(* contract or plan is replaced once while it runs; that a plan it accepts    *)
(* is inside its task, for any patterns; and that every step of it brings     *)
(* the end of the turn nearer.                                               *)
(***************************************************************************)
EXTENDS AgentLoop, SequenceTheorems, WellFoundedInduction, TLAPS

\* TypeOK and GateInv together are inductive.
IInv == TypeOK /\ GateInv

-----------------------------------------------------------------------------
(* The checks and the steps of the gate *)

LEMMA GatedIs ==
  /\ Len(Scans) \in Nat /\ Len(Gated) = Len(Scans) + 4 /\ DOMAIN Gated = 1 .. Len(Gated)
  /\ Gated[1] = "quality" /\ Gated[2] = "acceptance"
  /\ \A n \in 1 .. Len(Scans) : Gated[n + 2] = Scans[n]
  /\ Gated[Len(Scans) + 3] = "scope-policy" /\ Gated[Len(Scans) + 4] = "merge-validation"
<1> DEFINE S == {"dependency-review", "secret-scan", "governance-policy"}
           T == S \cup {"quality", "acceptance", "scope-policy", "merge-validation"}
           a == <<"quality", "acceptance">>
           c == <<"scope-policy", "merge-validation">>
<1>1. Scans \in Seq(T) /\ Len(Scans) \in Nat
  <2>1. Scans \in Seq(S)
    BY AgentAssumption
  <2>2. Len(Scans) \in Nat /\ Scans \in [1 .. Len(Scans) -> S]
    BY <2>1, LenProperties
  <2>3. Scans \in [1 .. Len(Scans) -> T]
    BY <2>2
  <2>4. QED BY <2>2, <2>3
<1>2. /\ a \in Seq(T) /\ Len(a) = 2 /\ a[1] = "quality" /\ a[2] = "acceptance"
      /\ c \in Seq(T) /\ Len(c) = 2 /\ c[1] = "scope-policy" /\ c[2] = "merge-validation"
  OBVIOUS
<1> HIDE DEF a, c, T
<1> DEFINE b == a \o Scans
<1>3. /\ b \in Seq(T) /\ Len(b) = Len(Scans) + 2
      /\ \A i \in 1 .. Len(Scans) + 2 : b[i] = IF i <= 2 THEN a[i] ELSE Scans[i - 2]
  <2>1. /\ b \in Seq(T) /\ Len(b) = Len(a) + Len(Scans)
        /\ \A i \in 1 .. Len(a) + Len(Scans) :
             b[i] = IF i <= Len(a) THEN a[i] ELSE Scans[i - Len(a)]
    BY <1>1, <1>2, ConcatProperties
  <2> HIDE DEF b
  <2>2. QED BY <1>1, <1>2, <2>1
<1> HIDE DEF b
<1> DEFINE d == b \o c
<1>4. /\ d \in Seq(T) /\ Len(d) = Len(Scans) + 4
      /\ \A i \in 1 .. Len(Scans) + 4 :
           d[i] = IF i <= Len(Scans) + 2 THEN b[i] ELSE c[i - (Len(Scans) + 2)]
  <2>1. /\ d \in Seq(T) /\ Len(d) = Len(b) + Len(c)
        /\ \A i \in 1 .. Len(b) + Len(c) :
             d[i] = IF i <= Len(b) THEN b[i] ELSE c[i - Len(b)]
    BY <1>2, <1>3, ConcatProperties
  <2> HIDE DEF d
  <2>2. QED BY <1>1, <1>2, <1>3, <2>1
<1>5. Gated = d
  BY DEF Gated, a, b, c, d
<1> HIDE DEF d
<1>6. d[1] = "quality" /\ d[2] = "acceptance"
  BY <1>1, <1>2, <1>3, <1>4
<1>7. d[Len(Scans) + 3] = "scope-policy" /\ d[Len(Scans) + 4] = "merge-validation"
  BY <1>1, <1>2, <1>4
<1>8. \A n \in 1 .. Len(Scans) : d[n + 2] = Scans[n]
  BY <1>1, <1>3, <1>4
<1>9. DOMAIN d = 1 .. Len(d)
  BY <1>4, LenProperties
<1>10. QED BY <1>1, <1>4, <1>5, <1>6, <1>7, <1>8, <1>9

\* No two checks are the same, and none is one that only hosted runs can pass.
LEMMA GatedOnce ==
  /\ \A m, n \in DOMAIN Gated : Gated[m] = Gated[n] => m = n
  /\ \A n \in DOMAIN Gated :
       Gated[n] \in {"quality", "acceptance", "dependency-review", "secret-scan",
                     "governance-policy", "scope-policy", "merge-validation"}
<1>1. ASSUME NEW n \in DOMAIN Gated
      PROVE  \/ n = 1 /\ Gated[n] = "quality"
             \/ n = 2 /\ Gated[n] = "acceptance"
             \/ /\ n - 2 \in DOMAIN Scans /\ Gated[n] = Scans[n - 2]
                /\ Gated[n] \in {"dependency-review", "secret-scan", "governance-policy"}
             \/ n = Len(Scans) + 3 /\ Gated[n] = "scope-policy"
             \/ n = Len(Scans) + 4 /\ Gated[n] = "merge-validation"
  <2>1. CASE n \in 3 .. Len(Scans) + 2
    <3>1. n - 2 \in 1 .. Len(Scans) /\ DOMAIN Scans = 1 .. Len(Scans)
      BY <2>1, GatedIs, AgentAssumption
    <3>2. Gated[(n - 2) + 2] = Scans[n - 2] /\ (n - 2) + 2 = n
      BY <3>1, <2>1, GatedIs
    <3>3. Scans[n - 2] \in {"dependency-review", "secret-scan", "governance-policy"}
      BY <3>1, AgentAssumption
    <3>4. QED BY <3>1, <3>2, <3>3
  <2>2. CASE n \notin 3 .. Len(Scans) + 2
    BY <2>2, GatedIs
  <2>3. QED BY <2>1, <2>2
<1>2. ASSUME NEW m \in DOMAIN Gated, NEW n \in DOMAIN Gated, Gated[m] = Gated[n]
      PROVE  m = n
  <2>1. m \in Int /\ n \in Int
    BY GatedIs
  <2>2. CASE m - 2 \in DOMAIN Scans /\ n - 2 \in DOMAIN Scans
             /\ Gated[m] = Scans[m - 2] /\ Gated[n] = Scans[n - 2]
    <3>1. m - 2 = n - 2
      BY <1>2, <2>2, AgentAssumption
    <3>2. QED BY <2>1, <3>1
  <2>3. QED BY <1>1, <1>2, <2>1, <2>2
<1>3. QED BY <1>1, <1>2

LEMMA Steps ==
  /\ Len(Gated) \in Nat /\ DOMAIN Gated = 1 .. Len(Gated) /\ Len(Gated) >= 4
  /\ ReportStep = 2 * Len(Gated) + 3 /\ VerdictStep = 2 * Len(Gated) + 4
  /\ {0, 1, 2, 3} \subseteq 0 .. VerdictStep
  BY GatedIs DEF ReportStep, VerdictStep

-----------------------------------------------------------------------------
(* Types *)

LEMMA GateAt ==
  ASSUME NEW g \in GateType, NEW n \in 0 .. VerdictStep
  PROVE  /\ [g EXCEPT !.at = n] \in GateType /\ [g EXCEPT !.at = n].at = n
         /\ [g EXCEPT !.at = n].base = g.base /\ [g EXCEPT !.at = n].ok = g.ok
         /\ [g EXCEPT !.at = n].failed = g.failed
  BY DEF GateType

LEMMA NoGateTyped ==
  /\ NoGate \in GateType /\ NoGate.at = 0 /\ NoGate.ok = TRUE /\ NoGate.failed = {}
  BY Steps DEF NoGate, GateType

LEMMA GateBegins ==
  ASSUME NEW g, g = [NoGate EXCEPT !.at = 1, !.together = Together]
  PROVE  /\ g \in GateType /\ g.at = 1 /\ g.ok = TRUE /\ g.failed = {}
         /\ g.together <=> Together
<1> DEFINE y == [NoGate EXCEPT !.at = 1]
           b == Together
<1>1. b \in BOOLEAN
  BY DEF Together
<1>2. y \in GateType /\ y.at = 1 /\ y.ok = TRUE /\ y.failed = {}
  BY Steps, NoGateTyped, GateAt
<1>3. g = [y EXCEPT !.together = b]
  BY DEF NoGate
<1> HIDE DEF y, b
<1>4. g \in GateType /\ g.at = 1 /\ g.ok = TRUE /\ g.failed = {} /\ g.together = b
  BY <1>1, <1>2, <1>3 DEF GateType
<1>5. QED BY <1>1, <1>4 DEF b

LEMMA GateBoth ==
  ASSUME NEW g \in GateType, NEW n \in 0 .. VerdictStep, NEW b \in BOOLEAN
  PROVE  LET h == [g EXCEPT !.at = n, !.ok = b]
         IN  h \in GateType /\ h.at = n /\ h.ok = b /\ h.base = g.base /\ h.failed = g.failed
  BY DEF GateType

RecordsOK(R) ==
  \A r \in R : /\ r.id \in Recorded /\ r.status \in Report!Statuses /\ r.head \in Trees
               /\ {q \in R : q.id = r.id} = {r}

\* The parts of TypeOK.
LEMMA TypeParts ==
  TypeOK <=>
    /\ tree \in Trees /\ commit \in Trees
    /\ contract \in Contracts \cup {None} /\ plan \in Plans \cup {None}
    /\ unit \in SuiteType \cup {None} /\ acceptance \in SuiteType \cup {None}
    /\ RecordsOK(records)
    /\ report \in ReportType \cup {None}
    /\ gate \in GateType
    /\ turn \in {"working", "stopping", "over"} /\ active \in BOOLEAN
    /\ verdict \in {"none", "unverified", "passed", "blocked"}
    /\ gate.at # 0 => turn = "stopping" /\ ~active
    /\ touched \in 0 .. MaxEvents /\ turns \in 1 .. MaxTurns /\ events \in 0 .. MaxEvents
  BY DEF TypeOK, files, session, RecordsOK

LEMMA TypePartsPrimed ==
  TypeOK' <=>
    /\ tree' \in Trees /\ commit' \in Trees
    /\ contract' \in Contracts \cup {None} /\ plan' \in Plans \cup {None}
    /\ unit' \in SuiteType \cup {None} /\ acceptance' \in SuiteType \cup {None}
    /\ RecordsOK(records')
    /\ report' \in ReportType \cup {None}
    /\ gate' \in GateType
    /\ turn' \in {"working", "stopping", "over"} /\ active' \in BOOLEAN
    /\ verdict' \in {"none", "unverified", "passed", "blocked"}
    /\ gate'.at # 0 => turn' = "stopping" /\ ~active'
    /\ touched' \in 0 .. MaxEvents /\ turns' \in 1 .. MaxTurns /\ events' \in 0 .. MaxEvents
  BY DEF TypeOK, files, session, RecordsOK

\* A record that is written is the only one of its check, and of the others
\* none is lost.
LEMMA WriteOne ==
  ASSUME NEW R, RecordsOK(R), NEW id \in Recorded, NEW status \in Report!Statuses,
         NEW head \in Trees, NEW run, NEW digest,
         NEW Q, Q = Report!WriteRecord(R, Report!CheckRecord(id, status, head, run, digest))
  PROVE  /\ RecordsOK(Q)
         /\ \E r \in Q : r.id = id /\ r.status = status
         /\ \A r \in R : r.id # id => r \in Q
<1> DEFINE n == Report!CheckRecord(id, status, head, run, digest)
<1>1. n.id = id /\ n.status = status /\ n.head = head
  BY DEF Report!CheckRecord
<1>2. Q = {r \in R : r.id # n.id} \cup {n}
  BY DEF Report!WriteRecord
<1> HIDE DEF n
<1>3. ASSUME NEW r \in Q
      PROVE  /\ r.id \in Recorded /\ r.status \in Report!Statuses /\ r.head \in Trees
             /\ {q \in Q : q.id = r.id} = {r}
  <2>1. CASE r = n
    BY <1>1, <1>2, <2>1
  <2>2. CASE r # n
    <3>1. r \in R /\ r.id # n.id
      BY <1>2, <2>2
    <3>2. \A q \in Q : q.id = r.id => q \in {p \in R : p.id = r.id}
      BY <1>2, <3>1
    <3>3. {p \in R : p.id = r.id} = {r}
      BY <3>1 DEF RecordsOK
    <3>4. QED BY <3>1, <3>2, <3>3 DEF RecordsOK
  <2>3. QED BY <2>1, <2>2
<1>4. QED BY <1>1, <1>2, <1>3 DEF RecordsOK

-----------------------------------------------------------------------------
(* The parts of GateInv *)

ToldInv ==
  gate.at # 0 =>
    /\ gate.failed \subseteq {Gated[n] : n \in {m \in DOMAIN Gated : gate.at > RecordStep(m)}}
    /\ \A n \in DOMAIN Gated : gate.at > RecordStep(n) => Told(n)

FreshInv ==
  gate.at # 0 /\ touched = 0 =>
    /\ contract # None
    /\ gate.at >= 2 => plan # None /\ gate.base = PlanOf[plan].base
    /\ \A n \in DOMAIN Gated : gate.at = RecordStep(n) /\ gate.ok => Found(Gated[n])
    /\ gate.at = VerdictStep => ReportIsCurrent

PassInv == verdict = "passed" => turn = "over" /\ (touched = 0 => Ready /\ ReportIsCurrent)

SupportInv == report # None /\ report.touched = 0 => ReadyIsSupported

LEMMA Parts == GateInv <=> touched <= events /\ ToldInv /\ FreshInv /\ PassInv /\ SupportInv
  BY DEF GateInv, ToldInv, FreshInv, PassInv, SupportInv

LEMMA PartsPrimed ==
  GateInv' <=> touched' <= events' /\ ToldInv' /\ FreshInv' /\ PassInv' /\ SupportInv'
  BY DEF GateInv, ToldInv, FreshInv, PassInv, SupportInv

\* A gate that ends or is none leaves little to show.
LEMMA NoGateRuns ==
  ASSUME IInv, gate' \in GateType, gate'.at = 0,
         tree' \in Trees, commit' \in Trees, UNCHANGED <<contract, plan, suites, records, report>>,
         turn' \in {"working", "stopping", "over"}, active' \in BOOLEAN,
         verdict' \in {"none", "unverified", "blocked"},
         touched' \in 0 .. MaxEvents, turns' \in 1 .. MaxTurns, events' \in 0 .. MaxEvents,
         touched' <= events'
  PROVE  IInv'
<1>1. TypeOK'
  BY TypeParts, TypePartsPrimed DEF IInv, suites
<1>2. SupportInv'
  BY Parts DEF IInv, SupportInv, ReadyIsSupported, Ready
<1>3. ToldInv' /\ FreshInv' /\ PassInv'
  BY DEF ToldInv, FreshInv, PassInv
<1>4. QED BY <1>1, <1>2, <1>3, PartsPrimed DEF IInv

LEMMA BlockStep ==
  ASSUME IInv, Block, UNCHANGED <<files, suites, records, report, touched, bounds>>
  PROVE  IInv'
<1>1. gate' \in GateType /\ gate'.at = 0
  <2>1. gate \in GateType /\ 0 \in 0 .. VerdictStep
    BY TypeParts, Steps DEF IInv
  <2>2. QED BY <2>1, GateAt DEF Block
<1>2. touched <= events
  BY DEF IInv, GateInv
<1>3. QED BY <1>1, <1>2, NoGateRuns, TypeParts DEF Block, IInv, files, bounds

LEMMA LetStopStep ==
  ASSUME IInv, LetStop("unverified"), UNCHANGED <<files, suites, records, report, touched, turns>>,
         events' = events \/ (events' = events + 1 /\ events < MaxEvents)
  PROVE  IInv'
<1>1. gate' \in GateType /\ gate'.at = 0
  <2>1. gate \in GateType /\ 0 \in 0 .. VerdictStep
    BY TypeParts, Steps DEF IInv
  <2>2. QED BY <2>1, GateAt DEF LetStop
<1>2. /\ touched <= events /\ touched \in 0 .. MaxEvents /\ events \in 0 .. MaxEvents
      /\ MaxEvents \in Nat
  BY TypeParts, AgentAssumption DEF IInv, GateInv
<1>3. events' \in 0 .. MaxEvents /\ touched <= events'
  BY <1>2
<1>4. QED BY <1>1, <1>2, <1>3, NoGateRuns, TypeParts DEF LetStop, IInv, files

-----------------------------------------------------------------------------
(* The steps of the gate *)

\* What the gate has been told stays, while the files stay.
LEMMA FoundStays ==
  ASSUME UNCHANGED <<commit, contract, plan>>, gate'.base = gate.base, NEW id, Found(id)
  PROVE  Found(id)'
  BY DEF Found, ScopeHolds, ExecutionContext, CheckMerge

LEMMA BeginStep ==
  ASSUME IInv, Begin
  PROVE  IInv'
<1>1. CASE LetStop("unverified") /\ UNCHANGED touched
  <2>1. UNCHANGED <<files, suites, records, report, touched, turns>> /\ events' = events
    BY <1>1 DEF Begin, bounds
  <2>2. QED BY <1>1, <2>1, LetStopStep
<1>2. CASE /\ contract # None /\ gate' = [NoGate EXCEPT !.at = 1, !.together = Together]
           /\ touched' = 0 /\ UNCHANGED session /\ ~active
  <2>1. /\ gate' \in GateType /\ gate'.at = 1 /\ gate'.ok = TRUE /\ gate'.failed = {}
    BY <1>2, GateBegins
  <2>2. /\ UNCHANGED <<tree, commit, contract, plan, unit, acceptance, records, report, turns, events>>
        /\ UNCHANGED <<turn, active, verdict>> /\ turn = "stopping"
    BY <1>2 DEF Begin, files, suites, session, bounds
  <2>3. touched' \in 0 .. MaxEvents /\ touched' <= events'
    BY <1>2, <2>2, AgentAssumption, TypeParts DEF IInv
  <2>4. TypeOK'
    BY <1>2, <2>1, <2>2, <2>3, TypeParts, TypePartsPrimed DEF IInv
  <2>5. ToldInv'
    BY <2>1, Steps DEF ToldInv, RecordStep
  <2>6. FreshInv'
    <3>1. VerdictStep # 1 /\ ~(1 >= 2)
      BY Steps
    <3>2. \A n \in DOMAIN Gated : RecordStep(n) # 1
      BY Steps DEF RecordStep
    <3>3. contract' # None
      BY <1>2, <2>2
    <3>4. QED BY <2>1, <3>1, <3>2, <3>3 DEF FreshInv
  <2>7. PassInv'
    BY <2>2, Parts DEF IInv, PassInv
  <2>8. SupportInv'
    BY <2>2, Parts DEF IInv, SupportInv, ReadyIsSupported, Ready
  <2>9. QED BY <2>3, <2>4, <2>5, <2>6, <2>7, <2>8, PartsPrimed DEF IInv
<1>3. QED BY <1>1, <1>2 DEF Begin

\* A step after which the gate goes on: what has to be shown of it.
LEMMA GateGoesOn ==
  ASSUME IInv, gate.at # 0, gate' \in GateType, gate'.at # 0,
         UNCHANGED <<files, report, session, touched, bounds>>,
         unit' \in SuiteType \cup {None}, acceptance' \in SuiteType \cup {None},
         RecordsOK(records'), ToldInv', FreshInv'
  PROVE  IInv'
<1>1. TypeOK'
  BY TypeParts, TypePartsPrimed DEF IInv, files, session, bounds
<1>2. verdict' # "passed"
  BY TypeParts, Parts DEF IInv, PassInv, session
<1>3. PassInv'
  BY <1>2 DEF PassInv
<1>4. SupportInv'
  BY Parts DEF IInv, SupportInv, ReadyIsSupported, Ready
<1>5. touched' <= events'
  BY Parts DEF IInv, bounds
<1>6. QED BY <1>1, <1>3, <1>4, <1>5, PartsPrimed DEF IInv

LEMMA ReadPlanStep ==
  ASSUME IInv, ReadPlan
  PROVE  IInv'
<1>1. CASE Block
  BY <1>1, BlockStep DEF ReadPlan
<1>2. CASE /\ plan # None /\ gate' = [gate EXCEPT !.at = 2, !.base = PlanOf[plan].base]
           /\ UNCHANGED session
  <2>1. gate \in GateType /\ plan \in Plans /\ gate.at = 1
    BY <1>2, TypeParts DEF IInv, ReadPlan
  <2>2. /\ gate' \in GateType /\ gate'.at = 2 /\ gate'.ok = gate.ok
        /\ gate'.failed = gate.failed /\ gate'.base = PlanOf[plan].base
    <3> DEFINE y == [gate EXCEPT !.base = PlanOf[plan].base]
    <3>1. /\ y \in GateType /\ y.ok = gate.ok /\ y.failed = gate.failed
          /\ y.base = PlanOf[plan].base
      BY <2>1 DEF GateType
    <3>2. gate' = [y EXCEPT !.at = 2]
      BY <1>2, <2>1 DEF GateType
    <3> HIDE DEF y
    <3>3. 2 \in 0 .. VerdictStep
      BY Steps
    <3>4. QED BY <3>1, <3>2, <3>3, GateAt
  <2>3. /\ \A n \in DOMAIN Gated : RecordStep(n) # 2 /\ ~(2 > RecordStep(n)) /\ ~(1 > RecordStep(n))
        /\ VerdictStep # 2
    BY Steps DEF RecordStep
  <2>4. gate.failed = {}
    BY <2>1, <2>3, Parts DEF IInv, ToldInv
  <2>5. ToldInv'
    BY <2>2, <2>3, <2>4 DEF ToldInv
  <2>6. UNCHANGED <<contract, plan, touched>>
    BY DEF ReadPlan, files
  <2>7. FreshInv'
    BY <1>2, <2>1, <2>2, <2>3, <2>6, Parts DEF IInv, FreshInv
  <2>8. QED BY <1>2, <2>1, <2>2, <2>5, <2>7, GateGoesOn, TypeParts DEF IInv, ReadPlan, suites
<1>3. QED BY <1>1, <1>2 DEF ReadPlan

LEMMA RecordPlanStep ==
  ASSUME IInv, RecordPlan
  PROVE  IInv'
<1>1. /\ gate.at = 2 /\ gate \in GateType /\ commit \in Trees /\ RecordsOK(records)
      /\ UNCHANGED <<files, suites, report, session, touched, bounds>>
      /\ gate' = [gate EXCEPT !.at = CheckStep(1)]
  BY TypeParts DEF IInv, RecordPlan
<1>2. CheckStep(1) = 3 /\ 3 \in 0 .. VerdictStep
  BY Steps DEF CheckStep
<1>3. /\ gate' \in GateType /\ gate'.at = 3 /\ gate'.base = gate.base
      /\ gate'.failed = gate.failed
  BY <1>1, <1>2, GateAt
<1>4. RecordsOK(records')
  <2>1. "plan-contract" \in Recorded /\ "pass" \in Report!Statuses
    BY DEF Recorded, Report!Statuses
  <2>2. records' = Report!WriteRecord(records,
          Report!CheckRecord("plan-contract", "pass", commit, None, Artifact("plan-contract")))
    BY DEF RecordPlan, Record
  <2>3. QED BY <1>1, <2>1, <2>2, WriteOne
<1>5. /\ \A n \in DOMAIN Gated : RecordStep(n) # 3 /\ ~(3 > RecordStep(n)) /\ ~(2 > RecordStep(n))
      /\ VerdictStep # 3
  BY Steps DEF RecordStep
<1>6. gate.failed = {}
  BY <1>1, <1>5, Parts DEF IInv, ToldInv
<1>7. ToldInv'
  BY <1>3, <1>5, <1>6 DEF ToldInv
<1>8. FreshInv'
  BY <1>1, <1>3, <1>5, Parts DEF IInv, FreshInv, files
<1>9. QED BY <1>1, <1>3, <1>4, <1>7, <1>8, GateGoesOn, TypeParts DEF IInv, suites

\* A check runs: what it answers of the files is what they are.
LEMMA RunCheckStep ==
  ASSUME IInv, NEW n \in DOMAIN Gated, RunCheck(n)
  PROVE  IInv'
<1>1. /\ gate.at = CheckStep(n) /\ gate \in GateType
      /\ UNCHANGED <<files, records, report, session, touched, bounds>>
      /\ tree \in Trees /\ unit \in SuiteType \cup {None} /\ acceptance \in SuiteType \cup {None}
  BY TypeParts DEF IInv, RunCheck
<1>2. PICK available \in BOOLEAN :
        /\ RunSuites(Gated[n], available)
        /\ gate' = [gate EXCEPT !.at = RecordStep(n), !.ok = available /\ Passes(Gated[n])]
  BY DEF RunCheck
<1>3. unit' \in SuiteType \cup {None} /\ acceptance' \in SuiteType \cup {None}
  <2>1. Ran(tree, "gate") \in SuiteType /\ [Ran(tree, "gate") EXCEPT !.broken = TRUE] \in SuiteType
    BY <1>1 DEF Ran, SuiteType
  <2>2. CASE Gated[n] = "quality"
    BY <1>1, <1>2, <2>1, <2>2 DEF RunSuites
  <2>3. CASE Gated[n] = "acceptance"
    BY <1>1, <1>2, <2>1, <2>3 DEF RunSuites
  <2>4. CASE Gated[n] # "quality" /\ Gated[n] # "acceptance"
    BY <1>1, <1>2, <2>4 DEF RunSuites, suites
  <2>5. QED BY <2>2, <2>3, <2>4
<1>4. /\ RecordStep(n) \in 0 .. VerdictStep /\ CheckStep(n) = RecordStep(n) - 1
      /\ CheckStep(n) >= 3 /\ RecordStep(n) >= 4 /\ RecordStep(n) # VerdictStep
  BY Steps DEF CheckStep, RecordStep
<1> DEFINE ok == available /\ Passes(Gated[n])
<1>5. ok => Passes(Gated[n])
  OBVIOUS
<1>6. gate' = [gate EXCEPT !.at = RecordStep(n), !.ok = ok] /\ ok \in BOOLEAN
  BY <1>2
<1> HIDE DEF ok
<1>7. /\ gate' \in GateType /\ gate'.at = RecordStep(n) /\ gate'.ok = ok
      /\ gate'.base = gate.base /\ gate'.failed = gate.failed
  <2>1. /\ [gate EXCEPT !.at = RecordStep(n), !.ok = ok] \in GateType
        /\ [gate EXCEPT !.at = RecordStep(n), !.ok = ok].at = RecordStep(n)
        /\ [gate EXCEPT !.at = RecordStep(n), !.ok = ok].ok = ok
        /\ [gate EXCEPT !.at = RecordStep(n), !.ok = ok].base = gate.base
        /\ [gate EXCEPT !.at = RecordStep(n), !.ok = ok].failed = gate.failed
    BY <1>1, <1>4, <1>6 DEF GateType
  <2>2. QED BY <1>6, <2>1
<1>8. \A m \in DOMAIN Gated : /\ RecordStep(n) > RecordStep(m) <=> CheckStep(n) > RecordStep(m)
                              /\ RecordStep(n) = RecordStep(m) => m = n
  BY Steps DEF CheckStep, RecordStep
<1>9. UNCHANGED <<commit, contract, plan, touched, records>>
  BY <1>1 DEF files
<1>10. ToldInv'
  <2>1. gate.at # 0
    BY <1>1, <1>4
  <2>2. ASSUME NEW m \in DOMAIN Gated, gate'.at > RecordStep(m)
        PROVE  Told(m)'
    <3>1. Told(m)
      BY <1>1, <1>7, <1>8, <2>1, <2>2, Parts DEF IInv, ToldInv
    <3>2. Found(Gated[m]) => Found(Gated[m])'
      BY <1>7, <1>9, FoundStays
    <3>3. QED BY <1>7, <1>9, <3>1, <3>2 DEF Told
  <2>3. gate'.failed \subseteq {Gated[k] : k \in {m \in DOMAIN Gated : gate'.at > RecordStep(m)}}
    BY <1>1, <1>7, <1>8, <2>1, Parts DEF IInv, ToldInv
  <2>4. QED BY <2>2, <2>3 DEF ToldInv
<1>11. FreshInv'
  <2>1. SUFFICES ASSUME touched = 0
                 PROVE  /\ contract # None /\ plan # None /\ gate.base = PlanOf[plan].base
                        /\ ok => Found(Gated[n])'
    BY <1>4, <1>7, <1>8, <1>9 DEF FreshInv
  <2>2. contract # None /\ plan # None /\ gate.base = PlanOf[plan].base
    BY <1>1, <1>4, <2>1, Parts DEF IInv, FreshInv
  <2>3. ok => Found(Gated[n])
    BY <1>5 DEF Passes, Found
  <2>4. QED BY <1>7, <1>9, <2>2, <2>3, FoundStays
<1>12. RecordsOK(records')
  BY <1>9, TypeParts DEF IInv
<1>13. QED BY <1>1, <1>3, <1>4, <1>7, <1>10, <1>11, <1>12, GateGoesOn

\* It is recorded: the record says what the check answered, and those of the
\* checks before it stay.
LEMMA RecordCheckStep ==
  ASSUME IInv, NEW n \in DOMAIN Gated, RecordCheck(n)
  PROVE  IInv'
<1>1. /\ gate.at = RecordStep(n) /\ gate \in GateType /\ commit \in Trees /\ RecordsOK(records)
      /\ UNCHANGED <<files, suites, report, session, touched, bounds>>
      /\ gate' = [gate EXCEPT !.at = CheckStep(n + 1), !.ok = TRUE,
                              !.failed = IF gate.ok THEN @ ELSE @ \cup {Gated[n]}]
  BY TypeParts DEF IInv, RecordCheck
<1>2. /\ CheckStep(n + 1) \in 0 .. VerdictStep /\ CheckStep(n + 1) = RecordStep(n) + 1
      /\ RecordStep(n) >= 4 /\ CheckStep(n + 1) # VerdictStep
      /\ RecordStep(n) >= 2 /\ CheckStep(n + 1) # 0 /\ RecordStep(n) # 0
  BY Steps DEF CheckStep, RecordStep
<1> DEFINE failed == IF gate.ok THEN gate.failed ELSE gate.failed \cup {Gated[n]}
           y == [gate EXCEPT !.failed = failed]
<1>3. gate' = [y EXCEPT !.at = CheckStep(n + 1), !.ok = TRUE]
  BY <1>1 DEF GateType
<1>4. Gated[n] \in Recorded /\ failed \in SUBSET Recorded /\ gate.ok \in BOOLEAN
  BY <1>1 DEF Recorded, GateType
<1>5. Gated[n] \in failed <=> ~gate.ok \/ Gated[n] \in gate.failed
  OBVIOUS
<1>6. gate.failed \subseteq failed /\ failed \subseteq gate.failed \cup {Gated[n]}
  OBVIOUS
<1> HIDE DEF failed
<1>7. y \in GateType /\ y.failed = failed /\ y.base = gate.base
  BY <1>1, <1>4 DEF GateType
<1> HIDE DEF y
<1>8. /\ gate' \in GateType /\ gate'.at = CheckStep(n + 1) /\ gate'.ok = TRUE
      /\ gate'.base = gate.base /\ gate'.failed = failed
  BY <1>2, <1>3, <1>7, GateBoth
<1>9. \A m \in DOMAIN Gated : /\ CheckStep(n + 1) > RecordStep(m) <=> m = n \/ RecordStep(n) > RecordStep(m)
                              /\ CheckStep(n + 1) # RecordStep(m)
                              /\ ~(RecordStep(n) > RecordStep(n))
  BY Steps DEF CheckStep, RecordStep
<1>10. ToldInv /\ FreshInv /\ gate.at # 0
  BY <1>1, <1>2, Parts DEF IInv
<1>11. Gated[n] \notin gate.failed
  BY <1>1, <1>9, <1>10, GatedOnce DEF ToldInv
<1>12. /\ RecordsOK(records')
       /\ \E r \in records' : r.id = Gated[n] /\ r.status = IF gate.ok THEN "pass" ELSE "fail"
       /\ \A r \in records : r.id # Gated[n] => r \in records'
  <2> DEFINE status == IF gate.ok THEN "pass" ELSE "fail"
  <2>1. status \in Report!Statuses
    BY DEF Report!Statuses
  <2>2. records' = Report!WriteRecord(records,
          Report!CheckRecord(Gated[n], status, commit, None, Artifact(Gated[n])))
    BY DEF RecordCheck, Record
  <2> HIDE DEF status
  <2>3. /\ RecordsOK(records')
        /\ \E r \in records' : r.id = Gated[n] /\ r.status = status
        /\ \A r \in records : r.id # Gated[n] => r \in records'
    BY <1>1, <1>4, <2>1, <2>2, WriteOne
  <2>4. QED BY <2>3 DEF status
<1>13. UNCHANGED <<commit, contract, plan, touched>>
  BY <1>1 DEF files
<1>14. ASSUME NEW m \in DOMAIN Gated, CheckStep(n + 1) > RecordStep(m)
       PROVE  Told(m)'
  <2>1. CASE m = n
    <3>1. \E r \in records' : r.id = Gated[n] /\ (r.status = "pass" <=> Gated[n] \notin failed)
      BY <1>4, <1>5, <1>11, <1>12
    <3>2. touched = 0 /\ Gated[n] \notin failed => Found(Gated[n])
      BY <1>1, <1>5, <1>10 DEF FreshInv
    <3>3. Found(Gated[n]) => Found(Gated[n])'
      BY <1>8, <1>13, FoundStays
    <3>4. QED BY <1>8, <1>13, <2>1, <3>1, <3>2, <3>3 DEF Told
  <2>2. CASE m # n
    <3>1. Told(m) /\ Gated[m] # Gated[n]
      BY <1>1, <1>9, <1>10, <1>14, <2>2, GatedOnce DEF ToldInv
    <3>2. Gated[m] \in failed <=> Gated[m] \in gate.failed
      BY <1>6, <3>1
    <3>3. Found(Gated[m]) => Found(Gated[m])'
      BY <1>8, <1>13, FoundStays
    <3>4. QED BY <1>8, <1>12, <1>13, <3>1, <3>2, <3>3 DEF Told
  <2>3. QED BY <2>1, <2>2
<1>15. ToldInv'
  <2>1. failed \subseteq {Gated[k] : k \in {m \in DOMAIN Gated : CheckStep(n + 1) > RecordStep(m)}}
    BY <1>1, <1>6, <1>9, <1>10 DEF ToldInv
  <2>2. QED BY <1>8, <1>14, <2>1 DEF ToldInv
<1>16. FreshInv'
  <2>1. SUFFICES ASSUME touched = 0
                 PROVE  contract # None /\ plan # None /\ gate.base = PlanOf[plan].base
    BY <1>2, <1>8, <1>9, <1>13 DEF FreshInv
  <2>2. QED BY <1>1, <1>2, <1>10, <2>1 DEF FreshInv
<1>17. QED BY <1>1, <1>2, <1>8, <1>10, <1>12, <1>15, <1>16, GateGoesOn, TypeParts DEF IInv, suites

-----------------------------------------------------------------------------
(* The report *)

LEMMA EvidenceIs ==
  /\ Evidence.checks = IF plan = None THEN {} ELSE PlanOf[plan].checks
  /\ Evidence.criteria = ContractOf[contract].criteria
  /\ Evidence.planValid <=> plan # None /\ PlanValid(plan, contract)
  /\ Evidence.records = records
  /\ Evidence.unit = Suite(unit, UnitCases)
  /\ Evidence.acceptance = Suite(acceptance, AcceptanceCases)
  /\ Evidence.hosted = FALSE /\ Evidence.head = commit /\ Evidence.run = None
  /\ \A id \in Recorded : Evidence.artifacts[id] = Artifact(id)
<1> DEFINE valid == plan # None /\ PlanValid(plan, contract)
           rest == [checks |-> IF plan = None THEN {} ELSE PlanOf[plan].checks,
                    criteria |-> ContractOf[contract].criteria]
<1>1. valid \in BOOLEAN
  OBVIOUS
<1>2. Evidence.planValid = valid
  BY DEF Evidence
<1>3. QED BY <1>1, <1>2 DEF Evidence

\* A suite that is there and passed has no failed case, and what it names passed.
LEMMA SuitePassed ==
  ASSUME NEW s, NEW cases, s # None => s \in SuiteType,
         \A t \in Trees : \A c \in cases[t] : c = [name |-> c.name, outcome |-> c.outcome],
         Suite(s, cases).present, Suite(s, cases).passed
  PROVE  /\ s # None
         /\ \A c \in cases[s.tree] : c.outcome # "failed"
         /\ \A x \in Suite(s, cases).names : [name |-> x, outcome |-> "passed"] \in cases[s.tree]
<1>1. s # None
  BY DEF Suite, Report!NoSuite
<1> DEFINE j == Report!JUnit(cases[s.tree])
<1>2. ~s.broken /\ s.tree \in Trees
  <2>1. CASE s.broken
    <3>1. Suite(s, cases) = [j EXCEPT !.passed = FALSE, !.names = {}]
      BY <1>1, <2>1 DEF Suite
    <3>2. ~Suite(s, cases).passed
      BY <3>1 DEF Report!JUnit
    <3>3. QED BY <3>2
  <2>2. QED BY <1>1, <2>1 DEF SuiteType
<1>3. Suite(s, cases) = j
  BY <1>1, <1>2 DEF Suite
<1>4. j.passed <=> \A c \in cases[s.tree] : c.outcome # "failed"
  <2> DEFINE none == \A c \in cases[s.tree] : c.outcome # "failed"
  <2>1. none \in BOOLEAN
    OBVIOUS
  <2>2. j.passed = none
    BY DEF Report!JUnit
  <2>3. QED BY <2>1, <2>2
<1>5. j.names = {c.name : c \in {d \in cases[s.tree] : d.outcome = "passed"}}
  BY DEF Report!JUnit
<1> HIDE DEF j
<1>6. ASSUME NEW x \in j.names
      PROVE  [name |-> x, outcome |-> "passed"] \in cases[s.tree]
  <2>1. PICK c \in cases[s.tree] : c.outcome = "passed" /\ x = c.name
    BY <1>5
  <2>2. QED BY <1>2, <2>1
<1>7. QED BY <1>1, <1>3, <1>4, <1>6

\* Paths that check-scope.mjs lets pass are what the scopes are for.
LEMMA ScopeMeans ==
  ASSUME NEW t \in Trees, NEW c \in Contracts, NEW p \in Plans,
         EvaluateChangedPaths(Changed[t], ContractOf[c].scope, PlanOf[p])
  PROVE  \A path \in Changed[t] : /\ InScope(path, ContractOf[c].scope)
                                  /\ InScope(path, PlanOf[p].scope)
                                  /\ ~Riskier(path, PlanOf[p].risk)
<1> SUFFICES ASSUME NEW path \in Changed[t]
             PROVE  /\ InScope(path, ContractOf[c].scope)
                    /\ InScope(path, PlanOf[p].scope)
                    /\ ~Riskier(path, PlanOf[p].risk)
  OBVIOUS
<1>1. path \in Paths
  BY PatternAssumption
<1>2. IsPathAllowed(path, ContractOf[c].scope) /\ IsPathAllowed(path, PlanOf[p].scope)
  BY DEF EvaluateChangedPaths
<1>3. InScope(path, ContractOf[c].scope)
  BY <1>1, <1>2, PatternAssumption DEF IsPathAllowed, InScope
<1>4. InScope(path, PlanOf[p].scope)
  BY <1>1, <1>2, PatternAssumption DEF IsPathAllowed, InScope
<1>5. ~PathAbove(path, PlanOf[p].risk)
  BY DEF EvaluateChangedPaths, InferRiskAbove
<1>6. ~Riskier(path, PlanOf[p].risk)
  BY <1>1, <1>5, PatternAssumption DEF PathAbove, Riskier, Overlaps
<1>7. QED BY <1>3, <1>4, <1>6

\* The checks that the gate itself makes and the plan asks for have passed.
LEMMA GatedHavePassed ==
  ASSUME IInv, gate.at = ReportStep, plan # None, NEW n \in DOMAIN Gated,
         Gated[n] \in PlanOf[plan].checks, Report!FailedChecks(Evidence) \subseteq
           {"plan-approval", "codeql", "human-review", "production-environment",
            "repository-controls", "validation-authority"}
  PROVE  Gated[n] \notin gate.failed
<1>1. Gated[n] \in {"quality", "acceptance", "dependency-review", "secret-scan",
                    "governance-policy", "scope-policy", "merge-validation"}
  BY GatedOnce
<1>2. Gated[n] \notin Report!FailedChecks(Evidence)
  BY <1>1
<1>3. Gated[n] \in Report!RequiredChecks(Evidence)
  BY <1>1, EvidenceIs DEF Report!RequiredChecks
<1>4. Report!CheckPasses(Gated[n], Evidence)
  BY <1>2, <1>3 DEF Report!FailedChecks
<1>5. PICK q \in records : {r \in records : r.id = Gated[n]} = {q} /\ q.status = "pass"
  BY <1>4, EvidenceIs DEF Report!CheckPasses
<1>6. Told(n)
  <2>1. gate.at > RecordStep(n) /\ gate.at # 0
    BY Steps DEF RecordStep
  <2>2. QED BY <2>1, Parts DEF IInv, ToldInv
<1>7. QED BY <1>5, <1>6 DEF Told

LEMMA FreshKept ==
  ASSUME IInv, gate.at # 0, touched = 0
  PROVE  Kept
  BY Parts DEF IInv, Kept, ToldInv, Told, FreshInv

\* What makes the report say that the work is ready.
LEMMA ReadyMeans ==
  ASSUME IInv, gate.at = ReportStep, contract # None, Kept,
         Report!Decision(Evidence) # "review_required"
  PROVE  /\ plan # None /\ gate.failed \cap PlanOf[plan].checks = {}
         /\ Supported(NewReport(Evidence))
<1>1. Report!LocalReady(Evidence)
  BY DEF Report!Decision
<1>2. plan # None /\ PlanValid(plan, contract)
  BY <1>1, EvidenceIs DEF Report!LocalReady
<1>3. /\ tree \in Trees /\ commit \in Trees /\ contract \in Contracts /\ plan \in Plans
      /\ unit \in SuiteType \cup {None} /\ acceptance \in SuiteType \cup {None}
  BY <1>2, TypeParts DEF IInv
<1>4. Report!FailedChecks(Evidence) \subseteq
        {"plan-approval", "codeql", "human-review", "production-environment",
         "repository-controls", "validation-authority"}
  BY <1>1 DEF Report!LocalReady
<1>5. gate.failed \cap PlanOf[plan].checks = {}
  <2>1. gate.failed \subseteq {Gated[n] : n \in DOMAIN Gated}
    BY Steps, Parts DEF IInv, ToldInv
  <2>2. QED BY <1>2, <1>4, <2>1, GatedHavePassed
<1>7. ScopeHolds(gate.base) /\ CheckMerge(gate.base)
  <2>1. {"scope-policy", "merge-validation"} \subseteq PlanOf[plan].checks
    BY <1>2, <1>3, PolicyAssumption DEF PlanValid
  <2>2. \E m, n \in DOMAIN Gated : Gated[m] = "scope-policy" /\ Gated[n] = "merge-validation"
    <3>1. Len(Scans) + 3 \in DOMAIN Gated /\ Len(Scans) + 4 \in DOMAIN Gated
      BY GatedIs
    <3>2. QED BY <3>1, GatedIs
  <2>3. \A n \in DOMAIN Gated : Gated[n] \notin gate.failed => Found(Gated[n])
    <3>1. \A n \in DOMAIN Gated : gate.at > RecordStep(n)
      BY Steps DEF RecordStep
    <3>2. QED BY <3>1 DEF Kept
  <2>4. QED BY <1>2, <1>4, <2>1, <2>2, <2>3, GatedHavePassed DEF Found
<1>8. \A path \in Changed[commit] : /\ InScope(path, ContractOf[contract].scope)
                                    /\ InScope(path, PlanOf[plan].scope)
                                    /\ ~Riskier(path, PlanOf[plan].risk)
  BY <1>3, <1>7, ScopeMeans DEF ScopeHolds
<1>9. /\ PlanOf[plan].contract = contract /\ ContractOf[contract].branch = Branch
      /\ <<PlanOf[plan].base, commit>> \in Mergeable
  BY <1>2, <1>7 DEF PlanValid, ScopeHolds, ExecutionContext, CheckMerge
<1>10. /\ Suite(unit, UnitCases).present /\ Suite(unit, UnitCases).passed
       /\ Suite(acceptance, AcceptanceCases).present /\ Suite(acceptance, AcceptanceCases).passed
       /\ ContractOf[contract].criteria
            \subseteq Suite(unit, UnitCases).names \cup Suite(acceptance, AcceptanceCases).names
  BY <1>1, EvidenceIs DEF Report!LocalReady, Report!UnprovenCriteria
<1>11. /\ \A c \in UnitCases[unit.tree] : c.outcome # "failed"
       /\ \A x \in Suite(unit, UnitCases).names :
            [name |-> x, outcome |-> "passed"] \in UnitCases[unit.tree]
  BY <1>3, <1>10, SuitePassed, CaseAssumption
<1>12. /\ \A c \in AcceptanceCases[acceptance.tree] : c.outcome # "failed"
       /\ \A x \in Suite(acceptance, AcceptanceCases).names :
            [name |-> x, outcome |-> "passed"] \in AcceptanceCases[acceptance.tree]
  BY <1>3, <1>10, SuitePassed, CaseAssumption
<1> DEFINE r == NewReport(Evidence)
<1>13. /\ r.plan = plan /\ r.contract = contract /\ r.head = commit
       /\ r.unit = unit /\ r.acceptance = acceptance
  BY DEF NewReport
<1> HIDE DEF r
<1>14. Supported(r)
  BY <1>2, <1>8, <1>9, <1>10, <1>11, <1>12, <1>13 DEF Supported
<1>15. QED BY <1>2, <1>5, <1>14 DEF r

LEMMA Reporting ==
  ASSUME IInv, contract # None
  PROVE  LET r == NewReport(Evidence)
         IN  /\ r \in ReportType /\ r # None
             /\ r.decision = Report!Decision(Evidence) /\ r.touched = touched
             /\ r.together = gate.together
             /\ <<r.head, r.contract, r.plan>> = <<commit, contract, plan>>
<1> DEFINE d == Report!Decision(Evidence)
<1>1. d \in Report!Decisions
  BY DEF Report!Decision, Report!Decisions
<1>2. /\ commit \in Trees /\ contract \in Contracts /\ plan \in Plans \cup {None}
      /\ unit \in SuiteType \cup {None} /\ acceptance \in SuiteType \cup {None}
      /\ touched \in 0 .. MaxEvents /\ gate.together \in BOOLEAN
  BY TypeParts DEF IInv, GateType
<1>3. NewReport(Evidence) =
        [decision |-> d, head |-> commit, plan |-> plan, contract |-> contract,
         unit |-> unit, acceptance |-> acceptance, touched |-> touched,
         together |-> gate.together]
  BY DEF NewReport
<1> HIDE DEF d
<1>4. NewReport(Evidence) \in ReportType
  BY <1>1, <1>2, <1>3 DEF ReportType
<1>5. NewReport(Evidence) # None
  BY <1>4, NoneAssumption
<1>6. QED BY <1>3, <1>4, <1>5 DEF d

\* The report is built: while nobody intervened it is of this run, and supported
\* when it says ready.
LEMMA BuildReportStep ==
  ASSUME IInv, BuildReport
  PROVE  IInv'
<1>1. /\ gate.at = ReportStep /\ gate \in GateType
      /\ gate' = [gate EXCEPT !.at = VerdictStep]
      /\ UNCHANGED <<tree, commit, contract, plan, unit, acceptance, records, turn, active,
                     verdict, touched, turns, events>>
  BY TypeParts DEF IInv, BuildReport, files, suites, session, bounds
<1>2. VerdictStep \in 0 .. VerdictStep /\ VerdictStep # 0 /\ ReportStep # 0
      /\ ReportStep >= 2 /\ VerdictStep >= 2
  BY Steps
<1>3. /\ gate' \in GateType /\ gate'.at = VerdictStep /\ gate'.failed = gate.failed
      /\ gate'.base = gate.base
  BY <1>1, <1>2, GateAt
<1>4. \A n \in DOMAIN Gated : /\ ReportStep > RecordStep(n) /\ VerdictStep > RecordStep(n)
                              /\ VerdictStep # RecordStep(n)
  BY Steps DEF RecordStep
<1>5. ToldInv /\ FreshInv /\ PassInv /\ SupportInv /\ touched <= events
  BY Parts DEF IInv
<1>6. verdict' # "passed"
  BY <1>1, <1>2, <1>5, TypeParts DEF IInv, PassInv
<1>7. ToldInv'
  <2>1. ASSUME NEW n \in DOMAIN Gated
        PROVE  Told(n)'
    <3>1. Told(n)
      BY <1>1, <1>2, <1>4, <1>5 DEF ToldInv
    <3>2. Found(Gated[n]) => Found(Gated[n])'
      BY <1>1, <1>3, FoundStays
    <3>3. QED BY <1>1, <1>3, <3>1, <3>2 DEF Told
  <2>2. gate'.failed \subseteq {Gated[k] : k \in {m \in DOMAIN Gated : VerdictStep > RecordStep(m)}}
    BY <1>1, <1>2, <1>3, <1>4, <1>5 DEF ToldInv
  <2>3. QED BY <1>3, <2>1, <2>2 DEF ToldInv
<1>8. CASE contract = None
  <2>1. report' = report
    BY <1>8 DEF BuildReport
  <2>2. TypeOK'
    BY <1>1, <1>3, <2>1, <1>2, TypeParts, TypePartsPrimed DEF IInv
  <2>3. FreshInv'
    BY <1>1, <1>2, <1>5, <1>8 DEF FreshInv
  <2>4. SupportInv' /\ PassInv'
    BY <1>5, <1>6, <2>1 DEF SupportInv, ReadyIsSupported, Ready, PassInv
  <2>5. QED BY <1>1, <1>5, <1>7, <2>2, <2>3, <2>4, PartsPrimed DEF IInv
<1>9. CASE contract # None
  <2> DEFINE r == NewReport(Evidence)
  <2>1. report' = r
    BY <1>9 DEF BuildReport
  <2>2. /\ r \in ReportType /\ r # None
        /\ r.decision = Report!Decision(Evidence) /\ r.touched = touched
        /\ <<r.head, r.contract, r.plan>> = <<commit, contract, plan>>
    BY <1>9, Reporting
  <2>3. touched = 0 /\ r.decision # "review_required" =>
          /\ plan # None /\ gate.failed \cap PlanOf[plan].checks = {}
          /\ Supported(r)
    BY <1>1, <1>2, <1>9, <2>2, FreshKept, ReadyMeans
  <2> HIDE DEF r
  <2>4. TypeOK'
    BY <1>1, <1>2, <1>3, <2>1, <2>2, TypeParts, TypePartsPrimed DEF IInv
  <2>5. Ready' <=> r.decision # "review_required"
    BY <2>1, <2>2 DEF Ready
  <2>6. touched = 0 => ReportIsCurrent'
    BY <1>1, <1>3, <2>1, <2>2, <2>3, <2>5 DEF ReportIsCurrent
  <2>7. FreshInv'
    <3>1. SUFFICES ASSUME touched = 0
                   PROVE  /\ contract # None /\ plan # None /\ gate.base = PlanOf[plan].base
                          /\ ReportIsCurrent'
      BY <1>1, <1>3, <1>4 DEF FreshInv
    <3>2. QED BY <1>1, <1>2, <1>5, <2>6, <3>1 DEF FreshInv
  <2>8. SupportInv'
    BY <2>1, <2>2, <2>3, <2>5 DEF SupportInv, ReadyIsSupported
  <2>9. PassInv'
    BY <1>6 DEF PassInv
  <2>10. QED BY <1>1, <1>5, <1>7, <2>4, <2>7, <2>8, <2>9, PartsPrimed DEF IInv
<1>10. QED BY <1>8, <1>9

\* The verdict: let go on a report that is ready, and that is of this run.
LEMMA GiveVerdictStep ==
  ASSUME IInv, GiveVerdict
  PROVE  IInv'
<1>1. CASE Block
  BY <1>1, BlockStep DEF GiveVerdict
<1>2. CASE Ready /\ LetStop("passed")
  <2>1. /\ gate.at = VerdictStep /\ gate \in GateType /\ gate' = [gate EXCEPT !.at = 0]
        /\ turn' = "over" /\ verdict' = "passed"
        /\ UNCHANGED <<tree, commit, contract, plan, unit, acceptance, records, report, active,
                       touched, turns, events>>
    BY <1>2, TypeParts DEF IInv, GiveVerdict, LetStop, files, suites, bounds
  <2>2. 0 \in 0 .. VerdictStep /\ VerdictStep # 0
    BY Steps
  <2>3. gate' \in GateType /\ gate'.at = 0 /\ gate'.failed = gate.failed
    BY <2>1, <2>2, GateAt
  <2>4. TypeOK'
    BY <2>1, <2>3, TypeParts, TypePartsPrimed DEF IInv
  <2>5. ToldInv' /\ FreshInv'
    BY <2>3 DEF ToldInv, FreshInv
  <2>6. touched = 0 => ReportIsCurrent
    BY <2>1, <2>2, Parts DEF IInv, FreshInv
  <2>7. PassInv'
    BY <1>2, <2>1, <2>3, <2>6 DEF PassInv, ReportIsCurrent, Ready
  <2>8. SupportInv' /\ touched' <= events'
    BY <2>1, Parts DEF IInv, SupportInv, ReadyIsSupported, Ready
  <2>9. QED BY <2>4, <2>5, <2>7, <2>8, PartsPrimed DEF IInv
<1>3. QED BY <1>1, <1>2 DEF GiveVerdict

-----------------------------------------------------------------------------
(* The agent and the others *)

LEMMA StopTurnStep ==
  ASSUME IInv, StopTurn
  PROVE  IInv'
<1>1. /\ turn = "working" /\ tree' \in Trees /\ commit' \in {commit, tree'} /\ turn' = "stopping"
      /\ UNCHANGED <<contract, plan, unit, acceptance, records, report, gate, active, verdict,
                     touched, turns, events>>
  BY DEF StopTurn, suites, bounds
<1>2. gate.at = 0 /\ verdict # "passed"
  BY <1>1, TypeParts, Parts DEF IInv, PassInv
<1>3. /\ gate' \in GateType /\ gate'.at = 0 /\ commit' \in Trees
      /\ touched' \in 0 .. MaxEvents /\ turns' \in 1 .. MaxTurns /\ events' \in 0 .. MaxEvents
      /\ touched' <= events' /\ active' \in BOOLEAN
      /\ verdict' \in {"none", "unverified", "blocked"}
  BY <1>1, <1>2, TypeParts, Parts DEF IInv
<1>4. QED BY <1>1, <1>3, NoGateRuns DEF suites

\* Somebody moves HEAD, contract or plan: of what the gate was told only the
\* records are left.
LEMMA TouchFilesStep ==
  ASSUME IInv, TouchFiles
  PROVE  IInv'
<1>1. /\ touched' = touched + 1 /\ events' = events + 1 /\ events < MaxEvents
      /\ commit' \in Trees \cup {commit} /\ contract' \in Contracts \cup {None, contract}
      /\ plan' \in Plans \cup {None, plan}
      /\ UNCHANGED <<tree, unit, acceptance, records, report, gate, turn, active, verdict, turns>>
  BY DEF TouchFiles, Intervene, suites, session
<1>2. /\ touched <= events /\ touched \in 0 .. MaxEvents /\ events \in 0 .. MaxEvents
      /\ MaxEvents \in Nat
  BY TypeParts, Parts, AgentAssumption DEF IInv
<1>3. /\ touched' # 0 /\ touched' \in 0 .. MaxEvents /\ events' \in 0 .. MaxEvents
      /\ touched' <= events'
  BY <1>1, <1>2
<1>4. commit' \in Trees /\ contract' \in Contracts \cup {None} /\ plan' \in Plans \cup {None}
  BY <1>1, TypeParts DEF IInv
<1>5. TypeOK'
  BY <1>1, <1>3, <1>4, TypeParts, TypePartsPrimed DEF IInv
<1>6. ToldInv'
  BY <1>1, <1>3, Parts DEF IInv, ToldInv, Told
<1>7. FreshInv' /\ PassInv'
  BY <1>1, <1>3, Parts DEF IInv, FreshInv, PassInv
<1>8. SupportInv'
  BY <1>1, Parts DEF IInv, SupportInv, ReadyIsSupported, Ready
<1>9. QED BY <1>3, <1>5, <1>6, <1>7, <1>8, PartsPrimed DEF IInv

\* What the properties are about stays: the working copy and the suites' files
\* may be any, and an event more may have happened.
LEMMA NothingTouched ==
  ASSUME IInv, tree' \in Trees,
         unit' \in SuiteType \cup {None}, acceptance' \in SuiteType \cup {None},
         events' \in {events, events + 1}, events' \in 0 .. MaxEvents,
         UNCHANGED <<commit, contract, plan, records, report, gate, session, touched, turns>>
  PROVE  IInv'
<1>1. UNCHANGED <<turn, active, verdict>>
  BY DEF session
<1>2. TypeOK'
  BY <1>1, TypeParts, TypePartsPrimed DEF IInv
<1>3. touched' <= events'
  <2>1. touched <= events /\ touched \in Int /\ events \in Int
    BY TypeParts, Parts DEF IInv
  <2>2. QED BY <2>1
<1>4. ToldInv'
  <2>1. \A id : Found(id) => Found(id)'
    BY FoundStays
  <2>2. \A n : Told(n) => Told(n)'
    BY <2>1 DEF Told
  <2>3. QED BY <2>2, Parts DEF IInv, ToldInv
<1>5. FreshInv'
  <2>1. \A id : Found(id) => Found(id)'
    BY FoundStays
  <2>2. ReportIsCurrent => ReportIsCurrent'
    BY DEF ReportIsCurrent, Ready
  <2>3. QED BY <2>1, <2>2, Parts DEF IInv, FreshInv
<1>6. PassInv' /\ SupportInv'
  BY <1>1, Parts DEF IInv, PassInv, ReportIsCurrent, SupportInv, ReadyIsSupported, Ready
<1>7. QED BY <1>2, <1>3, <1>4, <1>5, <1>6, PartsPrimed DEF IInv

LEMMA EditMeanwhileStep ==
  ASSUME IInv, EditMeanwhile
  PROVE  IInv'
<1>1. events \in 0 .. MaxEvents /\ events < MaxEvents /\ events' = events + 1 /\ MaxEvents \in Nat
  BY TypeParts, AgentAssumption DEF IInv, EditMeanwhile, Intervene
<1>2. events' \in 0 .. MaxEvents
  BY <1>1
<1>3. QED BY <1>1, <1>2, NothingTouched, TypeParts DEF EditMeanwhile, IInv, suites

LEMMA RunSuiteMeanwhileStep ==
  ASSUME IInv, RunSuiteMeanwhile
  PROVE  IInv'
<1>1. events \in 0 .. MaxEvents /\ events < MaxEvents /\ events' = events + 1 /\ MaxEvents \in Nat
  BY TypeParts, AgentAssumption DEF IInv, RunSuiteMeanwhile, Intervene
<1>2. events' \in 0 .. MaxEvents
  BY <1>1
<1>3. tree \in Trees /\ Ran(tree, "other") \in SuiteType
  BY TypeParts DEF IInv, Ran, SuiteType
<1>4. unit' \in SuiteType \cup {None} /\ acceptance' \in SuiteType \cup {None}
  BY <1>3, TypeParts DEF IInv, RunSuiteMeanwhile
<1>5. QED BY <1>1, <1>2, <1>3, <1>4, NothingTouched DEF RunSuiteMeanwhile, files

LEMMA PromptStep ==
  ASSUME IInv, Prompt
  PROVE  IInv'
<1>1. /\ turn = "over" /\ turns < MaxTurns /\ turns' = turns + 1
      /\ turn' = "working" /\ active' = FALSE /\ verdict' = "none"
      /\ UNCHANGED <<tree, commit, contract, plan, suites, records, report, gate, touched, events>>
  BY DEF Prompt, files
<1>2. gate.at = 0 /\ turns \in 1 .. MaxTurns /\ MaxTurns \in Nat
  BY <1>1, TypeParts, AgentAssumption DEF IInv
<1>3. turns' \in 1 .. MaxTurns
  BY <1>1, <1>2
<1>4. /\ gate' \in GateType /\ gate'.at = 0 /\ tree' \in Trees /\ commit' \in Trees
      /\ touched' \in 0 .. MaxEvents /\ events' \in 0 .. MaxEvents /\ touched' <= events'
  BY <1>1, <1>2, TypeParts, Parts DEF IInv
<1>5. QED BY <1>1, <1>3, <1>4, NoGateRuns

-----------------------------------------------------------------------------
(* One replacement *)

SameInv ==
  gate.at # 0 /\ gate.together /\ touched = 0 =>
    /\ Together
    /\ gate.at > 2 => \E r \in records : r.id = "plan-contract" /\ r.digest = plan
    /\ gate.at > RecordStep(1) => \E r \in records : r.id = "quality" /\ r.head = commit

DoomInv == gate.at # 0 /\ gate.together /\ touched = 1 => Doomed \/ Kept

LEMMA OnceParts == OnceInv <=> SameInv /\ DoomInv /\ (report # None => ReadyIsSupported)
  BY DEF OnceInv, SameInv, DoomInv

LEMMA OncePartsPrimed ==
  OnceInv' <=> SameInv' /\ DoomInv' /\ (report # None => ReadyIsSupported)'
  BY DEF OnceInv, SameInv, DoomInv

\* A doomed gate gets no report that says ready.
LEMMA NotDoomed ==
  ASSUME IInv, gate.at = ReportStep, Report!Decision(Evidence) # "review_required"
  PROVE  ~Doomed \/ contract = None
<1>1. Report!LocalReady(Evidence)
  BY DEF Report!Decision
<1>2. plan # None /\ PlanValid(plan, contract) /\ plan \in Plans
  BY <1>1, EvidenceIs, TypeParts DEF Report!LocalReady, IInv
<1>3. /\ "plan-contract" \in Recorded /\ "quality" \in Recorded
      /\ {"plan-contract", "quality"} \subseteq PlanOf[plan].checks
  <2>1. 1 \in DOMAIN Gated /\ Gated[1] = "quality"
    BY GatedIs, Steps
  <2>2. QED BY <1>2, <2>1, PolicyAssumption DEF PlanValid, Recorded
<1>4. ASSUME NEW id \in {"plan-contract", "quality"}
      PROVE  \E q \in records : /\ {r \in records : r.id = id} = {q} /\ q.head = commit
                                /\ q.digest # NoArtifact => q.digest = Artifact(id)
  <2>1. id \in Report!RequiredChecks(Evidence)
    BY <1>2, <1>3, EvidenceIs DEF Report!RequiredChecks
  <2>2. id \notin Report!FailedChecks(Evidence)
    BY <1>1 DEF Report!LocalReady
  <2>3. Report!CheckPasses(id, Evidence)
    BY <2>1, <2>2 DEF Report!FailedChecks
  <2>4. PICK q \in records : {r \in records : r.id = id} = {q} /\ Report!ValidRecord(q, Evidence)
    BY <2>3, EvidenceIs DEF Report!CheckPasses
  <2>5. q.id = id
    BY <2>4
  <2>6. q.head = commit /\ (q.digest # NoArtifact => q.digest = Artifact(id))
    BY <1>3, <2>4, <2>5, EvidenceIs DEF Report!ValidRecord
  <2>7. QED BY <2>4, <2>6
<1>5. \A r \in records : r.id = "plan-contract" => r.digest \notin Plans \ {plan}
  <2>1. Artifact("plan-contract") = plan
    BY DEF Artifact
  <2>2. PICK q \in records : /\ {r \in records : r.id = "plan-contract"} = {q}
                             /\ q.digest # NoArtifact => q.digest = plan
    BY <1>4, <2>1
  <2>3. QED BY <2>2, AgentAssumption
<1>6. \A r \in records : r.id = "quality" => r.head = commit
  BY <1>4
<1>7. PlanOf[plan].contract = contract
  BY <1>2 DEF PlanValid
<1>8. QED BY <1>2, <1>5, <1>6, <1>7 DEF Doomed

\* What is found and what dooms stay, while the files and the records do.
LEMMA KeptStays ==
  ASSUME Kept, UNCHANGED <<commit, contract, plan>>, gate'.base = gate.base,
         gate'.failed = gate.failed, gate'.ok = gate.ok, gate'.at = gate.at
  PROVE  Kept'
<1>1. \A id : Found(id) => Found(id)'
  BY FoundStays
<1>2. QED BY <1>1 DEF Kept

LEMMA DoomedStays ==
  ASSUME Doomed, UNCHANGED <<commit, contract, plan, records>>,
         gate.at \in Int, gate'.at \in Int, gate'.at >= gate.at
  PROVE  Doomed'
<1>1. RecordStep(1) \in Int
  BY DEF RecordStep
<1>2. (gate.at > 2 => gate'.at > 2) /\ (gate.at > RecordStep(1) => gate'.at > RecordStep(1))
  BY <1>1
<1>3. QED BY <1>2 DEF Doomed

LEMMA GateInt == TypeOK => gate.at \in Int /\ gate.together \in BOOLEAN /\ gate.at >= 0
  BY TypeParts, Steps DEF GateType

\* A step that ends the gate, or happens when there is none.
LEMMA OnceNoGate ==
  ASSUME OnceInv, gate'.at = 0, UNCHANGED report
  PROVE  OnceInv'
<1>1. (report # None => ReadyIsSupported)'
  BY OnceParts DEF ReadyIsSupported, Ready
<1>2. SameInv' /\ DoomInv'
  BY DEF SameInv, DoomInv
<1>3. QED BY <1>1, <1>2, OncePartsPrimed

\* A step with which nothing happens that the gate could notice.
LEMMA OnceStays ==
  ASSUME IInv, IInv', OnceInv, UNCHANGED <<commit, contract, plan, records, report, gate, touched>>
  PROVE  OnceInv'
<1>1. (report # None => ReadyIsSupported)'
  BY OnceParts DEF ReadyIsSupported, Ready
<1>2. SameInv'
  BY OnceParts DEF SameInv, Together
<1>3. DoomInv'
  BY GateInt, OnceParts, KeptStays, DoomedStays DEF DoomInv, IInv
<1>4. QED BY <1>1, <1>2, <1>3, OncePartsPrimed

LEMMA OnceBegin ==
  ASSUME IInv, OnceInv, Begin
  PROVE  OnceInv'
<1>1. CASE LetStop("unverified")
  <2>1. gate'.at = 0 /\ UNCHANGED report
    <3>1. gate \in GateType /\ 0 \in 0 .. VerdictStep
      BY TypeParts, Steps DEF IInv
    <3>2. QED BY <1>1, <3>1, GateAt DEF LetStop, Begin
  <2>2. QED BY <2>1, OnceNoGate
<1>2. CASE gate' = [NoGate EXCEPT !.at = 1, !.together = Together] /\ touched' = 0
  <2>1. gate'.at = 1 /\ (gate'.together <=> Together)
    BY <1>2, GateBegins
  <2>2. UNCHANGED <<contract, plan, report>>
    BY DEF Begin, files
  <2>3. ~(1 > 2) /\ ~(1 > RecordStep(1))
    BY DEF RecordStep
  <2>4. SameInv'
    BY <2>1, <2>2, <2>3 DEF SameInv, Together
  <2>5. DoomInv'
    BY <1>2 DEF DoomInv
  <2>6. (report # None => ReadyIsSupported)'
    BY <2>2, OnceParts DEF ReadyIsSupported, Ready
  <2>7. QED BY <2>4, <2>5, <2>6, OncePartsPrimed
<1>3. QED BY <1>1, <1>2 DEF Begin

LEMMA OnceReadPlan ==
  ASSUME IInv, IInv', OnceInv, ReadPlan
  PROVE  OnceInv'
<1>1. gate \in GateType /\ gate.at = 1 /\ 0 \in 0 .. VerdictStep /\ 2 \in 0 .. VerdictStep
  BY TypeParts, Steps DEF IInv, ReadPlan
<1>2. CASE Block
  <2>1. gate'.at = 0 /\ UNCHANGED report
    BY <1>1, <1>2, GateAt DEF Block, ReadPlan
  <2>2. QED BY <2>1, OnceNoGate
<1>3. CASE gate' = [gate EXCEPT !.at = 2, !.base = PlanOf[plan].base]
  <2>1. gate'.at = 2 /\ gate'.together = gate.together
    BY <1>1, <1>3 DEF GateType
  <2>2. UNCHANGED <<commit, contract, plan, records, report, touched>>
    BY DEF ReadPlan, files
  <2>3. ~(2 > 2) /\ \A n \in DOMAIN Gated : ~(2 > RecordStep(n)) /\ 2 # RecordStep(n)
    BY Steps DEF RecordStep
  <2>4. 1 \in DOMAIN Gated
    BY Steps
  <2>5. SameInv'
    BY <1>1, <2>1, <2>2, <2>3, <2>4, OnceParts DEF SameInv, Together
  <2>6. Kept'
    BY <2>1, <2>3 DEF Kept
  <2>7. (report # None => ReadyIsSupported)'
    BY <2>2, OnceParts DEF ReadyIsSupported, Ready
  <2>8. QED BY <2>5, <2>6, <2>7, OncePartsPrimed DEF DoomInv
<1>4. QED BY <1>2, <1>3 DEF ReadPlan

LEMMA OnceRecordPlan ==
  ASSUME IInv, OnceInv, RecordPlan
  PROVE  OnceInv'
<1>1. /\ gate \in GateType /\ gate.at = 2 /\ commit \in Trees /\ RecordsOK(records)
      /\ gate' = [gate EXCEPT !.at = CheckStep(1)]
      /\ UNCHANGED <<commit, contract, plan, report, touched>>
  BY TypeParts DEF IInv, RecordPlan, files
<1>2. gate'.at = 3 /\ gate'.together = gate.together
  <2>1. CheckStep(1) = 3
    BY DEF CheckStep
  <2>2. QED BY <1>1, <2>1 DEF GateType
<1>3. \E r \in records' : r.id = "plan-contract" /\ r.digest = plan
  <2>1. Artifact("plan-contract") = plan
    BY DEF Artifact
  <2> DEFINE q == Report!CheckRecord("plan-contract", "pass", commit, None, plan)
  <2>2. records' = Report!WriteRecord(records, q)
    BY <2>1 DEF RecordPlan, Record
  <2>3. q.id = "plan-contract" /\ q.digest = plan
    BY DEF Report!CheckRecord
  <2>4. QED BY <2>2, <2>3 DEF Report!WriteRecord
<1>4. \A n \in DOMAIN Gated : ~(3 > RecordStep(n)) /\ 3 # RecordStep(n)
  BY Steps DEF RecordStep
<1>5. 1 \in DOMAIN Gated
  BY Steps
<1>6. SameInv'
  BY <1>1, <1>2, <1>3, <1>4, <1>5, OnceParts DEF SameInv, Together
<1>7. Kept'
  BY <1>2, <1>4 DEF Kept
<1>8. (report # None => ReadyIsSupported)'
  BY <1>1, OnceParts DEF ReadyIsSupported, Ready
<1>9. QED BY <1>6, <1>7, <1>8, OncePartsPrimed DEF DoomInv

LEMMA OnceRunCheck ==
  ASSUME IInv, OnceInv, NEW n \in DOMAIN Gated, RunCheck(n)
  PROVE  OnceInv'
<1>1. /\ gate.at = CheckStep(n) /\ gate \in GateType
      /\ UNCHANGED <<commit, contract, plan, records, report, touched>>
  BY TypeParts DEF IInv, RunCheck, files
<1>2. PICK available \in BOOLEAN :
        gate' = [gate EXCEPT !.at = RecordStep(n), !.ok = available /\ Passes(Gated[n])]
  BY DEF RunCheck
<1> DEFINE ok == available /\ Passes(Gated[n])
<1>3. (ok => Passes(Gated[n])) /\ ok \in BOOLEAN
  OBVIOUS
<1>4. gate' = [gate EXCEPT !.at = RecordStep(n), !.ok = ok]
  BY <1>2
<1> HIDE DEF ok
<1>5. /\ gate'.at = RecordStep(n) /\ gate'.ok = ok /\ gate'.base = gate.base
      /\ gate'.failed = gate.failed /\ gate'.together = gate.together
  BY <1>1, <1>4 DEF GateType
<1>6. /\ CheckStep(n) \in Int /\ RecordStep(n) \in Int /\ RecordStep(n) >= CheckStep(n)
      /\ CheckStep(n) > 2 /\ RecordStep(n) > 2 /\ CheckStep(n) # 0
      /\ \A m \in DOMAIN Gated : /\ RecordStep(n) > RecordStep(m) <=> CheckStep(n) > RecordStep(m)
                                 /\ RecordStep(n) = RecordStep(m) => m = n
      /\ 1 \in DOMAIN Gated
  BY Steps DEF CheckStep, RecordStep
<1>7. SameInv'
  BY <1>1, <1>5, <1>6, OnceParts DEF SameInv, Together
<1>8. ASSUME Kept PROVE Kept'
  <2>1. \A id : Found(id) => Found(id)'
    BY <1>1, <1>5, FoundStays
  <2>2. ok => Found(Gated[n])
    BY <1>3 DEF Passes, Found
  <2>3. QED BY <1>1, <1>5, <1>6, <1>8, <2>1, <2>2 DEF Kept
<1>9. Doomed => Doomed'
  BY <1>1, <1>5, <1>6, DoomedStays
<1>10. DoomInv'
  BY <1>1, <1>5, <1>6, <1>8, <1>9, OnceParts DEF DoomInv
<1>11. (report # None => ReadyIsSupported)'
  BY <1>1, OnceParts DEF ReadyIsSupported, Ready
<1>12. QED BY <1>7, <1>10, <1>11, OncePartsPrimed

LEMMA OnceRecordCheck ==
  ASSUME IInv, OnceInv, NEW n \in DOMAIN Gated, RecordCheck(n)
  PROVE  OnceInv'
<1>1. /\ gate.at = RecordStep(n) /\ gate \in GateType /\ commit \in Trees /\ RecordsOK(records)
      /\ UNCHANGED <<commit, contract, plan, report, touched>>
      /\ gate' = [gate EXCEPT !.at = CheckStep(n + 1), !.ok = TRUE,
                              !.failed = IF gate.ok THEN @ ELSE @ \cup {Gated[n]}]
  BY TypeParts DEF IInv, RecordCheck, files
<1> DEFINE failed == IF gate.ok THEN gate.failed ELSE gate.failed \cup {Gated[n]}
<1>2. gate.failed \subseteq failed /\ (Gated[n] \notin failed => gate.ok)
  <2>1. gate.ok \in BOOLEAN
    BY <1>1 DEF GateType
  <2>2. QED BY <2>1
<1>3. gate' = [gate EXCEPT !.at = CheckStep(n + 1), !.ok = TRUE, !.failed = failed]
  BY <1>1 DEF GateType
<1> HIDE DEF failed
<1>4. /\ gate'.at = CheckStep(n + 1) /\ gate'.ok = TRUE /\ gate'.base = gate.base
      /\ gate'.failed = failed /\ gate'.together = gate.together
  BY <1>1, <1>3 DEF GateType
<1>5. /\ CheckStep(n + 1) > 2 /\ RecordStep(n) > 2 /\ RecordStep(n) # 0
      /\ \A m \in DOMAIN Gated : /\ CheckStep(n + 1) > RecordStep(m)
                                      <=> m = n \/ RecordStep(n) > RecordStep(m)
                                 /\ CheckStep(n + 1) # RecordStep(m)
      /\ ~(RecordStep(n) > RecordStep(n)) /\ 1 \in DOMAIN Gated
  BY Steps DEF CheckStep, RecordStep
<1> DEFINE q == Report!CheckRecord(Gated[n], IF gate.ok THEN "pass" ELSE "fail", commit, None,
                                   Artifact(Gated[n]))
<1>6. q.id = Gated[n] /\ q.head = commit
  BY DEF Report!CheckRecord
<1>7. records' = {r \in records : r.id # q.id} \cup {q}
  BY DEF RecordCheck, Record, Report!WriteRecord
<1> HIDE DEF q
<1>8. Gated[n] # "plan-contract" /\ (Gated[n] = "quality" <=> n = 1) /\ Gated[1] = "quality"
  BY <1>5, GatedOnce, GatedIs
<1>9. /\ \A r \in records : r.id = "plan-contract" => r \in records'
      /\ \A r \in records : r.id = "quality" /\ n # 1 => r \in records'
      /\ n = 1 => \E r \in records' : r.id = "quality" /\ r.head = commit
  BY <1>6, <1>7, <1>8
<1>10. SameInv'
  <2>1. SUFFICES ASSUME gate.together, touched = 0
        PROVE  /\ Together
               /\ \E r \in records' : r.id = "plan-contract" /\ r.digest = plan
               /\ CheckStep(n + 1) > RecordStep(1) =>
                    \E r \in records' : r.id = "quality" /\ r.head = commit
    BY <1>1, <1>4 DEF SameInv, Together
  <2>2. /\ Together
        /\ \E r \in records : r.id = "plan-contract" /\ r.digest = plan
        /\ RecordStep(n) > RecordStep(1) =>
             \E r \in records : r.id = "quality" /\ r.head = commit
    BY <1>1, <1>5, <2>1, OnceParts DEF SameInv
  <2>3. QED BY <1>5, <1>9, <2>2
<1>11. ASSUME Doomed PROVE Doomed'
  BY <1>1, <1>4, <1>5, <1>9, <1>11 DEF Doomed
<1>12. ASSUME Kept PROVE Kept'
  <2>1. \A id : Found(id) => Found(id)'
    BY <1>1, <1>4, FoundStays
  <2>2. QED BY <1>1, <1>2, <1>4, <1>5, <1>12, <2>1 DEF Kept
<1>13. DoomInv'
  BY <1>1, <1>4, <1>5, <1>11, <1>12, OnceParts DEF DoomInv
<1>14. (report # None => ReadyIsSupported)'
  BY <1>1, OnceParts DEF ReadyIsSupported, Ready
<1>15. QED BY <1>10, <1>13, <1>14, OncePartsPrimed

\* The report that is built is supported when it says ready, although HEAD, the
\* contract or the plan may have been replaced once.
LEMMA OnceBuildReport ==
  ASSUME IInv, OnceInv, BuildReport
  PROVE  OnceInv'
<1>1. /\ gate.at = ReportStep /\ gate \in GateType
      /\ gate' = [gate EXCEPT !.at = VerdictStep]
      /\ UNCHANGED <<commit, contract, plan, records, touched>>
  BY TypeParts DEF IInv, BuildReport, files
<1>2. /\ gate'.at = VerdictStep /\ gate'.together = gate.together /\ gate'.base = gate.base
      /\ gate'.failed = gate.failed /\ gate'.ok = gate.ok
  BY <1>1 DEF GateType
<1>3. /\ ReportStep \in Int /\ VerdictStep \in Int /\ VerdictStep >= ReportStep
      /\ ReportStep > 2 /\ VerdictStep > 2 /\ ReportStep # 0 /\ 1 \in DOMAIN Gated
      /\ \A n \in DOMAIN Gated : /\ ReportStep > RecordStep(n) /\ VerdictStep > RecordStep(n)
                                 /\ VerdictStep # RecordStep(n)
  BY Steps DEF RecordStep
<1>4. SameInv'
  BY <1>1, <1>2, <1>3, OnceParts DEF SameInv, Together
<1>5. DoomInv'
  <2>1. Doomed => Doomed'
    BY <1>1, <1>2, <1>3, DoomedStays
  <2>2. ASSUME Kept PROVE Kept'
    <3>1. \A id : Found(id) => Found(id)'
      BY <1>1, <1>2, FoundStays
    <3>2. QED BY <1>1, <1>2, <1>3, <2>2, <3>1 DEF Kept
  <2>3. QED BY <1>1, <1>2, <1>3, <2>1, <2>2, OnceParts DEF DoomInv
<1>6. (report # None => ReadyIsSupported)'
  <2>1. CASE contract = None
    <3>1. report' = report
      BY <2>1 DEF BuildReport
    <3>2. QED BY <3>1, OnceParts DEF ReadyIsSupported, Ready
  <2>2. CASE contract # None
    <3> DEFINE r == NewReport(Evidence)
    <3>1. report' = r
      BY <2>2 DEF BuildReport
    <3>2. /\ r # None /\ r.decision = Report!Decision(Evidence) /\ r.touched = touched
          /\ r.together = gate.together
      BY <2>2, Reporting
    <3>3. Report!Decision(Evidence) # "review_required" /\ Kept => Supported(r)
      BY <1>1, <2>2, ReadyMeans
    <3> HIDE DEF r
    <3>4. /\ touched \in Nat /\ gate.together \in BOOLEAN
      BY TypeParts, GateInt DEF IInv
    <3>5. ASSUME r.decision # "review_required", r.touched <= (IF r.together THEN 1 ELSE 0)
          PROVE  Supported(r)
      <4>1. touched = 0 \/ (touched = 1 /\ gate.together)
        BY <3>2, <3>4, <3>5
      <4>2. Kept
        <5>1. CASE touched = 0
          BY <1>1, <1>3, <5>1, FreshKept
        <5>2. CASE touched = 1 /\ gate.together
          <6>1. ~Doomed
            BY <1>1, <2>2, <3>2, <3>5, NotDoomed
          <6>2. QED BY <1>1, <1>3, <5>2, <6>1, OnceParts DEF DoomInv
        <5>3. QED BY <4>1, <5>1, <5>2
      <4>3. QED BY <3>2, <3>3, <3>5, <4>2
    <3>6. QED BY <3>1, <3>5 DEF ReadyIsSupported, Ready
  <2>3. QED BY <2>1, <2>2
<1>7. QED BY <1>4, <1>5, <1>6, OncePartsPrimed

\* Somebody replaces HEAD, contract or plan, for the first time.
LEMMA OnceTouchFiles ==
  ASSUME IInv, OnceInv, TouchFiles
  PROVE  OnceInv'
<1>1. /\ touched' = touched + 1 /\ touched \in Nat
      /\ \/ UNCHANGED <<contract, plan>>
         \/ contract' \in Contracts \cup {None} /\ UNCHANGED <<commit, plan>>
         \/ plan' \in Plans \cup {None} /\ UNCHANGED <<commit, contract>>
      /\ UNCHANGED <<records, report, gate>>
  BY TypeParts DEF IInv, TouchFiles
<1>2. (report # None => ReadyIsSupported)'
  BY <1>1, OnceParts DEF ReadyIsSupported, Ready
<1>3. SameInv'
  BY <1>1 DEF SameInv
<1>4. ASSUME gate.at # 0, gate.together, touched = 0
      PROVE  Doomed' \/ Kept'
  <2>1. /\ Together
        /\ gate.at > 2 => \E r \in records : r.id = "plan-contract" /\ r.digest = plan
        /\ gate.at > RecordStep(1) => \E r \in records : r.id = "quality" /\ r.head = commit
    BY <1>4, OnceParts DEF SameInv
  <2>2. Kept /\ contract # None /\ (gate.at >= 2 => plan # None) /\ gate.at \in Int
        /\ plan \in Plans \cup {None}
    BY <1>4, FreshKept, GateInt, TypeParts, Parts DEF IInv, FreshInv
  <2>3. CASE UNCHANGED <<commit, contract, plan>>
    BY <1>1, <2>2, <2>3, KeptStays
  <2>4. CASE commit' # commit /\ UNCHANGED <<contract, plan>>
    <3>1. CASE gate.at > RecordStep(1)
      BY <1>1, <2>1, <2>4, <3>1 DEF Doomed
    <3>2. CASE ~(gate.at > RecordStep(1))
      <4>1. ASSUME NEW n \in DOMAIN Gated, gate.at >= RecordStep(n)
            PROVE  n = 1
        BY <2>2, <3>2, <4>1, Steps DEF RecordStep
      <4>2. Found("quality")'
        BY DEF Found
      <4>3. \A n \in DOMAIN Gated : RecordStep(n) \in Int
        BY Steps DEF RecordStep
      <4>4. QED BY <1>1, <2>2, <4>1, <4>2, <4>3, GatedIs DEF Kept
    <3>3. QED BY <3>1, <3>2
  <2>5. CASE contract' # contract /\ UNCHANGED <<commit, plan>>
    BY <2>1, <2>5 DEF Together, Doomed
  <2>6. CASE plan' # plan /\ UNCHANGED <<commit, contract>>
    <3>1. CASE gate.at > 2
      BY <1>1, <2>1, <2>2, <2>6, <3>1 DEF Doomed
    <3>2. CASE ~(gate.at > 2)
      <4>1. \A n \in DOMAIN Gated : ~(gate.at > RecordStep(n)) /\ gate.at # RecordStep(n)
        BY <2>2, <3>2, Steps DEF RecordStep
      <4>2. QED BY <1>1, <4>1 DEF Kept
    <3>3. QED BY <3>1, <3>2
  <2>7. QED BY <1>1, <2>3, <2>4, <2>5, <2>6
<1>5. DoomInv'
  BY <1>1, <1>4 DEF DoomInv
<1>6. QED BY <1>2, <1>3, <1>5, OncePartsPrimed

LEMMA OnceNext == IInv /\ IInv' /\ OnceInv /\ [Next]_vars => OnceInv'
<1> SUFFICES ASSUME IInv, IInv', OnceInv, [Next]_vars PROVE OnceInv'
  OBVIOUS
<1>1. gate \in GateType /\ 0 \in 0 .. VerdictStep
  BY TypeParts, Steps DEF IInv
<1>2. CASE Gate
  <2>1. CASE Begin
    BY <2>1, OnceBegin
  <2>2. CASE ReadPlan
    BY <2>2, OnceReadPlan
  <2>3. CASE RecordPlan
    BY <2>3, OnceRecordPlan
  <2>4. CASE BuildReport
    BY <2>4, OnceBuildReport
  <2>5. CASE GiveVerdict
    <3>1. gate'.at = 0 /\ UNCHANGED report
      BY <1>1, <2>5, GateAt DEF GiveVerdict, LetStop, Block
    <3>2. QED BY <3>1, OnceNoGate
  <2>6. ASSUME NEW n \in DOMAIN Gated, RunCheck(n)
        PROVE  OnceInv'
    BY <2>6, OnceRunCheck
  <2>7. ASSUME NEW n \in DOMAIN Gated, RecordCheck(n)
        PROVE  OnceInv'
    BY <2>7, OnceRecordCheck
  <2>8. QED BY <1>2, <2>1, <2>2, <2>3, <2>4, <2>5, <2>6, <2>7 DEF Gate
<1>3. CASE StopTurn
  <2>1. gate'.at = 0 /\ UNCHANGED report
    BY <1>3, TypeParts DEF IInv, StopTurn
  <2>2. QED BY <2>1, OnceNoGate
<1>4. CASE TouchFiles
  BY <1>4, OnceTouchFiles
<1>5. CASE EditMeanwhile
  BY <1>5, OnceStays DEF EditMeanwhile
<1>6. CASE RunSuiteMeanwhile
  BY <1>6, OnceStays DEF RunSuiteMeanwhile, files
<1>7. CASE Prompt
  BY <1>7, OnceStays DEF Prompt, files
<1>8. CASE Killed
  <2>1. gate'.at = 0 /\ UNCHANGED report
    BY <1>1, <1>8, GateAt DEF Killed, LetStop
  <2>2. QED BY <2>1, OnceNoGate
<1>9. CASE UNCHANGED vars
  BY <1>9, OnceStays DEF vars, files
<1>10. QED BY <1>2, <1>3, <1>4, <1>5, <1>6, <1>7, <1>8, <1>9 DEF Next, Others

-----------------------------------------------------------------------------
(* Prefixes *)

LEMMA PrefixIs ==
  ASSUME NEW S, NEW s \in Seq(S), NEW t \in Seq(S)
  PROVE  IsPrefix(s, t) <=> Len(s) <= Len(t) /\ \A i \in 1 .. Len(s) : s[i] = t[i]
<1>1. Len(s) \in Nat /\ Len(t) \in Nat
  BY LenProperties
<1>2. SUFFICES ASSUME Len(s) <= Len(t)
               PROVE  SubSeq(s, 1, Len(s)) = SubSeq(t, 1, Len(s))
                        <=> \A i \in 1 .. Len(s) : s[i] = t[i]
  BY <1>1 DEF IsPrefix
<1>3. /\ SubSeq(s, 1, Len(s)) = [i \in 1 .. Len(s) |-> s[i]]
      /\ SubSeq(t, 1, Len(s)) = [i \in 1 .. Len(s) |-> t[i]]
  BY <1>1
<1> QED BY <1>3

LEMMA FrontIs ==
  ASSUME NEW S, NEW s \in Seq(S), Len(s) >= 1
  PROVE  /\ Front(s) \in Seq(S) /\ Len(Front(s)) = Len(s) - 1
         /\ \A i \in 1 .. Len(s) - 1 : Front(s)[i] = s[i]
<1>1. Len(s) \in Nat /\ \A i \in 1 .. Len(s) : s[i] \in S
  BY LenProperties
<1> DEFINE n == Len(s) - 1
<1>2. n \in Nat /\ \A i \in 1 .. n : s[i] \in S
  BY <1>1
<1>3. Front(s) = SubSeq(s, 1, n)
  BY DEF Front
<1> HIDE DEF n
<1>4. /\ SubSeq(s, 1, n) \in Seq(S)
      /\ Len(SubSeq(s, 1, n)) = IF 1 <= n THEN n - 1 + 1 ELSE 0
      /\ \A i \in 1 .. n - 1 + 1 : SubSeq(s, 1, n)[i] = s[1 + i - 1]
  BY <1>2, SubSeqProperties
<1>5. Front(s) \in Seq(S) /\ Len(Front(s)) = n /\ \A i \in 1 .. n : Front(s)[i] = s[i]
  BY <1>2, <1>3, <1>4
<1> QED BY <1>5 DEF n

LEMMA AppendedIs ==
  ASSUME NEW S, NEW s \in Seq(S), NEW e \in S
  PROVE  /\ Append(s, e) \in Seq(S) /\ Len(Append(s, e)) = Len(s) + 1
         /\ Append(s, e)[Len(s) + 1] = e
         /\ \A i \in 1 .. Len(s) : Append(s, e)[i] = s[i]
BY AppendProperties

\* Two prefixes of one sequence are comparable.
LEMMA PrefixesCompare ==
  ASSUME NEW S, NEW s \in Seq(S), NEW t \in Seq(S), NEW u \in Seq(S),
         IsPrefix(s, u), IsPrefix(t, u)
  PROVE  IsPrefix(s, t) \/ IsPrefix(t, s)
<1>1. Len(s) \in Nat /\ Len(t) \in Nat /\ Len(u) \in Nat
  BY LenProperties
<1>2. /\ Len(s) <= Len(u) /\ \A i \in 1 .. Len(s) : s[i] = u[i]
      /\ Len(t) <= Len(u) /\ \A i \in 1 .. Len(t) : t[i] = u[i]
  BY PrefixIs
<1>3. CASE Len(s) <= Len(t)
  BY <1>1, <1>2, <1>3, PrefixIs
<1>4. CASE Len(t) <= Len(s)
  BY <1>1, <1>2, <1>4, PrefixIs
<1> QED BY <1>1, <1>3, <1>4

LEMMA PrefixOfPrefix ==
  ASSUME NEW S, NEW s \in Seq(S), NEW t \in Seq(S), NEW u \in Seq(S),
         IsPrefix(s, t), IsPrefix(t, u)
  PROVE  IsPrefix(s, u)
<1>1. Len(s) \in Nat /\ Len(t) \in Nat /\ Len(u) \in Nat
  BY LenProperties
<1>2. /\ Len(s) <= Len(t) /\ \A i \in 1 .. Len(s) : s[i] = t[i]
      /\ Len(t) <= Len(u) /\ \A i \in 1 .. Len(t) : t[i] = u[i]
  BY PrefixIs
<1> QED BY <1>1, <1>2, PrefixIs

\* The same as text: what s has before its last segment t has, and then goes on as s does.
LEMMA TextPrefixIs ==
  ASSUME NEW S, NEW s \in Seq(S), NEW t \in Seq(S), s # <<>>
  PROVE  TextPrefix(s, t) <=> /\ Len(s) <= Len(t)
                              /\ \A i \in 1 .. Len(s) - 1 : s[i] = t[i]
                              /\ StartsWith(t[Len(s)], s[Len(s)])
<1>1. Len(s) \in Nat /\ Len(s) >= 1 /\ Len(t) \in Nat
  BY LenProperties, EmptySeq
<1> DEFINE f == Front(s)
<1>2. f \in Seq(S) /\ Len(f) = Len(s) - 1 /\ \A i \in 1 .. Len(s) - 1 : f[i] = s[i]
  BY <1>1, FrontIs
<1> HIDE DEF f
<1>3. IsPrefix(f, t) <=> Len(f) <= Len(t) /\ \A i \in 1 .. Len(f) : f[i] = t[i]
  BY <1>2, PrefixIs
<1>4. Len(s) <= Len(t) => (IsPrefix(f, t) <=> \A i \in 1 .. Len(s) - 1 : s[i] = t[i])
  BY <1>1, <1>2, <1>3
<1> QED BY <1>4 DEF TextPrefix, Last, f

LEMMA TextPrefixesCompare ==
  ASSUME NEW S, NEW s \in Seq(S), NEW t \in Seq(S), NEW u \in Seq(S), s # <<>>, t # <<>>,
         TextPrefix(s, u), TextPrefix(t, u), Len(s) <= Len(t)
  PROVE  TextPrefix(s, t) \/ TextPrefix(t, s)
<1>1. /\ Len(s) \in Nat /\ Len(t) \in Nat /\ Len(u) \in Nat
      /\ Len(s) >= 1 /\ Len(t) >= 1
  BY LenProperties, EmptySeq
<1>2. /\ \A i \in 1 .. Len(s) - 1 : s[i] = u[i]
      /\ StartsWith(u[Len(s)], s[Len(s)])
      /\ \A i \in 1 .. Len(t) - 1 : t[i] = u[i]
      /\ StartsWith(u[Len(t)], t[Len(t)])
  BY TextPrefixIs
<1>3. \A i \in 1 .. Len(s) - 1 : s[i] = t[i]
  BY <1>1, <1>2
<1>4. CASE Len(s) < Len(t)
  <2>1. Len(s) \in 1 .. Len(t) - 1
    BY <1>1, <1>4
  <2>2. StartsWith(t[Len(s)], s[Len(s)])
    BY <1>2, <2>1
  <2> QED BY <1>3, <2>2, TextPrefixIs
<1>5. CASE Len(s) = Len(t)
  <2>1. \/ StartsWith(t[Len(s)], s[Len(s)])
        \/ StartsWith(s[Len(s)], t[Len(s)])
    <3> DEFINE x == s[Len(s)]
               y == t[Len(s)]
               z == u[Len(s)]
    <3>1. StartsWith(z, x) /\ StartsWith(z, y)
      BY <1>2, <1>5
    <3> HIDE DEF x, y, z
    <3>2. StartsWith(y, x) \/ StartsWith(x, y)
      <4>1. CASE z = x \/ z = y
        BY <3>1, <4>1
      <4>2. CASE <<x, z>> \in Beginnings /\ <<y, z>> \in Beginnings
        BY <4>2, NameAssumption
      <4> QED BY <3>1, <4>1, <4>2 DEF StartsWith
    <3> QED BY <3>2 DEF x, y
  <2>2. \A i \in 1 .. Len(t) - 1 : t[i] = s[i]
    BY <1>3, <1>5
  <2> QED BY <1>1, <1>3, <1>5, <2>1, <2>2, TextPrefixIs
<1> QED BY <1>1, <1>4, <1>5

LEMMA PrefixOfTextPrefix ==
  ASSUME NEW S, NEW s \in Seq(S), NEW t \in Seq(S), NEW u \in Seq(S), s # <<>>,
         IsPrefix(s, t), TextPrefix(t, u)
  PROVE  TextPrefix(s, u)
<1>1. /\ Len(s) \in Nat /\ Len(t) \in Nat /\ Len(u) \in Nat /\ Len(s) >= 1
      /\ Len(s) <= Len(t) /\ \A i \in 1 .. Len(s) : s[i] = t[i]
  BY LenProperties, EmptySeq, PrefixIs
<1>2. /\ Len(t) <= Len(u) /\ \A i \in 1 .. Len(t) - 1 : t[i] = u[i]
      /\ StartsWith(u[Len(t)], t[Len(t)])
  <2>1. t # <<>>
    BY <1>1, EmptySeq
  <2> QED BY <2>1, TextPrefixIs
<1>3. \A i \in 1 .. Len(s) - 1 : s[i] = u[i]
  BY <1>1, <1>2
<1>4. StartsWith(u[Len(s)], s[Len(s)])
  <2>1. CASE Len(s) = Len(t)
    BY <1>1, <1>2, <2>1
  <2>2. CASE Len(s) < Len(t)
    <3>1. Len(s) \in 1 .. Len(t) - 1 /\ Len(s) \in 1 .. Len(s)
      BY <1>1, <2>2
    <3>2. s[Len(s)] = u[Len(s)]
      BY <1>1, <1>2, <3>1
    <3> QED BY <3>2 DEF StartsWith
  <2> QED BY <1>1, <2>1, <2>2
<1> QED BY <1>1, <1>2, <1>3, <1>4, TextPrefixIs

\* Of any nonempty set of naturals there is a least one.
LEMMA LeastNatural ==
  ASSUME NEW T, T \subseteq Nat, T # {}
  PROVE  \E n \in T : \A m \in T : n <= m
<1>1. PICK n \in T : \A m \in T : ~ (<<m, n>> \in OpToRel(<, Nat))
  BY NatLessThanWellFounded, WFMin
<1>2. \A m \in T : ~ (m < n)
  BY <1>1 DEF OpToRel
<1> QED BY <1>2
-----------------------------------------------------------------------------
(* Patterns *)

LEMMA NamedPrefixIs ==
  ASSUME NEW S, NEW p \in Seq(S)
  PROVE  \E k \in 0 .. Len(p) :
           /\ NamedPrefix(p) \in Seq(S) /\ Len(NamedPrefix(p)) = k
           /\ \A i \in 1 .. k : NamedPrefix(p)[i] = p[i] /\ p[i] \notin Stars
           /\ k < Len(p) => p[k + 1] \in Stars
<1> DEFINE Ends(n) == /\ ~HasStar(SubSeq(p, 1, n))
                      /\ n < Len(p) => HasStar(<<p[n + 1]>>)
           T == {i \in 1 .. Len(p) : p[i] \in Stars}
<1>1. Len(p) \in Nat /\ \A i \in 1 .. Len(p) : p[i] \in S
  BY LenProperties
<1>2. ASSUME NEW n \in 0 .. Len(p)
      PROVE  /\ SubSeq(p, 1, n) \in Seq(S) /\ Len(SubSeq(p, 1, n)) = n
             /\ \A i \in 1 .. n : SubSeq(p, 1, n)[i] = p[i]
  <2>1. /\ SubSeq(p, 1, n) \in Seq(S)
        /\ Len(SubSeq(p, 1, n)) = IF 1 <= n THEN n - 1 + 1 ELSE 0
        /\ \A i \in 1 .. n - 1 + 1 : SubSeq(p, 1, n)[i] = p[1 + i - 1]
    BY <1>1, SubSeqProperties
  <2> QED BY <1>1, <2>1
<1>3. ASSUME NEW n \in 0 .. Len(p)
      PROVE  Ends(n) <=> /\ \A i \in 1 .. n : p[i] \notin Stars
                         /\ n < Len(p) => p[n + 1] \in Stars
  <2>1. HasStar(SubSeq(p, 1, n)) <=> \E i \in 1 .. n : p[i] \in Stars
    <3>1. DOMAIN SubSeq(p, 1, n) = 1 .. n
      BY <1>2, LenProperties
    <3> QED BY <1>2, <3>1 DEF HasStar, Stars
  <2>2. HasStar(<<p[n + 1]>>) <=> p[n + 1] \in Stars
    BY DEF HasStar, Stars
  <2> QED BY <2>1, <2>2
<1>4. \E n \in 0 .. Len(p) : Ends(n)
  <2>1. CASE T = {}
    <3>1. Ends(Len(p))
      BY <1>1, <1>3, <2>1
    <3> QED BY <1>1, <3>1
  <2>2. CASE T # {}
    <3>0. T \subseteq Nat
      BY <1>1
    <3>1. PICK m \in T : \A i \in T : m <= i
      <4> HIDE DEF T
      <4> QED BY <2>2, <3>0, LeastNatural
    <3>2. m \in 1 .. Len(p) /\ p[m] \in Stars /\ \A i \in 1 .. m - 1 : p[i] \notin Stars
      BY <1>1, <3>1
    <3>3. m - 1 \in 0 .. Len(p) /\ (m - 1) + 1 = m
      BY <1>1, <3>2
    <3>4. Ends(m - 1)
      BY <1>3, <3>2, <3>3
    <3> QED BY <3>3, <3>4
  <2> QED BY <2>1, <2>2
<1> DEFINE k == CHOOSE n \in 0 .. Len(p) : Ends(n)
<1>5. k \in 0 .. Len(p) /\ Ends(k)
  BY <1>4
<1>6. NamedPrefix(p) = SubSeq(p, 1, k)
  BY DEF NamedPrefix
<1> HIDE DEF Ends, k
<1> QED BY <1>2, <1>3, <1>5, <1>6

LEMMA HeadsAreGlobs ==
  /\ DOMAIN Heads \cap {"*", "**"} = {}
  /\ \A g \in DOMAIN Heads :
       Heads[g] \in STRING /\ \A name \in Globs[g] \cup {g} : StartsWith(name, Heads[g])
BY NameAssumption

\* A name and a head that begin a pattern before its first star begin every path that it
\* matches.
LEMMA MatchedNames ==
  ASSUME NEW S, NEW p \in Seq(S), NEW path \in Seq(S), p # <<>>,
         p[1] \notin {"*", "**"}, MatchesPattern(path, p),
         NEW k \in 0 .. Len(p), \A i \in 1 .. k : p[i] \notin Stars,
         k < Len(p) => p[k + 1] \in Stars
  PROVE  /\ k <= Len(path) /\ \A i \in 1 .. k : path[i] = p[i]
         /\ k < Len(p) /\ p[k + 1] \in DOMAIN Heads =>
              k < Len(path) /\ StartsWith(path[k + 1], Heads[p[k + 1]])
<1>1. /\ Len(p) \in Nat /\ Len(p) >= 1 /\ DOMAIN p = 1 .. Len(p)
      /\ \A i \in 1 .. Len(p) : p[i] \in S
      /\ Len(path) \in Nat
  BY LenProperties, EmptySeq
<1>2. MatchesTail(path, p)
  BY DEF MatchesPattern
<1>3. /\ Front(p) \in Seq(S) /\ Len(Front(p)) = Len(p) - 1
      /\ \A i \in 1 .. Len(p) - 1 : Front(p)[i] = p[i]
  BY <1>1, FrontIs
<1>4. HasStar(p) <=> k < Len(p)
  BY <1>1 DEF HasStar
<1>5. CASE IsPrefix(Front(p), path) /\ Last(p) \in {"*", "**"}
  <2>1. Len(p) - 1 <= Len(path) /\ \A i \in 1 .. Len(p) - 1 : p[i] = path[i]
    <3> DEFINE f == Front(p)
    <3>1. /\ f \in Seq(S) /\ Len(f) = Len(p) - 1 /\ IsPrefix(f, path)
          /\ \A i \in 1 .. Len(p) - 1 : f[i] = p[i]
      BY <1>3, <1>5
    <3> HIDE DEF f
    <3>2. Len(f) <= Len(path) /\ \A i \in 1 .. Len(f) : f[i] = path[i]
      BY <3>1, PrefixIs
    <3> QED BY <3>1, <3>2
  <2>2. p[Len(p)] \in {"*", "**"} /\ p[Len(p)] \in Stars
    <3>1. Last(p) = p[Len(p)]
      BY DEF Last
    <3>2. Last(p) \in Stars
      BY <1>5 DEF Stars
    <3> QED BY <1>5, <3>1, <3>2
  <2>3. k < Len(p)
    BY <1>1, <2>2
  <2>4. k <= Len(path) /\ \A i \in 1 .. k : path[i] = p[i]
    BY <1>1, <2>1, <2>3
  <2>5. ASSUME p[k + 1] \in DOMAIN Heads
        PROVE  k < Len(path) /\ StartsWith(path[k + 1], Heads[p[k + 1]])
    <3>1. k + 1 # Len(p)
      <4>1. p[k + 1] \notin {"*", "**"}
        BY <2>5, HeadsAreGlobs
      <4> QED BY <2>2, <4>1
    <3>2. k + 1 \in 1 .. Len(p) - 1
      <4>1. k \in Nat /\ Len(p) \in Nat
        BY <1>1
      <4> QED BY <2>3, <3>1, <4>1
    <3>3. path[k + 1] = p[k + 1] /\ k < Len(path)
      BY <1>1, <2>1, <3>2
    <3> QED BY <2>5, <3>3, HeadsAreGlobs
  <2> QED BY <2>4, <2>5
<1>6. CASE HasStar(p) /\ Len(path) = Len(p) /\ \A i \in DOMAIN p : Fits(path[i], p[i])
  <2>1. \A i \in 1 .. k : path[i] = p[i]
    BY <1>1, <1>6 DEF Fits, Stars
  <2>2. ASSUME p[k + 1] \in DOMAIN Heads
        PROVE  StartsWith(path[k + 1], Heads[p[k + 1]])
    <3>1. Fits(path[k + 1], p[k + 1]) /\ p[k + 1] # "*"
      BY <1>1, <1>4, <1>6, <2>2, HeadsAreGlobs
    <3> QED BY <2>2, <3>1, HeadsAreGlobs DEF Fits
  <2> QED BY <1>1, <1>4, <1>6, <2>1, <2>2
<1>7. CASE ~HasStar(p) /\ IsPrefix(p, path)
  BY <1>1, <1>4, <1>7, PrefixIs
<1> QED BY <1>2, <1>5, <1>6, <1>7 DEF MatchesTail

\* What is before a pattern's first star begins, as text, every path that it matches; and
\* segment by segment if no star is within a name.
LEMMA MatchedPrefix ==
  ASSUME NEW S, NEW p \in Seq(S), NEW path \in Seq(S), p # <<>>,
         \A g \in DOMAIN Heads : Heads[g] \in S,
         PatternPrefix(p) # <<>>, MatchesPattern(path, p)
  PROVE  /\ PatternPrefix(p) \in Seq(S)
         /\ TextPrefix(PatternPrefix(p), path)
         /\ ~HasHead(p) => IsPrefix(PatternPrefix(p), path) /\ PatternPrefix(p)[1] \notin Stars
<1>1. PICK k \in 0 .. Len(p) :
        /\ NamedPrefix(p) \in Seq(S) /\ Len(NamedPrefix(p)) = k
        /\ \A i \in 1 .. k : NamedPrefix(p)[i] = p[i] /\ p[i] \notin Stars
        /\ k < Len(p) => p[k + 1] \in Stars
  BY NamedPrefixIs
<1> DEFINE s == NamedPrefix(p)
           q == PatternPrefix(p)
<1>2. /\ Len(p) \in Nat /\ Len(p) >= 1 /\ DOMAIN p = 1 .. Len(p)
      /\ Len(path) \in Nat
  BY LenProperties, EmptySeq
<1>3. q = IF k < Len(p) /\ p[k + 1] \in DOMAIN Heads THEN Append(s, Heads[p[k + 1]]) ELSE s
  BY <1>1 DEF PatternPrefix
<1>4. s \in Seq(S) /\ Len(s) = k /\ \A i \in 1 .. k : s[i] = p[i] /\ p[i] \notin Stars
  BY <1>1
<1> HIDE DEF s
<1>5. p[1] \notin {"*", "**"}
  <2>1. CASE k = 0
    <3>1. p[1] \in DOMAIN Heads
      BY <1>3, <1>4, <2>1, EmptySeq
    <3> QED BY <3>1, HeadsAreGlobs
  <2>2. CASE k > 0
    BY <1>2, <1>4, <2>2 DEF Stars
  <2> QED BY <1>2, <2>1, <2>2
<1>6. /\ k <= Len(path) /\ \A i \in 1 .. k : path[i] = p[i]
      /\ k < Len(p) /\ p[k + 1] \in DOMAIN Heads =>
           k < Len(path) /\ StartsWith(path[k + 1], Heads[p[k + 1]])
  BY <1>1, <1>4, <1>5, MatchedNames
<1>7. CASE k < Len(p) /\ p[k + 1] \in DOMAIN Heads
  <2> DEFINE h == Heads[p[k + 1]]
  <2>1. h \in S /\ q = Append(s, h) /\ HasHead(p)
    BY <1>2, <1>3, <1>7 DEF HasHead
  <2>2. k < Len(path) /\ StartsWith(path[k + 1], h)
    BY <1>6, <1>7
  <2> HIDE DEF h, q
  <2>3. /\ q \in Seq(S) /\ Len(q) = k + 1 /\ q[k + 1] = h
        /\ \A i \in 1 .. k : q[i] = s[i]
    BY <1>4, <2>1, AppendedIs
  <2>4. q # <<>> /\ k \in Nat
    BY <1>2, <2>3, EmptySeq
  <2>5. TextPrefix(q, path)
    BY <1>2, <1>4, <1>6, <2>2, <2>3, <2>4, TextPrefixIs
  <2> QED BY <2>1, <2>3, <2>5 DEF q
<1>8. CASE ~(k < Len(p) /\ p[k + 1] \in DOMAIN Heads)
  <2>1. q = s /\ s # <<>>
    BY <1>3, <1>8
  <2>2. k \in Nat /\ k >= 1
    BY <1>2, <1>4, <2>1, EmptySeq
  <2>3. StartsWith(path[k], s[k])
    BY <1>4, <1>6, <2>2 DEF StartsWith
  <2>4. TextPrefix(s, path)
    BY <1>4, <1>6, <2>1, <2>2, <2>3, TextPrefixIs
  <2>5. IsPrefix(s, path)
    BY <1>4, <1>6, PrefixIs
  <2>6. s[1] \notin Stars
    BY <1>4, <2>2
  <2> QED BY <1>4, <2>1, <2>4, <2>5, <2>6
<1> QED BY <1>7, <1>8

LEMMA StarIs == \A x : HasStar(<<x>>) <=> x \in Stars
BY DEF HasStar, Stars

\* A pattern whose first segment is a name has a prefix.
LEMMA NameBegins ==
  ASSUME NEW S, NEW p \in Seq(S), p # <<>>, p[1] \notin Stars,
         \A g \in DOMAIN Heads : Heads[g] \in S
  PROVE  PatternPrefix(p) # <<>>
<1>1. PICK k \in 0 .. Len(p) :
        /\ NamedPrefix(p) \in Seq(S) /\ Len(NamedPrefix(p)) = k
        /\ k < Len(p) => p[k + 1] \in Stars
  BY NamedPrefixIs
<1>2. Len(p) \in Nat /\ Len(p) >= 1
  BY LenProperties, EmptySeq
<1> DEFINE s == NamedPrefix(p)
<1>3. s \in Seq(S) /\ Len(s) = k
  BY <1>1
<1> HIDE DEF s
<1>4. k >= 1
  BY <1>1, <1>2
<1>5. s # <<>>
  BY <1>3, <1>4, EmptySeq
<1>6. ASSUME k < Len(p), p[k + 1] \in DOMAIN Heads
      PROVE  Append(s, Heads[p[k + 1]]) # <<>>
  <2> DEFINE h == Heads[p[k + 1]]
  <2>1. h \in S
    BY <1>6
  <2> HIDE DEF h
  <2>2. Append(s, h) # <<>>
    BY <1>3, <2>1, AppendProperties
  <2> QED BY <2>2 DEF h
<1> QED BY <1>3, <1>5, <1>6 DEF PatternPrefix, s

\* A planned pattern that is within an allowed one: what the one matches the other
\* matches, or it is below what the plan names, or begins as text with what is allowed.
LEMMA WithinIsAllowed ==
  ASSUME NEW S, NEW p \in Seq(S), NEW a \in Seq(S), NEW path \in Seq(S),
         \A g \in DOMAIN Heads : Heads[g] \in S,
         p # <<>>, a # <<>>, ScopePatternWithin(p, a), MatchesPattern(path, p)
  PROVE  \/ MatchesPattern(path, a)
         \/ ~HasStar(p) /\ MatchesPattern(p, a) /\ IsStrictPrefix(p, path)
         \/ HasHead(p) /\ Last(a) = "**" /\ TextPrefix(Front(a), path)
<1>1. /\ Len(p) \in Nat /\ Len(p) >= 1 /\ DOMAIN p = 1 .. Len(p)
      /\ Len(a) \in Nat /\ Len(a) >= 1
      /\ \A i \in 1 .. Len(a) : a[i] \in S
  BY LenProperties, EmptySeq
<1>2. CASE p = a
  BY <1>2
<1>3. CASE ~HasStar(p) /\ MatchesPattern(p, a)
  <2>1. p \notin {<<"**">>, <<"*">>} /\ Last(p) \notin {"*", "**"} /\ p[1] # "**"
    BY <1>1, <1>3 DEF HasStar, Stars, Last
  <2>2. MatchesTail(path, p)
    BY <2>1 DEF MatchesPattern
  <2>3. IsPrefix(p, path)
    BY <1>3, <2>1, <2>2 DEF MatchesTail
  <2> QED BY <1>3, <2>3 DEF IsStrictPrefix
<1>4. CASE Len(a) > 1 /\ Last(a) = "**" /\ IsPrefix(Front(a), PatternPrefix(p))
  <2> DEFINE f == Front(a)
             q == PatternPrefix(p)
  <2>1. f \in Seq(S) /\ Len(f) = Len(a) - 1 /\ f[1] = a[1] /\ f # <<>>
    BY <1>1, <1>4, FrontIs, EmptySeq
  <2>2. IsPrefix(f, q)
    BY <1>4
  <2>3. q # <<>>
    BY <1>1, <1>4, <2>1, <2>2, EmptySeq DEF IsPrefix
  <2>4. /\ q \in Seq(S) /\ TextPrefix(q, path)
        /\ ~HasHead(p) => IsPrefix(q, path) /\ q[1] \notin Stars
    BY <2>3, MatchedPrefix
  <2>5. f[1] = q[1]
    <3> HIDE DEF f, q
    <3> QED BY <1>1, <1>4, <2>1, <2>2, <2>4, PrefixIs
  <2>6. CASE HasHead(p)
    <3>1. TextPrefix(f, path)
      <4> HIDE DEF f, q
      <4> QED BY <2>1, <2>2, <2>4, PrefixOfTextPrefix
    <3> QED BY <1>4, <2>6, <3>1
  <2>7. CASE ~HasHead(p)
    <3>1. IsPrefix(f, path)
      <4> HIDE DEF f, q
      <4> QED BY <2>1, <2>2, <2>4, <2>7, PrefixOfPrefix
    <3>2. a[1] # "**"
      BY <2>1, <2>4, <2>5, <2>7 DEF Stars
    <3> QED BY <1>4, <3>1, <3>2 DEF MatchesPattern, MatchesTail
  <2> QED BY <2>6, <2>7
<1> QED BY <1>2, <1>3, <1>4 DEF ScopePatternWithin

\* Two patterns that match a path overlap, when something is before the star of each or one
\* is for everything.
LEMMA MatchedOverlap ==
  ASSUME NEW S, NEW p \in Seq(S), NEW q \in Seq(S), NEW path \in Seq(S),
         \A g \in DOMAIN Heads : Heads[g] \in S,
         p # <<>>, q # <<>>, MatchesPattern(path, p), MatchesPattern(path, q),
         PatternPrefix(p) # <<>>, q = <<"**">> \/ ~HasStar(<<q[1]>>)
  PROVE  Overlaps(p, q)
<1>1. CASE q = <<"**">>
  <2>1. MatchesTail(p, q)
    BY <1>1 DEF MatchesTail
  <2> QED BY <1>1, <2>1 DEF Overlaps, MatchesPattern
<1>2. CASE ~HasStar(<<q[1]>>)
  <2> DEFINE l == PatternPrefix(p)
             r == PatternPrefix(q)
  <2>1. r # <<>>
    BY <1>2, StarIs, NameBegins
  <2>2. l \in Seq(S) /\ TextPrefix(l, path) /\ r \in Seq(S) /\ TextPrefix(r, path)
    BY <2>1, MatchedPrefix
  <2>3. TextPrefix(l, r) \/ TextPrefix(r, l)
    <3> l # <<>>
      OBVIOUS
    <3> HIDE DEF l, r
    <3>1. Len(l) \in Nat /\ Len(r) \in Nat
      BY <2>2, LenProperties
    <3>2. Len(l) <= Len(r) \/ Len(r) <= Len(l)
      BY <3>1
    <3> QED BY <2>1, <2>2, <3>2, TextPrefixesCompare
  <2> QED BY <2>1, <2>3 DEF Overlaps
<1> QED BY <1>1, <1>2

\* The glob arithmetic of validatePlanContract is right: a plan that it accepts is
\* inside its task and no riskier than it says.
LEMMA ValidPlans ==
  ASSUME NEW c \in Contracts, NEW q \in Plans, PlanValid(q, c),
         NEW p \in PlanOf[q].scope.allowed, NEW path \in Covers[p]
  PROVE  /\ ContractOf[c].scope.allowed # {} =>
              \E a \in ContractOf[c].scope.allowed :
                \/ path \in Covers[a]
                \/ ~HasStar(p) /\ MatchesPattern(p, a) /\ IsStrictPrefix(p, path)
                \/ HasHead(p) /\ Last(a) = "**" /\ TextPrefix(Front(a), path)
         /\ Riskier(path, PlanOf[q].risk) => PatternPrefix(p) = <<>>
<1>1. /\ p \in DOMAIN Covers /\ p \in Seq(STRING) /\ p # <<>>
      /\ path \in Paths /\ path \in Seq(STRING) /\ MatchesPattern(path, p)
  BY PatternAssumption
<1>2. ASSUME ContractOf[c].scope.allowed # {}
      PROVE  \E a \in ContractOf[c].scope.allowed :
               \/ path \in Covers[a]
               \/ ~HasStar(p) /\ MatchesPattern(p, a) /\ IsStrictPrefix(p, path)
               \/ HasHead(p) /\ Last(a) = "**" /\ TextPrefix(Front(a), path)
  <2>1. PICK a \in ContractOf[c].scope.allowed : ScopePatternWithin(p, a)
    BY <1>2 DEF PlanValid, PlanScopeValid
  <2>2. a \in DOMAIN Covers /\ a \in Seq(STRING) /\ a # <<>>
    BY PatternAssumption
  <2>3. \/ MatchesPattern(path, a)
        \/ ~HasStar(p) /\ MatchesPattern(p, a) /\ IsStrictPrefix(p, path)
        \/ HasHead(p) /\ Last(a) = "**" /\ TextPrefix(Front(a), path)
    BY <1>1, <2>1, <2>2, HeadsAreGlobs, WithinIsAllowed
  <2>4. MatchesPattern(path, a) => path \in Covers[a]
    BY <1>1, <2>2, PatternAssumption
  <2> QED BY <2>3, <2>4
<1>3. ASSUME Riskier(path, PlanOf[q].risk), PatternPrefix(p) # <<>>
      PROVE  FALSE
  <2>1. PICK rule \in PathRisk :
          path \in Covers[rule.pattern] /\ Above(rule.risk, PlanOf[q].risk)
    BY <1>3 DEF Riskier
  <2> DEFINE r == rule.pattern
  <2>2. /\ r \in DOMAIN Covers /\ r \in Seq(STRING) /\ r # <<>>
        /\ MatchesPattern(path, r)
    BY <1>1, <2>1, PatternAssumption
  <2>3. r = <<"**">> \/ ~HasStar(<<r[1]>>)
    BY RuleAssumption
  <2>4. Overlaps(p, r)
    <3> HIDE DEF r
    <3> QED BY <1>1, <1>3, <2>2, <2>3, HeadsAreGlobs, MatchedOverlap
  <2>5. ~PathAbove(p, PlanOf[q].risk)
    BY DEF PlanValid, PlanScopeValid, InferRiskAbove
  <2> QED BY <2>1, <2>4, <2>5 DEF PathAbove
<1> QED BY <1>2, <1>3

-----------------------------------------------------------------------------
(* The end of a turn *)

LEMMA StepsLeftIs ==
  TypeOK => /\ gate.at \in 0 .. VerdictStep /\ VerdictStep \in Nat
            /\ StepsLeft \in Nat
            /\ turn = "over" => StepsLeft = 0
            /\ turn = "stopping" /\ active => StepsLeft = 1
            /\ turn = "stopping" /\ ~active => StepsLeft = 3 + VerdictStep - gate.at
            /\ turn = "working" /\ active => StepsLeft = 2
            /\ turn = "working" /\ ~active => StepsLeft = 4 + VerdictStep
  BY Steps, TypeParts DEF StepsLeft, GateType

LEMMA EndComesNearer ==
  ASSUME TypeOK, TypeOK', [Next]_vars
  PROVE  /\ Gate \/ StopTurn => StepsLeft' < StepsLeft
         /\ StepsLeft' <= StepsLeft \/ Prompt
<1> DEFINE V == VerdictStep
<1>1. /\ gate.at \in 0 .. V /\ V \in Nat /\ StepsLeft \in Nat
      /\ turn \in {"working", "stopping", "over"} /\ active \in BOOLEAN
      /\ turn = "over" => StepsLeft = 0
      /\ turn = "stopping" /\ active => StepsLeft = 1
      /\ turn = "stopping" /\ ~active => StepsLeft = 3 + V - gate.at
      /\ turn = "working" /\ active => StepsLeft = 2
      /\ turn = "working" /\ ~active => StepsLeft = 4 + V
      /\ gate.at # 0 => turn = "stopping" /\ ~active
  BY StepsLeftIs, TypeParts
<1>2. /\ gate'.at \in 0 .. V /\ StepsLeft' \in Nat
      /\ turn' = "over" => StepsLeft' = 0
      /\ turn' = "stopping" /\ active' => StepsLeft' = 1
      /\ turn' = "stopping" /\ ~active' => StepsLeft' = 3 + V - gate'.at
      /\ turn' = "working" /\ active' => StepsLeft' = 2
      /\ turn' = "working" /\ ~active' => StepsLeft' = 4 + V
  <2>1. TypeOK' => /\ gate'.at \in 0 .. VerdictStep /\ StepsLeft' \in Nat
                   /\ turn' = "over" => StepsLeft' = 0
                   /\ turn' = "stopping" /\ active' => StepsLeft' = 1
                   /\ turn' = "stopping" /\ ~active' => StepsLeft' = 3 + VerdictStep - gate'.at
                   /\ turn' = "working" /\ active' => StepsLeft' = 2
                   /\ turn' = "working" /\ ~active' => StepsLeft' = 4 + VerdictStep
    BY Steps, TypePartsPrimed DEF StepsLeft, GateType
  <2> QED BY <2>1
<1> HIDE DEF V
<1> DEFINE Nearer == StepsLeft' < StepsLeft
<1>3. Block /\ gate.at # 0 => Nearer
  BY <1>1, <1>2 DEF Block
<1>4. turn # "over" /\ (LetStop("unverified") \/ LetStop("passed")) => Nearer
  BY <1>1, <1>2 DEF LetStop
<1>5. gate.at < gate'.at /\ turn = "stopping" /\ UNCHANGED session /\ ~active => Nearer
  BY <1>1, <1>2 DEF session
<1>6. UNCHANGED <<gate, session>> => StepsLeft' = StepsLeft
  BY <1>1, <1>2 DEF session
<1>7. gate \in GateType
  BY TypeParts
<1> HIDE DEF Nearer
<1>8. ASSUME Gate PROVE Nearer
  <2>1. CASE Begin
    <3>1. turn = "stopping" /\ gate.at = 0
      BY <2>1 DEF Begin
    <3>2. \/ LetStop("unverified")
          \/ gate' = [NoGate EXCEPT !.at = 1, !.together = Together]
             /\ UNCHANGED session /\ ~active
      BY <2>1 DEF Begin
    <3>3. gate' = [NoGate EXCEPT !.at = 1, !.together = Together] => gate'.at = 1
      BY GateBegins
    <3> QED BY <1>4, <1>5, <3>1, <3>2, <3>3
  <2>2. CASE ReadPlan
    <3>1. gate.at = 1
      BY <2>2 DEF ReadPlan
    <3>2. Block \/ (gate'.at = 2 /\ UNCHANGED session)
      BY <2>2, <1>7 DEF ReadPlan, GateType
    <3> QED BY <1>1, <1>3, <1>5, <3>1, <3>2
  <2>3. CASE RecordPlan
    <3>1. gate.at = 2 /\ gate'.at = 3 /\ UNCHANGED session
      BY <2>3, <1>7 DEF RecordPlan, GateType, CheckStep
    <3> QED BY <1>1, <1>5, <3>1
  <2>4. CASE BuildReport
    <3>1. gate.at = ReportStep /\ gate'.at = ReportStep + 1 /\ UNCHANGED session
      BY <2>4, <1>7 DEF BuildReport, GateType, VerdictStep
    <3>2. gate.at # 0 /\ gate.at < gate'.at
      BY <3>1, Steps
    <3> QED BY <1>1, <1>5, <3>1, <3>2
  <2>5. CASE GiveVerdict
    <3>1. gate.at # 0
      BY <2>5, Steps DEF GiveVerdict
    <3>2. LetStop("passed") \/ Block
      BY <2>5 DEF GiveVerdict
    <3> QED BY <1>1, <1>3, <1>4, <3>1, <3>2
  <2>6. ASSUME NEW n \in DOMAIN Gated, RunCheck(n) \/ RecordCheck(n)
        PROVE  Nearer
    <3>1. n \in Nat
      BY Steps
    <3>2. UNCHANGED session /\ gate.at # 0 /\ gate.at < gate'.at
      <4>1. CASE RunCheck(n)
        <5>1. UNCHANGED session /\ gate.at = CheckStep(n) /\ gate'.at = RecordStep(n)
          BY <4>1, <1>7 DEF RunCheck, GateType
        <5> QED BY <3>1, <5>1 DEF CheckStep, RecordStep
      <4>2. CASE RecordCheck(n)
        <5>1. UNCHANGED session /\ gate.at = RecordStep(n) /\ gate'.at = CheckStep(n + 1)
          BY <4>2, <1>7 DEF RecordCheck, GateType
        <5> QED BY <3>1, <5>1 DEF CheckStep, RecordStep
      <4> QED BY <2>6, <4>1, <4>2
    <3> QED BY <1>1, <1>5, <3>2
  <2> QED BY <1>8, <2>1, <2>2, <2>3, <2>4, <2>5, <2>6 DEF Gate
<1>9. ASSUME StopTurn PROVE Nearer
  <2>1. turn = "working" /\ turn' = "stopping" /\ UNCHANGED <<active, gate>> /\ gate.at = 0
    BY <1>1, <1>9 DEF StopTurn
  <2> QED BY <1>1, <1>2, <2>1 DEF Nearer
<1>10. Nearer => StepsLeft' <= StepsLeft
  BY <1>1, <1>2 DEF Nearer
<1>11. ASSUME Others \/ UNCHANGED vars PROVE StepsLeft' <= StepsLeft \/ Prompt
  <2>1. CASE TouchFiles \/ EditMeanwhile \/ RunSuiteMeanwhile \/ UNCHANGED vars
    <3>1. UNCHANGED <<gate, session>>
      BY <2>1 DEF TouchFiles, EditMeanwhile, RunSuiteMeanwhile, vars
    <3> QED BY <1>1, <1>6, <3>1
  <2>2. CASE Killed
    BY <1>1, <1>4, <1>10, <2>2 DEF Killed
  <2> QED BY <1>11, <2>1, <2>2 DEF Others
<1> QED BY <1>8, <1>9, <1>10, <1>11 DEF Next, Nearer

-----------------------------------------------------------------------------
(* The theorems *)

LEMMA InitOK == Init => IInv
<1> SUFFICES ASSUME Init PROVE IInv
  OBVIOUS
<1>1. PICK o \in Openings : tree = o.tree /\ commit = o.tree
                              /\ contract = o.contract /\ plan = o.plan
  BY DEF Init
<1>2. /\ o.tree \in Trees /\ o.contract \in Contracts \cup {None} /\ o.plan \in Plans \cup {None}
  BY AgentAssumption
<1>3. gate \in GateType /\ gate.at = 0
  BY NoGateTyped DEF Init
<1>4. 0 \in 0 .. MaxEvents /\ 1 \in 1 .. MaxTurns
  BY AgentAssumption
<1>5. TypeOK
  BY <1>1, <1>2, <1>3, <1>4, TypeParts DEF Init, RecordsOK
<1>6. ToldInv /\ FreshInv
  BY <1>3 DEF ToldInv, FreshInv
<1>7. PassInv /\ SupportInv /\ touched <= events
  BY DEF Init, PassInv, SupportInv
<1>8. QED BY <1>5, <1>6, <1>7, Parts DEF IInv

LEMMA NextOK == IInv /\ [Next]_vars => IInv'
<1> SUFFICES ASSUME IInv, [Next]_vars PROVE IInv'
  OBVIOUS
<1>1. CASE Gate
  <2>1. CASE Begin
    BY <2>1, BeginStep
  <2>2. CASE ReadPlan
    BY <2>2, ReadPlanStep
  <2>3. CASE RecordPlan
    BY <2>3, RecordPlanStep
  <2>4. CASE BuildReport
    BY <2>4, BuildReportStep
  <2>5. CASE GiveVerdict
    BY <2>5, GiveVerdictStep
  <2>6. ASSUME NEW n \in DOMAIN Gated, RunCheck(n)
        PROVE  IInv'
    BY <2>6, RunCheckStep
  <2>7. ASSUME NEW n \in DOMAIN Gated, RecordCheck(n)
        PROVE  IInv'
    BY <2>7, RecordCheckStep
  <2>8. QED BY <1>1, <2>1, <2>2, <2>3, <2>4, <2>5, <2>6, <2>7 DEF Gate
<1>2. CASE StopTurn
  BY <1>2, StopTurnStep
<1>3. CASE TouchFiles
  BY <1>3, TouchFilesStep
<1>4. CASE EditMeanwhile
  BY <1>4, EditMeanwhileStep
<1>5. CASE RunSuiteMeanwhile
  BY <1>5, RunSuiteMeanwhileStep
<1>6. CASE Prompt
  BY <1>6, PromptStep
<1>7. CASE Killed
  BY <1>7, LetStopStep DEF Killed, Intervene
<1>8. CASE UNCHANGED vars
  <2>1. /\ UNCHANGED <<tree, commit, contract, plan, unit, acceptance, records, report, gate,
                       session, touched, turns, events>>
    BY <1>8 DEF vars, files, suites, bounds
  <2>2. QED BY <2>1, NothingTouched, TypeParts DEF IInv
<1>9. QED BY <1>1, <1>2, <1>3, <1>4, <1>5, <1>6, <1>7, <1>8 DEF Next, Others

\* Whatever happens, the types hold and what the gate keeps of the files is what
\* its records and its report say of them (agent-stop.mjs:88-180).
THEOREM GateInvariant == Spec => [](TypeOK /\ GateInv)
<1>1. IInv => TypeOK /\ GateInv
  BY DEF IInv
<1>2. QED BY <1>1, InitOK, NextOK, PTL DEF Spec

\* An agent is let go only on a report about the head, contract and plan that are
\* there and whose checks have all passed in this run of the gate, as long as
\* nobody replaced them while it ran (agent-stop.mjs:161-175).
THEOREM PassesAreCurrent == Spec => []PassIsCurrent
<1>1. IInv => PassIsCurrent
  <2>1. SUFFICES ASSUME IInv, verdict = "passed", touched = 0
                 PROVE  /\ Ready
                        /\ <<report.head, report.contract, report.plan>>
                             = <<commit, contract, plan>>
                        /\ gate.failed \cap PlanOf[plan].checks = {}
    BY DEF PassIsCurrent
  <2>2. Ready /\ ReportIsCurrent
    BY <2>1, Parts DEF IInv, PassInv
  <2>3. QED BY <2>2 DEF ReportIsCurrent
<1>2. QED BY <1>1, InitOK, NextOK, PTL DEF Spec

\* A report that says ready is supported by what the repository holds, whoever
\* else edited, ran the suites or killed an earlier gate, and although HEAD, the
\* contract or the plan may have been replaced once while the checks ran, if plan
\* and contract belonged together when they began (build-execution-report.mjs:140).
THEOREM ReadyReportsAreSupported == Spec => [](OnceInv /\ ReadyIsSupported)
<1>1. Init => OnceInv
  <2>1. SUFFICES ASSUME Init PROVE OnceInv
    OBVIOUS
  <2>2. gate.at = 0 /\ report = None
    BY <2>1, NoGateTyped DEF Init
  <2>3. QED BY <2>2 DEF OnceInv
<1>2. OnceInv => ReadyIsSupported
  BY DEF OnceInv, ReadyIsSupported, Ready
<1>3. QED BY <1>1, <1>2, InitOK, NextOK, OnceNext, PTL DEF Spec

\* A plan that is accepted allows no path that its task does not, but for what is
\* below a directory that both allow by name, and declares no lower risk than that of
\* any path it allows, whatever globs a task, a plan and policy.json are written with
\* (plan-contract.mjs:81 and 156, risk-policy.mjs:32).
THEOREM PlansAreBounded == Spec => []ValidPlanIsBounded
<1>1. TypeOK => ValidPlanIsBounded
  <2>1. SUFFICES ASSUME TypeOK, contract # None, plan # None, PlanValid(plan, contract),
                        NEW p \in PlanOf[plan].scope.allowed, NEW path \in Covers[p]
                 PROVE  /\ ContractOf[contract].scope.allowed # {} =>
                             \E a \in ContractOf[contract].scope.allowed :
                               \/ path \in Covers[a]
                               \/ /\ ~HasStar(p) /\ MatchesPattern(p, a)
                                  /\ IsStrictPrefix(p, path)
                               \/ /\ HasHead(p) /\ Last(a) = "**"
                                  /\ TextPrefix(Front(a), path)
                        /\ Riskier(path, PlanOf[plan].risk) => PatternPrefix(p) = <<>>
    BY DEF ValidPlanIsBounded
  <2>2. contract \in Contracts /\ plan \in Plans
    BY <2>1, TypeParts
  <2> QED BY <2>1, <2>2, ValidPlans
<1> QED BY <1>1, GateInvariant, PTL

\* A turn's end comes nearer with each step of the agent and of its hook, and nothing
\* but a person's prompt takes it away again (agent-stop.mjs:95): so many steps after
\* the prompt it is there, whatever the checks answer, for any number of checks.
THEOREM TurnsEndInTime == Spec => [](StepsLeft \in Nat) /\ EachStepCounts
<1>1. IInv => StepsLeft \in Nat
  BY StepsLeftIs DEF IInv
<1>2. IInv /\ IInv' /\ [Next]_vars =>
        [/\ Gate \/ StopTurn => StepsLeft' < StepsLeft
         /\ StepsLeft' <= StepsLeft \/ Prompt]_vars
  BY EndComesNearer DEF IInv
<1> QED BY <1>1, <1>2, InitOK, NextOK, PTL DEF Spec, EachStepCounts

\* The gate is never beyond its last step, and records, report and budget are of
\* the right kinds (agent-stop.mjs, main).
THEOREM GateTypes == Spec => []TypeOK
<1>1. QED BY GateInvariant, PTL

\* HEAD, contract or plan replaced once while the checks run: it came before what
\* it makes false was found, or the report notices (agent-stop.mjs, main).
THEOREM OneReplacementIsNoticed == Spec => []OnceInv
<1>1. QED BY ReadyReportsAreSupported, PTL
=============================================================================
