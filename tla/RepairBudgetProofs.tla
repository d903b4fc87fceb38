------------------------- MODULE RepairBudgetProofs -------------------------
(***************************************************************************)
(* Proofs about RepairBudget, for every set of failures and logs of any      *)
(* length.                                                                 *)
(***************************************************************************)
EXTENDS RepairBudget, FiniteSetTheorems, TLAPS

-----------------------------------------------------------------------------
(* What the script's answer "repair" says of the log *)

\* The layers are asked in their order, so that policy comes before everything
\* and security before everything else.
LEMMA FirstLayers ==
  ASSUME NEW layers
  PROVE  /\ "policy" \in layers => Classify(layers) = "policy"
         /\ "security" \in layers /\ "policy" \notin layers
              => Classify(layers) = "security"
         /\ layers = {} => Classify(layers) = "unknown"
<1> DEFINE First(n) == /\ Layers[n] \in layers
                       /\ \A k \in 1 .. n - 1 : Layers[k] \notin layers
<1>1. /\ DOMAIN Layers = 1 .. 7 /\ Layers[1] = "policy" /\ Layers[2] = "security"
  BY DEF Layers
<1>2. ASSUME "policy" \in layers  PROVE Classify(layers) = "policy"
  <2>1. \A n \in DOMAIN Layers : First(n) <=> n = 1
    BY <1>1, <1>2
  <2>2. (CHOOSE n \in DOMAIN Layers : First(n)) = 1
    BY <1>1, <2>1
  <2>3. QED BY <1>1, <1>2, <2>2 DEF Classify
<1>3. ASSUME "security" \in layers, "policy" \notin layers
      PROVE  Classify(layers) = "security"
  <2>1. \A n \in DOMAIN Layers : First(n) <=> n = 2
    BY <1>1, <1>3
  <2>2. (CHOOSE n \in DOMAIN Layers : First(n)) = 2
    BY <1>1, <2>1
  <2>3. QED BY <1>1, <1>3, <2>2 DEF Classify
<1>4. QED BY <1>2, <1>3 DEF Classify

\* A failure that is like an earlier one is counted twice at least.
LEMMA RepeatsCounts ==
  ASSUME NEW log \in Seq(Failures), NEW n \in 1 .. Len(log) - 1,
         FailureSignature(log[n]) = FailureSignature(log[Len(log)])
  PROVE  Repeats(log) >= 2
<1> DEFINE last == Len(log)
           Same == {i \in DOMAIN log : FailureSignature(log[i]) = FailureSignature(log[last])}
<1>1. /\ last \in Nat /\ DOMAIN log = 1 .. last
      /\ n \in 1 .. last /\ last \in 1 .. last /\ n # last
  OBVIOUS
<1>2. IsFiniteSet(1 .. last)
  <2> HIDE DEF last
  <2>1. 1 \in Int /\ last \in Int
    BY <1>1
  <2>2. QED BY <2>1, FS_Interval, Zenon
<1>3. IsFiniteSet(Same)
  <2>1. Same \in SUBSET (1 .. last)
    BY <1>1
  <2>2. QED BY <1>2, <2>1, FS_Subset
<1>4. {n, last} \in SUBSET Same
  <2>1. n \in Same /\ last \in Same
    BY <1>1
  <2>2. QED BY <2>1
<1>5. Cardinality({n, last}) = 2
  <2> HIDE DEF last
  <2>1. IsFiniteSet({n}) /\ Cardinality({n}) = 1
    BY FS_Singleton
  <2>2. Cardinality({n} \cup {last}) = Cardinality({n}) + 1
    <3>1. last \notin {n}
      BY <1>1
    <3>2. QED BY <2>1, <3>1, FS_AddElement
  <2>3. Cardinality({n} \cup {last}) = 2
    <3>1. Cardinality({n} \cup {last}) = 1 + 1
      BY <2>1, <2>2, Zenon
    <3>2. 1 + 1 = 2
      OBVIOUS
    <3>3. QED BY <3>1, <3>2, Zenon
  <2>4. {n} \cup {last} = {n, last}
    OBVIOUS
  <2>5. QED BY <2>3, <2>4, Zenon
<1>6. Cardinality({n, last}) <= Cardinality(Same) /\ Cardinality(Same) \in Nat
  <2> HIDE DEF Same
  <2>1. QED BY <1>3, <1>4, FS_Subset, FS_CardinalityType
<1>7. QED BY <1>5, <1>6 DEF Repeats

LEMMA RepairIsFresh ==
  ASSUME NEW log \in Seq(Failures), Decide(log) = "repair"
  PROVE  /\ log # <<>> /\ Len(log) < MaxAttempts
         /\ \A n \in 1 .. Len(log) - 1 :
              FailureSignature(log[n]) # FailureSignature(log[Len(log)])
         /\ log[Len(log)].layers # {}
         /\ log[Len(log)].layers \cap {"policy", "security"} = {}
<1>1. log # <<>>
  BY DEF Decide
<1>2. /\ ~Escalates(Classify(log[Len(log)].layers))
      /\ ~(Repeats(log) >= 2) /\ ~(Len(log) >= MaxAttempts)
  BY <1>1 DEF Decide
<1>3. Len(log) < MaxAttempts
  BY <1>2 DEF MaxAttempts
<1>4. \A n \in 1 .. Len(log) - 1 :
        FailureSignature(log[n]) # FailureSignature(log[Len(log)])
  BY <1>2, RepeatsCounts
<1> DEFINE layers == log[Len(log)].layers
<1>5. Classify(layers) \notin {"policy", "security", "unknown"}
  BY <1>2 DEF Escalates
<1>6. layers # {} /\ "policy" \notin layers /\ "security" \notin layers
  <2> HIDE DEF layers
  <2>1. QED BY <1>5, FirstLayers
<1>7. QED BY <1>1, <1>3, <1>4, <1>6

-----------------------------------------------------------------------------
(* The invariant *)

\* No more repairs than failures, and each repair was of a failure in the log:
\* so the budget and the comparison with the log bound the repairs too.
RepairsAreLogged ==
  /\ Len(repaired) <= Len(attempts)
  /\ \A i \in DOMAIN repaired : \E n \in DOMAIN attempts : attempts[n] = repaired[i]

RepairInv == TypeOK /\ RepairsAreLogged /\ RepairsAreBounded

LEMMA RepairInit == Init => RepairInv
<1> SUFFICES ASSUME Init PROVE RepairInv
  OBVIOUS
<1>1. /\ attempts = <<>> /\ repaired = <<>> /\ decision = "proceed"
      /\ MaxLog \in Nat
  BY RepairAssumption DEF Init
<1>2. TypeOK
  BY <1>1 DEF TypeOK
<1>3. RepairsAreLogged
  BY <1>1 DEF RepairsAreLogged
<1>4. RepairsAreBounded
  BY <1>1 DEF RepairsAreBounded, MaxAttempts
<1>5. QED BY <1>2, <1>3, <1>4 DEF RepairInv

\* A repair adds a failure that is unlike all that are in the log.
LEMMA AttemptKeeps == RepairInv /\ Attempt => RepairInv'
<1> SUFFICES ASSUME RepairInv, Attempt PROVE RepairInv'
  OBVIOUS
<1>1. PICK a \in Failures :
        /\ attempts' = Append(attempts, a) /\ decision' = Decide(attempts')
        /\ repaired' = IF decision' = "repair" THEN Append(repaired, a) ELSE repaired
  BY DEF Attempt
<1>2. /\ attempts \in Seq(Failures) /\ repaired \in Seq(Failures)
      /\ Len(attempts) < MaxLog /\ MaxLog \in Nat
  BY RepairAssumption DEF RepairInv, TypeOK, Attempt
<1>3. /\ attempts' \in Seq(Failures) /\ Len(attempts') = Len(attempts) + 1
      /\ attempts'[Len(attempts')] = a
      /\ \A n \in DOMAIN attempts : n \in DOMAIN attempts' /\ attempts'[n] = attempts[n]
  BY <1>1, <1>2
<1>4. TypeOK'
  BY <1>1, <1>2, <1>3 DEF TypeOK
<1>5. CASE decision' # "repair"
  <2>1. repaired' = repaired
    BY <1>1, <1>5
  <2>2. RepairsAreLogged'
    BY <1>2, <1>3, <2>1 DEF RepairInv, RepairsAreLogged
  <2>3. RepairsAreBounded'
    BY <2>1 DEF RepairInv, RepairsAreBounded
  <2>4. QED BY <1>4, <2>2, <2>3 DEF RepairInv
<1>6. CASE decision' = "repair"
  <2>1. /\ Len(attempts') < MaxAttempts
        /\ \A n \in 1 .. Len(attempts') - 1 :
             FailureSignature(attempts'[n]) # FailureSignature(a)
        /\ a.layers # {} /\ a.layers \cap {"policy", "security"} = {}
    <3> DEFINE log == attempts'
    <3>1. log \in Seq(Failures) /\ Decide(log) = "repair" /\ log[Len(log)] = a
      BY <1>1, <1>3, <1>6
    <3> HIDE DEF log
    <3>2. /\ Len(log) < MaxAttempts
          /\ \A n \in 1 .. Len(log) - 1 : FailureSignature(log[n]) # FailureSignature(a)
          /\ a.layers # {} /\ a.layers \cap {"policy", "security"} = {}
      BY <3>1, RepairIsFresh
    <3>3. QED BY <3>2 DEF log
  <2>2. repaired' = Append(repaired, a)
    BY <1>1, <1>6
  <2>3. /\ Len(repaired') = Len(repaired) + 1 /\ repaired'[Len(repaired')] = a
        /\ DOMAIN repaired' = 1 .. Len(repaired) + 1
        /\ \A i \in DOMAIN repaired : repaired'[i] = repaired[i]
        /\ DOMAIN repaired = 1 .. Len(repaired) /\ Len(repaired) \in Nat
    BY <1>2, <2>2
  <2>4. \A i \in DOMAIN repaired : FailureSignature(repaired[i]) # FailureSignature(a)
    <3> SUFFICES ASSUME NEW i \in DOMAIN repaired
                 PROVE  FailureSignature(repaired[i]) # FailureSignature(a)
      OBVIOUS
    <3>1. PICK n \in DOMAIN attempts : attempts[n] = repaired[i]
      BY DEF RepairInv, RepairsAreLogged
    <3>2. n \in 1 .. Len(attempts') - 1 /\ attempts'[n] = repaired[i]
      BY <1>2, <1>3, <3>1
    <3>3. QED BY <2>1, <3>2
  <2>5. RepairsAreLogged'
    <3>1. Len(repaired') <= Len(attempts')
      BY <1>2, <1>3, <2>3 DEF RepairInv, RepairsAreLogged
    <3>2. ASSUME NEW i \in DOMAIN repaired'
          PROVE  \E n \in DOMAIN attempts' : attempts'[n] = repaired'[i]
      <4>1. CASE i = Len(repaired')
        BY <1>2, <1>3, <2>3, <4>1
      <4>2. CASE i # Len(repaired')
        BY <1>3, <2>3, <4>2 DEF RepairInv, RepairsAreLogged
      <4>3. QED BY <4>1, <4>2
    <3>3. QED BY <3>1, <3>2 DEF RepairsAreLogged
  <2>6. RepairsAreBounded'
    <3>1. Len(repaired') < MaxAttempts
      <4>1. Len(repaired) <= Len(attempts)
        BY DEF RepairInv, RepairsAreLogged
      <4>2. QED BY <1>2, <1>3, <2>1, <2>3, <4>1 DEF MaxAttempts
    <3>2. \A i, k \in DOMAIN repaired' :
            i # k => FailureSignature(repaired'[i]) # FailureSignature(repaired'[k])
      <4>1. \A i, k \in DOMAIN repaired :
              i # k => FailureSignature(repaired[i]) # FailureSignature(repaired[k])
        BY DEF RepairInv, RepairsAreBounded
      <4>2. QED BY <2>3, <2>4, <4>1
    <3>3. \A i \in DOMAIN repaired' :
            repaired'[i].layers # {} /\ repaired'[i].layers \cap {"policy", "security"} = {}
      BY <2>1, <2>3 DEF RepairInv, RepairsAreBounded
    <3>4. QED BY <3>1, <3>2, <3>3 DEF RepairsAreBounded
  <2>7. QED BY <1>4, <2>5, <2>6 DEF RepairInv
<1>7. QED BY <1>5, <1>6

LEMMA NewLogKeeps == RepairInv /\ NewLog => RepairInv'
<1> SUFFICES ASSUME RepairInv, NewLog PROVE RepairInv'
  OBVIOUS
<1>1. attempts' = <<>> /\ repaired' = <<>> /\ decision' = Decide(attempts')
      /\ MaxLog \in Nat
  BY RepairAssumption DEF NewLog
<1>2. TypeOK'
  BY <1>1 DEF TypeOK
<1>3. RepairsAreLogged'
  BY <1>1 DEF RepairsAreLogged
<1>4. RepairsAreBounded'
  BY <1>1 DEF RepairsAreBounded, MaxAttempts
<1>5. QED BY <1>2, <1>3, <1>4 DEF RepairInv

LEMMA RepairNext == RepairInv /\ [Next]_vars => RepairInv'
<1> SUFFICES ASSUME RepairInv, [Next]_vars PROVE RepairInv'
  OBVIOUS
<1>1. CASE Attempt
  BY <1>1, AttemptKeeps
<1>2. CASE GoOn
  BY <1>2 DEF GoOn, RepairInv, TypeOK, RepairsAreLogged, RepairsAreBounded
<1>3. CASE NewLog
  BY <1>3, NewLogKeeps
<1>4. CASE UNCHANGED vars
  BY <1>4 DEF vars, RepairInv, TypeOK, RepairsAreLogged, RepairsAreBounded
<1>5. QED BY <1>1, <1>2, <1>3, <1>4 DEF Next

\* Whatever failures there are and however often a person overrides an
\* escalation, decide of repair-budget.mjs lets at most two of them be repaired
\* while the log is kept, never the same twice, never one of policy or security.
THEOREM BoundedRepair == Spec => []RepairsAreBounded
<1>1. Init => RepairInv
  BY RepairInit
<1>2. RepairInv /\ [Next]_vars => RepairInv'
  BY RepairNext
<1>3. RepairInv => RepairsAreBounded
  BY DEF RepairInv
<1>4. QED BY <1>1, <1>2, <1>3, PTL DEF Spec

\* The answer that stands is the one that decide gives to the log as it is.
THEOREM AnswerIsCurrent == Spec => []TypeOK
<1>1. Init => RepairInv
  BY RepairInit
<1>2. RepairInv /\ [Next]_vars => RepairInv'
  BY RepairNext
<1>3. RepairInv => TypeOK
  BY DEF RepairInv
<1>4. QED BY <1>1, <1>2, <1>3, PTL DEF Spec
=============================================================================
