--------------------------- MODULE RepairBudget ---------------------------
(***************************************************************************)
(* repair-budget.mjs: may an automated repair go on?  An attempt is a failed  *)
(* check and its message; of the message there are the layers whose words     *)
(* occur in it and the text that normalization leaves.  The agent keeps the  *)
(* log; a person who is asked may send it on with the log as it is.          *)
(***************************************************************************)
EXTENDS Integers, Sequences, FiniteSets

CONSTANTS Failures,  \* the attempts that may be logged
          MaxLog     \* bound: the length of the log

VARIABLES attempts,  \* artifacts/attempts.json
          decision,  \* what the script last answered
          repaired   \* the failures whose repair it has allowed, since the log is new

vars == <<attempts, decision, repaired>>

MaxAttempts == 3

\* The layers in the order in which their words are looked for.
Layers == <<"policy", "security", "conflict", "environment", "context", "reasoning", "tool">>

AttemptType(checks, texts) == [check : checks, text : texts, layers : SUBSET {Layers[n] : n \in DOMAIN Layers}]

FailureSignature(a) == <<a.check, a.text>>

Classify(layers) ==
  IF layers = {} THEN "unknown"
  ELSE Layers[CHOOSE n \in DOMAIN Layers :
                /\ Layers[n] \in layers
                /\ \A k \in 1 .. n - 1 : Layers[k] \notin layers]

Escalates(layer) == layer \in {"policy", "security", "unknown"}

Repeats(log) ==
  Cardinality({n \in DOMAIN log :
    FailureSignature(log[n]) = FailureSignature(log[Len(log)])})

\* A bug: the third attempt is still to come.
DecideLate(log) ==
  IF log = <<>> THEN "proceed"
  ELSE IF \/ Escalates(Classify(log[Len(log)].layers))
          \/ Repeats(log) >= 2
          \/ Len(log) > MaxAttempts
  THEN "escalate" ELSE "repair"

Decide(log) ==
  IF log = <<>> THEN "proceed"
  ELSE IF \/ Escalates(Classify(log[Len(log)].layers))
          \/ Repeats(log) >= 2
          \/ Len(log) >= MaxAttempts
  THEN "escalate" ELSE "repair"

\* Every failure in the log and its text are strings of the agent's choosing.
ASSUME RepairAssumption ==
  /\ Failures \subseteq AttemptType({a.check : a \in Failures}, {a.text : a \in Failures})
  /\ MaxLog \in Nat

-----------------------------------------------------------------------------
Init == attempts = <<>> /\ decision = "proceed" /\ repaired = <<>>

\* A bug: the script is asked before the failure is in the log.
AttemptUnsaved ==
  /\ decision # "escalate" /\ Len(attempts) < MaxLog
  /\ \E a \in Failures :
       /\ attempts' = Append(attempts, a)
       /\ decision' = Decide(attempts)
       /\ repaired' = IF decision' = "repair" THEN Append(repaired, a) ELSE repaired

\* A check fails while the agent may work: it is logged, and the script asked.
Attempt ==
  /\ decision # "escalate" /\ Len(attempts) < MaxLog
  /\ \E a \in Failures :
       /\ attempts' = Append(attempts, a)
       /\ decision' = Decide(attempts')
       /\ repaired' = IF decision' = "repair" THEN Append(repaired, a) ELSE repaired

\* A person who was asked sends the agent on, and leaves the log as it is.
GoOn ==
  /\ decision = "escalate"
  /\ decision' = "proceed"
  /\ UNCHANGED <<attempts, repaired>>

\* The checks pass, or the task is given up: the next one has a new log.
NewLog ==
  /\ attempts # <<>>
  /\ attempts' = <<>> /\ decision' = Decide(attempts') /\ repaired' = <<>>

Next == Attempt \/ GoOn \/ NewLog
Spec == Init /\ [][Next]_vars

-----------------------------------------------------------------------------
(* Properties *)

\* Types; and the last answer was given to the log as it is.
TypeOK ==
  /\ attempts \in Seq(Failures) /\ Len(attempts) <= MaxLog
  /\ repaired \in Seq(Failures)
  /\ decision \in {"proceed", Decide(attempts)}

\* Until the log is cleared at most two failures are repaired, no two of them
\* alike, and none that asks for a person (RECOVERY-POLICY.md:28), also when the
\* agent is sent on after an escalation, and after it, with the log as it is.
RepairsAreBounded ==
  /\ Len(repaired) < MaxAttempts
  /\ \A i, k \in DOMAIN repaired :
       i # k => FailureSignature(repaired[i]) # FailureSignature(repaired[k])
  /\ \A i \in DOMAIN repaired : repaired[i].layers # {}
       /\ repaired[i].layers \cap {"policy", "security"} = {}
=============================================================================
