---------------------------- MODULE PathPolicy ----------------------------
(***************************************************************************)
(* Which paths a task and its plan allow, and what risk they carry:         *)
(* task-contract.mjs, risk-policy.mjs and the parts of plan-contract.mjs and *)
(* check-scope.mjs that use them.  A path or pattern is the sequence of its  *)
(* segments.  A segment is a name that is not taken apart, but where the     *)
(* code compares the beginnings of patterns as text: there Beginnings says   *)
(* which names begin with which.                                            *)
(***************************************************************************)
EXTENDS Integers, Sequences, FiniteSets, SequencesExt

CONSTANTS Globs,         \* [glob -> SUBSET names]: what "*.ts" and the like match
          Heads,         \* [glob -> name]: what is before the star, where something is
          Beginnings,    \* <<text, name>> where the longer name begins with the text
          Dotted,        \* names with an extension, globs among them
          PathRisk,      \* the rules of policy.json: [pattern, risk]
          OperationRisk  \* [operation -> risk]

RiskLevels == <<"low", "medium", "high", "critical">>
RiskRank(risk) == CHOOSE n \in DOMAIN RiskLevels : RiskLevels[n] = risk

StartsWith(name, text) == name = text \/ <<text, name>> \in Beginnings

\* What a glob matches begins with its head, and so does the glob itself; of two
\* beginnings of a name the shorter begins the longer.
ASSUME NameAssumption ==
  /\ DOMAIN Heads \subseteq DOMAIN Globs /\ {"*", "**"} \cap DOMAIN Globs = {}
  /\ \A g \in DOMAIN Heads :
       Heads[g] \in STRING /\ \A name \in Globs[g] \cup {g} : StartsWith(name, Heads[g])
  /\ \A b, d \in Beginnings :
       b[2] = d[2] => StartsWith(b[1], d[1]) \/ StartsWith(d[1], b[1])

Stars == {"*", "**"} \cup DOMAIN Globs
HasStar(s) == \E i \in DOMAIN s : s[i] \in Stars

Fits(name, segment) ==
  \/ name = segment \/ segment = "*"
  \/ segment \in DOMAIN Globs /\ name \in Globs[segment]

-----------------------------------------------------------------------------
(* Patterns *)

\* The forms in the order in which the code asks; a ** stands only at the ends.
MatchesTail(path, raw) ==
  \/ raw \in {<<"**">>, <<"*">>}
  \/ Last(raw) = "**" /\ IsPrefix(Front(raw), path)
  \/ Last(raw) = "*" /\ Len(path) = Len(raw) /\ IsPrefix(Front(raw), path)
  \/ /\ Last(raw) \notin {"*", "**"} /\ HasStar(raw)
     /\ Len(path) = Len(raw) /\ \A i \in DOMAIN raw : Fits(path[i], raw[i])
  \/ ~HasStar(raw) /\ IsPrefix(raw, path)

MatchesPattern(path, raw) ==
  IF Len(raw) > 1 /\ raw[1] = "**"
  THEN \E n \in DOMAIN path : MatchesTail(SubSeq(path, n, Len(path)), Tail(raw))
  ELSE MatchesTail(path, raw)

\* Prose, and a bare name without an extension, is for a reviewer to apply.
IsPathPattern(entry) == Len(entry) > 1 \/ HasStar(entry) \/ entry[1] \in Dotted

IsPathAllowed(path, scope) ==
  /\ \E p \in scope.allowed : MatchesPattern(path, p)
  /\ ~\E p \in scope.prohibited : IsPathPattern(p) /\ MatchesPattern(path, p)

-----------------------------------------------------------------------------
(* Risk *)

\* The whole segments before the first star, and what of the next is before it.
NamedPrefix(p) ==
  SubSeq(p, 1, CHOOSE n \in 0 .. Len(p) : /\ ~HasStar(SubSeq(p, 1, n))
                                          /\ n < Len(p) => HasStar(<<p[n + 1]>>))
PatternPrefix(p) ==
  LET s == NamedPrefix(p)
  IN  IF Len(s) < Len(p) /\ p[Len(s) + 1] \in DOMAIN Heads
      THEN Append(s, Heads[p[Len(s) + 1]]) ELSE s

\* Whether t begins with s as text, which need not end where a segment ends.
TextPrefix(s, t) ==
  Len(s) <= Len(t) /\ IsPrefix(Front(s), t) /\ StartsWith(t[Len(s)], Last(s))

\* A bug: only rules that match the whole of a pattern count.
MatchesOnly(left, right) == MatchesPattern(left, right)

Overlaps(left, right) ==
  \/ MatchesPattern(left, right) \/ MatchesPattern(right, left)
  \/ LET l == PatternPrefix(left) r == PatternPrefix(right)
     IN  l # <<>> /\ r # <<>> /\ (TextPrefix(l, r) \/ TextPrefix(r, l))

\* inferRisk takes the highest risk: it is above a level when one of the rules is.
Above(risk, level) == RiskRank(risk) > RiskRank(level)

PathAbove(path, level) ==
  \/ \E rule \in PathRisk : Overlaps(path, rule.pattern) /\ Above(rule.risk, level)
  \/ /\ Above("medium", level)
     /\ ~\E rule \in PathRisk : Overlaps(path, rule.pattern)

OperationAbove(operation, level) ==
  Above(IF operation \in DOMAIN OperationRisk THEN OperationRisk[operation] ELSE "medium", level)

InferRiskAbove(paths, operations, level) ==
  \/ \E p \in paths : PathAbove(p, level)
  \/ \E o \in operations : OperationAbove(o, level)

-----------------------------------------------------------------------------
(* Plans and changes *)

ScopePatternWithin(planned, allowed) ==
  \/ planned = allowed
  \/ ~HasStar(planned) /\ MatchesPattern(planned, allowed)
  \/ /\ HasStar(planned) /\ Len(allowed) > 1 /\ Last(allowed) = "**"
     /\ IsPrefix(Front(allowed), PatternPrefix(planned))

\* What validatePlanContract asks of a plan's scope and risk.
PlanScopeValid(plan, contract) ==
  /\ contract.scope.allowed # {} =>
       \A p \in plan.scope.allowed : \E a \in contract.scope.allowed : ScopePatternWithin(p, a)
  /\ ~InferRiskAbove(plan.scope.allowed, plan.operations, plan.risk)

EvaluateChangedPaths(paths, scope, plan) ==
  /\ \A p \in paths : IsPathAllowed(p, scope) /\ IsPathAllowed(p, plan.scope)
  /\ ~InferRiskAbove(paths, plan.operations, plan.risk)
=============================================================================
