------------------------- MODULE OrderPromiseProofs -------------------------
(***************************************************************************)
(* What the clients of OrderService can rely on, for every value of the     *)
(* constants: that answers are true and stay true, that live records stay,  *)
(* that the service implements IdempotentOrders, and that what it counts,    *)
(* connections leased from the pools, replays and conflicts, is right.       *)
(* Calls may be infinite; what is counted is always finite.                  *)
(***************************************************************************)
EXTENDS OrderServiceProofs, FiniteSetTheorems

-----------------------------------------------------------------------------
(* What the moves of the client half change *)

LEMMA GotoAll ==
  ASSUME TypeOK, NEW c \in Calls, NEW p, Goto(c, p)
  PROVE  /\ call'[c].at = p
         /\ call'[c].key = call[c].key /\ call'[c].input = call[c].input
         /\ call'[c].row = call[c].row /\ call'[c].error = call[c].error
         /\ call'[c].reply = call[c].reply /\ call'[c].instance = call[c].instance
         /\ \A d \in Calls \ {c} : call'[d] = call[d]
  BY DEF Goto, TypeOK, CallType

LEMMA FinishAll ==
  ASSUME TypeOK, NEW c \in Calls, NEW s, NEW o, Finish(c, s, o)
  PROVE  /\ call'[c].at = "answered"
         /\ call'[c].reply = [status |-> s, order |-> o]
         /\ call'[c].key = call[c].key /\ call'[c].input = call[c].input
         /\ call'[c].row = call[c].row /\ call'[c].error = call[c].error
         /\ call'[c].instance = call[c].instance
         /\ \A d \in Calls \ {c} : call'[d] = call[d]
  BY DEF Finish, TypeOK, CallType

LEMMA ThrowAll ==
  ASSUME TypeOK, NEW c \in Calls, NEW e, Throw(c, e)
  PROVE  /\ call'[c].at = "rollback" /\ call'[c].error = e
         /\ call'[c].key = call[c].key /\ call'[c].input = call[c].input
         /\ call'[c].row = call[c].row /\ call'[c].reply = call[c].reply
         /\ call'[c].instance = call[c].instance
         /\ \A d \in Calls \ {c} : call'[d] = call[d]
  BY DEF Throw, TypeOK, CallType

-----------------------------------------------------------------------------
(* What lasts *)

\* Found once, an order of one's key is found for ever: orders are never taken
\* away, and nothing about them changes.
LEMMA FindingsLast ==
  ASSUME IInv, NEW d \in Calls, orders \subseteq orders',
         \A e \in orders : call'[e].key = call[e].key /\ call'[e].input = call[e].input,
         call'[d].key = call[d].key, call'[d].input = call[d].input
  PROVE  /\ Keyed(d)' = Keyed(d) /\ Valid(d)' = Valid(d)
         /\ Conflicting(d) => Conflicting(d)'
         /\ Replaying(d) /\ call'[d].row = call[d].row /\ ~txn'[d].places => Replaying(d)'
<1>1. Keyed(d)' = Keyed(d) /\ Valid(d)' = Valid(d)
  BY DEF Keyed, Valid
<1>2. \A k \in Keys : \A e \in OrdersOf(k) : e \in OrdersOf(k)' /\ call'[e].input = call[e].input
  BY DEF OrdersOf
<1>3. Conflicting(d) => Conflicting(d)'
  BY <1>1, <1>2 DEF Conflicting, Keyed
<1>4. Replaying(d) /\ call'[d].row = call[d].row /\ ~txn'[d].places => Replaying(d)'
  BY <1>1, <1>2 DEF Replaying, Keyed
<1>5. QED BY <1>1, <1>3, <1>4

\* The answers of the others stand while one call moves.
LEMMA AnswersLast ==
  ASSUME IInv, AnswerInv, NEW c \in Calls, orders \subseteq orders',
         \A d \in Calls \ {c} : call'[d] = call[d] /\ txn'[d] = txn[d],
         c \in orders => call'[c].key = call[c].key /\ call'[c].input = call[c].input,
         FieldsAgree(c)', FoundOut(c)', TimesAgree'
  PROVE  AnswerInv'
<1>1. \A e \in orders : call'[e].key = call[e].key /\ call'[e].input = call[e].input
  BY DEF IInv, TypeOK
<1>2. ASSUME NEW d \in Calls \ {c}
      PROVE  FieldsAgree(d)' /\ FoundOut(d)'
  <2>1. FieldsAgree(d) /\ FoundOut(d) /\ call'[d] = call[d] /\ txn'[d] = txn[d]
    BY DEF AnswerInv
  <2>2. /\ Keyed(d)' = Keyed(d) /\ Valid(d)' = Valid(d)
        /\ Conflicting(d) => Conflicting(d)'
        /\ Replaying(d) /\ ~txn[d].places => Replaying(d)'
    BY <1>1, <2>1, FindingsLast
  <2>3. FieldsAgree(d)'
    BY <2>1, <2>2 DEF FieldsAgree
  <2>4. Replaying(d) => ~txn[d].places
    BY DEF Replaying
  <2>5. FoundOut(d)'
    BY <2>1, <2>2, <2>4 DEF FoundOut
  <2>6. QED BY <2>3, <2>5
<1>3. QED BY <1>2 DEF AnswerInv

\* The clock stands still and transactions keep their time.
LEMMA TimesLast ==
  ASSUME AnswerInv, clock' = clock,
         \A d \in Calls : txn'[d].now = txn[d].now \/ txn'[d].now = clock
  PROVE  TimesAgree'
<1>1. clock \in 0 .. MaxTime /\ clock <= clock
  BY DEF AnswerInv, TimesAgree
<1>2. QED BY <1>1 DEF AnswerInv, TimesAgree

-----------------------------------------------------------------------------
(* The steps of one call *)

LEMMA ReceiveAnswers ==
  ASSUME IInv, AnswerInv, NEW c \in Calls, NEW i \in Instances,
         NEW h \in Headers \cup {NoKey}, NEW b \in Bodies, Receive(c, i, h, b)
  PROVE  AnswerInv'
<1> DEFINE valid == BodyValid(b) /\ KeyValid(h)
<1>1. /\ call[c].at = "start"
      /\ call' = [call EXCEPT ![c] =
           [at |-> IF valid THEN "connect" ELSE "answered",
            instance |-> i, key |-> h, input |-> b, row |-> None, error |-> 0,
            reply |-> IF valid THEN NoReply ELSE [status |-> 400, order |-> None]]]
      /\ txn' = txn /\ orders' = orders /\ clock' = clock
  BY DEF Receive, dbVars
<1>2. txn[c] = NoTxn /\ c \notin orders
  BY <1>1 DEF IInv, CallStands, HalvesAgree, NoTxn
<1>3. /\ call'[c].at = IF valid THEN "connect" ELSE "answered"
      /\ call'[c].key = h /\ call'[c].input = b /\ call'[c].row = None /\ call'[c].error = 0
      /\ call'[c].reply = IF valid THEN NoReply ELSE [status |-> 400, order |-> None]
      /\ \A d \in Calls \ {c} : call'[d] = call[d]
  <2> HIDE DEF valid
  <2>1. QED BY <1>1 DEF IInv, TypeOK
<1>4. Valid(c)' <=> valid
  BY <1>3 DEF Valid, BodyValid, KeyValid
<1>5. FieldsAgree(c)' /\ FoundOut(c)'
  <2> HIDE DEF valid
  <2>1. QED BY <1>1, <1>2, <1>3, <1>4 DEF FieldsAgree, FoundOut, NoTxn, NoReply
<1>6. TimesAgree'
  BY <1>1, TimesLast
<1>7. QED BY <1>1, <1>2, <1>3, <1>5, <1>6, AnswersLast

\* The steps that only move on: no row, no error, no reply.
LEMMA MoveOnAnswers ==
  ASSUME IInv, AnswerInv, NEW c \in Calls, NEW p, Goto(c, p),
         call[c].at \in {"connect", "begin", "lock", "delete", "select",
                        "insertOrder", "insertRecord"},
         p \in {"begin", "lock", "delete", "select", "insertOrder", "insertRecord",
                "commit"},
         p = "commit" => txn'[c].places,
         \A d \in Calls \ {c} : txn'[d] = txn[d],
         txn'[c].now = txn[c].now \/ txn'[c].now = clock,
         orders' = orders, clock' = clock
  PROVE  AnswerInv'
<1>1. /\ call'[c].at = p
      /\ call'[c].key = call[c].key /\ call'[c].input = call[c].input
      /\ call'[c].row = call[c].row /\ call'[c].error = call[c].error
      /\ call'[c].reply = call[c].reply
      /\ \A d \in Calls \ {c} : call'[d] = call[d]
  BY GotoAll DEF IInv
<1>2. FieldsAgree(c) /\ Valid(c)
  BY DEF AnswerInv, FieldsAgree
<1>3. Valid(c)'
  BY <1>1, <1>2 DEF Valid
<1>4. FieldsAgree(c)'
  BY <1>1, <1>2, <1>3 DEF FieldsAgree
<1>5. FoundOut(c)'
  BY <1>1, <1>2 DEF FieldsAgree, FoundOut, NoReply
<1>6. TimesAgree'
  BY TimesLast
<1>7. QED BY <1>1, <1>4, <1>5, <1>6, AnswersLast

\* A statement fails.
LEMMA ThrowAnswers ==
  ASSUME IInv, AnswerInv, NEW c \in Calls, Throw(c, 500),
         call[c].at \in Querying \ {"commit", "rollback"},
         orders' = orders, clock' = clock
  PROVE  AnswerInv'
<1>1. /\ call'[c].at = "rollback" /\ call'[c].error = 500
      /\ call'[c].key = call[c].key /\ call'[c].input = call[c].input
      /\ call'[c].row = call[c].row /\ call'[c].reply = call[c].reply
      /\ \A d \in Calls \ {c} : call'[d] = call[d]
  BY ThrowAll DEF IInv
<1>2. \A d \in Calls : (d # c => txn'[d] = txn[d]) /\ txn'[d].now = txn[d].now
  BY ThrowFields DEF IInv
<1>3. FieldsAgree(c) /\ Valid(c)
  BY DEF AnswerInv, FieldsAgree, Querying
<1>4. Valid(c)'
  BY <1>1, <1>3 DEF Valid
<1>5. FieldsAgree(c)'
  BY <1>1, <1>3, <1>4 DEF FieldsAgree, Querying
<1>6. FoundOut(c)'
  BY <1>1, <1>3 DEF FieldsAgree, FoundOut, NoReply, Querying
<1>7. TimesAgree'
  BY <1>2, TimesLast
<1>8. QED BY <1>1, <1>2, <1>5, <1>6, <1>7, AnswersLast

\* The call ends with 500.
LEMMA FailAnswers ==
  ASSUME IInv, AnswerInv, NEW c \in Calls, Finish(c, 500, None),
         call[c].at \notin {"start", "answered", "lost"},
         txn' = txn, orders' = orders, clock' = clock
  PROVE  AnswerInv'
<1>1. /\ call'[c].at = "answered"
      /\ call'[c].reply = [status |-> 500, order |-> None]
      /\ call'[c].key = call[c].key /\ call'[c].input = call[c].input
      /\ \A d \in Calls \ {c} : call'[d] = call[d]
  BY FinishAll DEF IInv
<1>2. Valid(c)'
  BY <1>1 DEF AnswerInv, FieldsAgree, Valid
<1>3. FieldsAgree(c)' /\ FoundOut(c)'
  BY <1>1, <1>2 DEF FieldsAgree, FoundOut
<1>4. TimesAgree'
  BY TimesLast
<1>5. QED BY <1>1, <1>3, <1>4, AnswersLast

\* What a call reads under its lock is an order of its key that exists.
LEMMA RecordFound ==
  ASSUME IInv, NEW c \in Calls, call[c].at = "select", VisibleRecord(c) # NoRecord
  PROVE  /\ Keyed(c) /\ ~txn[c].places /\ c \notin orders
         /\ VisibleRecord(c).order \in OrdersOf(call[c].key)
         /\ VisibleRecord(c).request = call[VisibleRecord(c).order].input
         /\ VisibleRecord(c).order # None
<1>1. Keyed(c) /\ ~txn[c].places /\ c \notin orders
  BY DEF IInv, CallStands, HalvesAgree, WritesAgree
<1>2. VisibleRecord(c) = records[call[c].key]
  BY DEF VisibleRecord
<1>3. /\ VisibleRecord(c).order \in OrdersOf(call[c].key)
      /\ VisibleRecord(c).request = call[VisibleRecord(c).order].input
  BY <1>1, <1>2 DEF IInv, OrdersAreBound, Keyed
<1>4. VisibleRecord(c).order # None
  BY <1>3, OrderAssumption DEF OrdersOf, IInv, TypeOK
<1>5. QED BY <1>1, <1>3, <1>4

LEMMA SelectConflictAnswers ==
  ASSUME IInv, AnswerInv, NEW c \in Calls, SelectConflict(c)
  PROVE  AnswerInv'
<1>1. /\ call[c].at = "select" /\ VisibleRecord(c) # NoRecord
      /\ VisibleRecord(c).request # call[c].input
      /\ txn' = txn /\ orders' = orders /\ clock' = clock
  BY DEF SelectConflict, dbVars
<1>2. /\ call'[c].at = "rollback" /\ call'[c].error = 409
      /\ call'[c].key = call[c].key /\ call'[c].input = call[c].input
      /\ call'[c].row = call[c].row /\ call'[c].reply = call[c].reply
      /\ \A d \in Calls \ {c} : call'[d] = call[d]
  BY DEF SelectConflict, IInv, TypeOK, CallType
<1>3. Conflicting(c)
  BY <1>1, RecordFound DEF Conflicting
<1>4. \A e \in orders : call'[e].key = call[e].key /\ call'[e].input = call[e].input
  BY <1>2 DEF IInv, TypeOK
<1>5. Conflicting(c)' /\ Valid(c)' = Valid(c)
  BY <1>1, <1>2, <1>3, <1>4, FindingsLast
<1>6. FieldsAgree(c)'
  BY <1>1, <1>2, <1>5 DEF AnswerInv, FieldsAgree
<1>7. FoundOut(c)'
  BY <1>1, <1>2, <1>5 DEF AnswerInv, FieldsAgree, FoundOut, NoReply
<1>8. TimesAgree'
  BY <1>1, TimesLast
<1>9. QED BY <1>1, <1>2, <1>6, <1>7, <1>8, AnswersLast

LEMMA SelectReplayAnswers ==
  ASSUME IInv, AnswerInv, NEW c \in Calls, SelectReplay(c)
  PROVE  AnswerInv'
<1> DEFINE found == VisibleRecord(c).order
<1>1. /\ call[c].at = "select" /\ VisibleRecord(c) # NoRecord
      /\ VisibleRecord(c).request = call[c].input
      /\ orders' = orders /\ clock' = clock
  BY DEF SelectReplay
<1>2. /\ call'[c].at = "commit" /\ call'[c].row = found
      /\ call'[c].key = call[c].key /\ call'[c].input = call[c].input
      /\ call'[c].error = call[c].error /\ call'[c].reply = call[c].reply
      /\ \A d \in Calls \ {c} : call'[d] = call[d]
  BY DEF SelectReplay, IInv, TypeOK, CallType
<1>3. /\ txn'[c].state = "committing" /\ txn'[c].places = txn[c].places
      /\ \A d \in Calls : (d # c => txn'[d] = txn[d]) /\ txn'[d].now = txn[d].now
  BY DEF SelectReplay, IInv, TypeOK, TxnType
<1>4. \A e \in orders : call'[e].key = call[e].key /\ call'[e].input = call[e].input
  BY <1>2 DEF IInv, TypeOK
<1>5. /\ Keyed(c) /\ ~txn[c].places /\ c \notin orders
      /\ found \in OrdersOf(call[c].key)
      /\ call[found].input = call[c].input /\ found # None
  BY <1>1, RecordFound
<1>6. Keyed(c)' /\ Valid(c)' = Valid(c)
  BY <1>2, <1>5 DEF Keyed, Valid
<1>7. found \in OrdersOf(call[c].key)' /\ call'[found].input = call[c].input
  BY <1>1, <1>2, <1>4, <1>5 DEF OrdersOf
<1>8. Replaying(c)'
  BY <1>2, <1>3, <1>5, <1>6, <1>7 DEF Replaying
<1>9. FieldsAgree(c)'
  BY <1>1, <1>2, <1>6 DEF AnswerInv, FieldsAgree
<1>10. FoundOut(c)'
  BY <1>1, <1>2, <1>5, <1>8 DEF AnswerInv, FieldsAgree, FoundOut, NoReply
<1>11. TimesAgree'
  BY <1>1, <1>3, TimesLast
<1>12. QED BY <1>1, <1>2, <1>3, <1>9, <1>10, <1>11, AnswersLast

LEMMA CommitReturnsAnswers ==
  ASSUME IInv, AnswerInv, NEW c \in Calls, CommitReturns(c)
  PROVE  AnswerInv'
<1>1. /\ call[c].at = "commit" /\ txn[c].state = "committed"
      /\ txn' = txn /\ orders' = orders /\ clock' = clock
  BY DEF CommitReturns, dbVars
<1>2. TimesAgree'
  BY <1>1, TimesLast
<1>3. CASE call[c].row # None
  <2>1. Finish(c, 200, call[c].row)
    BY <1>3 DEF CommitReturns
  <2>2. /\ call'[c].at = "answered"
        /\ call'[c].reply = [status |-> 200, order |-> call[c].row]
        /\ call'[c].key = call[c].key /\ call'[c].input = call[c].input
        /\ call'[c].row = call[c].row
        /\ \A d \in Calls \ {c} : call'[d] = call[d]
    BY <2>1, FinishAll DEF IInv
  <2>3. Replaying(c) /\ Valid(c)
    BY <1>1, <1>3 DEF AnswerInv, FoundOut, FieldsAgree
  <2>4. \A e \in orders : call'[e].key = call[e].key /\ call'[e].input = call[e].input
    BY <2>2 DEF IInv, TypeOK
  <2>5. Replaying(c)' /\ Valid(c)'
    BY <1>1, <2>2, <2>3, <2>4, FindingsLast DEF Replaying
  <2>6. FieldsAgree(c)' /\ FoundOut(c)'
    BY <1>1, <2>2, <2>5 DEF FieldsAgree, FoundOut
  <2>7. QED BY <1>1, <1>2, <2>2, <2>6, AnswersLast
<1>4. CASE call[c].row = None
  <2>1. Finish(c, 201, c)
    BY <1>4 DEF CommitReturns
  <2>2. /\ call'[c].at = "answered"
        /\ call'[c].reply = [status |-> 201, order |-> c]
        /\ call'[c].key = call[c].key /\ call'[c].input = call[c].input
        /\ \A d \in Calls \ {c} : call'[d] = call[d]
    BY <2>1, FinishAll DEF IInv
  <2>3. c \in orders /\ Valid(c)'
    BY <1>1, <1>4, <2>2
    DEF AnswerInv, FoundOut, FieldsAgree, Valid, IInv, CallStands, HalvesAgree
  <2>4. FieldsAgree(c)' /\ FoundOut(c)'
    BY <1>1, <2>2, <2>3 DEF FieldsAgree, FoundOut
  <2>5. QED BY <1>1, <1>2, <2>2, <2>4, AnswersLast
<1>5. QED BY <1>3, <1>4

LEMMA RollbackAnswers ==
  ASSUME IInv, AnswerInv, NEW c \in Calls, Rollback(c)
  PROVE  AnswerInv'
<1> DEFINE error == call[c].error
<1>1. call[c].at = "rollback" /\ Finish(c, error, None) /\ orders' = orders /\ clock' = clock
  BY DEF Rollback, metricVars
<1>2. error \in {409, 500} /\ Valid(c) /\ (error = 409 => Conflicting(c))
  BY <1>1 DEF AnswerInv, FieldsAgree, FoundOut
<1>3. /\ call'[c].at = "answered"
      /\ call'[c].reply = [status |-> error, order |-> None]
      /\ call'[c].key = call[c].key /\ call'[c].input = call[c].input
      /\ \A d \in Calls \ {c} : call'[d] = call[d]
  BY <1>1, FinishAll DEF IInv
<1>4. /\ txn'[c].state = "aborted"
      /\ \A d \in Calls : (d # c => txn'[d] = txn[d]) /\ txn'[d].now = txn[d].now
  BY DEF Rollback, IInv, TypeOK, TxnType
<1>5. \A e \in orders : call'[e].key = call[e].key /\ call'[e].input = call[e].input
  BY <1>3 DEF IInv, TypeOK
<1>6. Valid(c)' /\ (error = 409 => Conflicting(c)')
  BY <1>1, <1>2, <1>3, <1>5, FindingsLast
<1>7. FieldsAgree(c)' /\ FoundOut(c)'
  BY <1>2, <1>3, <1>4, <1>6 DEF FieldsAgree, FoundOut
<1>8. TimesAgree'
  BY <1>1, <1>4, TimesLast
<1>9. QED BY <1>1, <1>3, <1>4, <1>7, <1>8, AnswersLast

LEMMA ServerAnswers ==
  ASSUME IInv, AnswerInv, NEW c \in Calls, ServerStep(c)
  PROVE  AnswerInv'
<1>1. /\ call' = call /\ clock' = clock /\ orders \subseteq orders'
      /\ txn[c].state \in {"open", "committing"}
      /\ txn' = [txn EXCEPT ![c].state = txn'[c].state]
  <2>1. CASE ApplyCommit(c)
    BY <2>1 DEF ApplyCommit, IInv, TypeOK, TxnType
  <2>2. CASE AbortOrphan(c)
    BY <2>2 DEF AbortOrphan, IInv, TypeOK, TxnType
  <2>3. QED BY <2>1, <2>2 DEF ServerStep
<1>2. /\ txn'[c].places = txn[c].places
      /\ \A d \in Calls : (d # c => txn'[d] = txn[d]) /\ txn'[d].now = txn[d].now
  BY <1>1 DEF IInv, TypeOK, TxnType
<1>3. FieldsAgree(c) /\ FoundOut(c) /\ c \notin orders /\ txn[c] # NoTxn
  BY <1>1 DEF AnswerInv, IInv, CallStands, HalvesAgree, NoTxn
<1>4. Valid(c)' = Valid(c) /\ (Replaying(c) => Replaying(c)')
  BY <1>1, <1>2, FindingsLast DEF Replaying
<1>5. FieldsAgree(c)'
  BY <1>1, <1>3, <1>4 DEF FieldsAgree
<1>6. FoundOut(c)'
  <2>1. call[c].reply.status \notin {200, 201, 400, 409}
    BY <1>1, <1>3 DEF FoundOut
  <2>2. call[c].at = "rollback" /\ call[c].error = 409 => Conflicting(c)'
    BY <1>1, <1>3, FindingsLast DEF FoundOut
  <2>3. QED BY <1>1, <1>2, <1>3, <1>4, <2>1, <2>2 DEF FoundOut
<1>7. TimesAgree'
  BY <1>1, <1>2, TimesLast
<1>8. QED BY <1>1, <1>2, <1>5, <1>6, <1>7, AnswersLast

LEMMA CrashAnswers ==
  ASSUME IInv, AnswerInv, NEW i \in Instances, Crash(i)
  PROVE  AnswerInv'
<1>1. txn' = txn /\ orders' = orders /\ clock' = clock
  BY DEF Crash, dbVars
<1>2. ASSUME NEW d \in Calls
      PROVE  /\ call'[d].key = call[d].key /\ call'[d].input = call[d].input
             /\ call'[d].reply = call[d].reply /\ call'[d].row = call[d].row
             /\ \/ call'[d] = call[d]
                \/ call'[d].at = "lost" /\ call[d].at # "answered"
  BY DEF Crash, IInv, TypeOK, CallType
<1>3. ASSUME NEW d \in Calls
      PROVE  FieldsAgree(d)' /\ FoundOut(d)'
  <2>1. FieldsAgree(d) /\ FoundOut(d)
    BY DEF AnswerInv
  <2>2. \A e \in orders : call'[e].key = call[e].key /\ call'[e].input = call[e].input
    BY <1>2 DEF IInv, TypeOK
  <2>3. /\ Valid(d)' = Valid(d)
        /\ Conflicting(d) => Conflicting(d)'
        /\ Replaying(d) => Replaying(d)'
    BY <1>1, <1>2, <2>2, FindingsLast DEF Replaying
  <2>4. CASE call'[d] = call[d]
    BY <1>1, <2>1, <2>3, <2>4 DEF FieldsAgree, FoundOut
  <2>5. CASE call'[d].at = "lost" /\ call[d].at # "answered"
    <3>1. call'[d].reply = NoReply
      BY <1>2, <2>1, <2>5 DEF FieldsAgree
    <3>2. FieldsAgree(d)'
      BY <1>1, <1>2, <2>1, <2>3, <2>5, <3>1 DEF FieldsAgree
    <3>3. FoundOut(d)'
      BY <2>5, <3>1 DEF FoundOut, NoReply
    <3>4. QED BY <3>2, <3>3
  <2>6. QED BY <1>2, <2>4, <2>5
<1>4. TimesAgree'
  BY <1>1, TimesLast
<1>5. QED BY <1>3, <1>4 DEF AnswerInv

\* Only the clock and the metrics move.
LEMMA NothingAnswered ==
  ASSUME IInv, AnswerInv, UNCHANGED <<call, txn, orders>>, TimesAgree'
  PROVE  AnswerInv'
<1>1. ASSUME NEW d \in Calls
      PROVE  FieldsAgree(d)' /\ FoundOut(d)'
  <2>1. FieldsAgree(d) /\ FoundOut(d)
    BY DEF AnswerInv
  <2>2. /\ Valid(d)' = Valid(d)
        /\ Conflicting(d) => Conflicting(d)'
        /\ Replaying(d) => Replaying(d)'
    BY FindingsLast DEF Replaying
  <2>3. QED BY <2>1, <2>2 DEF FieldsAgree, FoundOut
<1>2. QED BY <1>1 DEF AnswerInv

LEMMA StepAnswers ==
  ASSUME IInv, AnswerInv, NEW c \in Calls, Step(c)
  PROVE  AnswerInv'
<1>1. CASE Connect(c)
  BY <1>1, MoveOnAnswers DEF Connect, dbVars
<1>2. CASE Begin(c)
  <2>1. txn'[c].now = clock /\ \A d \in Calls \ {c} : txn'[d] = txn[d]
    BY <1>2 DEF Begin, IInv, TypeOK, TxnType
  <2>2. QED BY <1>2, <2>1, MoveOnAnswers DEF Begin
<1>3. CASE AcquireLock(c)
  BY <1>3, MoveOnAnswers DEF AcquireLock
<1>4. CASE DeleteExpired(c)
  <2>1. txn'[c].now = txn[c].now /\ \A d \in Calls \ {c} : txn'[d] = txn[d]
    BY <1>4 DEF DeleteExpired, IInv, TypeOK, TxnType
  <2>2. QED BY <1>4, <2>1, MoveOnAnswers DEF DeleteExpired
<1>5. CASE SelectConflict(c)
  BY <1>5, SelectConflictAnswers
<1>6. CASE SelectReplay(c)
  BY <1>6, SelectReplayAnswers
<1>7. CASE SelectNothing(c)
  BY <1>7, MoveOnAnswers DEF SelectNothing, dbVars
<1>8. CASE InsertOrder(c)
  <2>1. /\ txn'[c].now = txn[c].now /\ txn'[c].places
        /\ \A d \in Calls \ {c} : txn'[d] = txn[d]
    BY <1>8 DEF InsertOrder, IInv, TypeOK, TxnType
  <2>2. QED BY <1>8, <2>1, MoveOnAnswers DEF InsertOrder
<1>9. CASE InsertRecord(c)
  <2>1. CASE VisibleRecord(c) = NoRecord
    <3>1. /\ txn'[c].now = txn[c].now /\ txn'[c].places = txn[c].places
          /\ \A d \in Calls \ {c} : txn'[d] = txn[d]
      BY <1>9, <2>1 DEF InsertRecord, IInv, TypeOK, TxnType
    <3>2. txn[c].places
      BY <1>9 DEF InsertRecord, IInv, CallStands, WritesAgree
    <3>3. QED BY <1>9, <2>1, <3>1, <3>2, MoveOnAnswers DEF InsertRecord
  <2>2. CASE VisibleRecord(c) # NoRecord
    BY <1>9, <2>2, ThrowAnswers DEF InsertRecord, Querying
  <2>3. QED BY <2>1, <2>2
<1>10. CASE CommitReturns(c)
  BY <1>10, CommitReturnsAnswers
<1>11. CASE Rollback(c)
  BY <1>11, RollbackAnswers
<1>12. QED
  BY <1>1, <1>2, <1>3, <1>4, <1>5, <1>6, <1>7, <1>8, <1>9, <1>10, <1>11 DEF Step

LEMMA FaultAnswers ==
  ASSUME IInv, AnswerInv, NEW c \in Calls, Fault(c)
  PROVE  AnswerInv'
<1>1. CASE ConnectFails(c)
  BY <1>1, FailAnswers DEF ConnectFails, dbVars
<1>2. CASE StatementFails(c)
  BY <1>2, ThrowAnswers DEF StatementFails
<1>3. CASE Disconnect(c)
  BY <1>3, FailAnswers DEF Disconnect, Connected, Querying, dbVars
<1>4. QED BY <1>1, <1>2, <1>3 DEF Fault

-----------------------------------------------------------------------------
(* The theorems about answers *)

LEMMA InitAnswers == Init => AnswerInv
<1> SUFFICES ASSUME Init
             PROVE  AnswerInv
  OBVIOUS
<1>1. TimesAgree
  BY OrderAssumption DEF Init, TimesAgree, NoTxn
<1>2. ASSUME NEW c \in Calls
      PROVE  FieldsAgree(c) /\ FoundOut(c)
  BY OrderAssumption DEF Init, NoCall, NoTxn, NoReply, Valid, FieldsAgree, FoundOut
<1>3. QED BY <1>1, <1>2 DEF AnswerInv

LEMMA NextAnswers == IInv /\ AnswerInv /\ [Next]_vars => AnswerInv'
<1> SUFFICES ASSUME IInv, AnswerInv, [Next]_vars
             PROVE  AnswerInv'
  OBVIOUS
<1>1. ASSUME NEW c \in Calls, NEW i \in Instances, NEW h \in Headers \cup {NoKey},
             NEW b \in Bodies, Receive(c, i, h, b)
      PROVE  AnswerInv'
  BY <1>1, ReceiveAnswers
<1>2. ASSUME NEW c \in Calls, Step(c) \/ Fault(c) \/ ServerStep(c)
      PROVE  AnswerInv'
  BY <1>2, StepAnswers, FaultAnswers, ServerAnswers
<1>3. ASSUME NEW i \in Instances, Crash(i)
      PROVE  AnswerInv'
  BY <1>3, CrashAnswers
<1>4. CASE Tick
  <2>1. TimesAgree'
    <3>1. clock' \in 0 .. MaxTime /\ clock <= clock'
      BY <1>4, OrderAssumption DEF Tick, AnswerInv, TimesAgree
    <3>2. \A c \in Calls : txn[c].now <= clock /\ txn[c].now \in Nat /\ clock \in Nat
      BY DEF AnswerInv, TimesAgree, IInv, TypeOK, TxnType
    <3>3. QED BY <1>4, <3>1, <3>2 DEF Tick, TimesAgree, dbVars
  <2>2. QED BY <1>4, <2>1, NothingAnswered DEF Tick, dbVars
<1>5. CASE UNCHANGED vars
  <2>1. TimesAgree'
    BY <1>5 DEF vars, AnswerInv, TimesAgree
  <2>2. QED BY <1>5, <2>1, NothingAnswered DEF vars
<1>6. QED BY <1>1, <1>2, <1>3, <1>4, <1>5 DEF Next

\* What a call is about to answer, or has answered, is what it has found and done.
THEOREM AnswersInvariant == Spec => []AnswerInv
<1>1. Init => AnswerInv
  BY InitAnswers
<1>2. IInv /\ AnswerInv /\ [Next]_vars => AnswerInv'
  BY NextAnswers
<1>3. QED BY <1>1, <1>2, Invariance, PTL DEF Spec

LEMMA AnswersFollow == IInv /\ AnswerInv => AnswersAreTrue
<1> SUFFICES ASSUME IInv, AnswerInv, NEW c \in Calls
             PROVE  LET reply == call[c].reply
                        placesNothing == /\ c \notin orders
                                         /\ ~(/\ txn[c].places
                                              /\ txn[c].state \in {"open", "committing"})
                        sameKey == {d \in orders : call[d].key = call[c].key}
                    IN  CASE reply.status = 201 -> reply.order = c /\ c \in orders
                          [] reply.status = 200 -> /\ placesNothing
                                                   /\ reply.order \in sameKey
                                                   /\ call[reply.order].input = call[c].input
                          [] reply.status = 409 -> /\ placesNothing
                                                   /\ \E d \in sameKey : call[d].input # call[c].input
                          [] reply.status = 400 -> placesNothing
                          [] OTHER -> TRUE
  BY DEF AnswersAreTrue
<1>1. FoundOut(c) /\ HalvesAgree(c)
  BY DEF AnswerInv, IInv, CallStands
<1>2. CASE call[c].reply.status = 201
  BY <1>1, <1>2 DEF FoundOut
<1>3. CASE call[c].reply.status = 200
  BY <1>1, <1>3 DEF FoundOut, HalvesAgree, Replaying, OrdersOf
<1>4. CASE call[c].reply.status = 409
  BY <1>1, <1>4 DEF FoundOut, HalvesAgree, Conflicting, OrdersOf
<1>5. CASE call[c].reply.status = 400
  BY <1>1, <1>5 DEF FoundOut, HalvesAgree, NoTxn
<1>6. QED BY <1>2, <1>3, <1>4, <1>5

\* What a client has been told stays true, for any number of calls that repeat,
\* race, fail and crash.
THEOREM AnswersStayTrue == Spec => []AnswersAreTrue
  BY Invariance, AnswersInvariant, AnswersFollow, PTL

-----------------------------------------------------------------------------
(* Records *)

\* The only step that writes records is a COMMIT, and what it replaces has expired.
LEMMA CommitKeepsLiveRecords ==
  ASSUME IInv, AnswerInv, NEW c \in Calls, ApplyCommit(c), NEW k \in Keys,
         records[k] # NoRecord, clock < records[k].expires
  PROVE  records'[k] = records[k]
<1>1. CASE k # call[c].key
  BY <1>1 DEF ApplyCommit
<1>2. CASE k = call[c].key
  <2>1. txn[c].state = "committing" /\ Keyed(c) /\ Active(c)
    BY <1>2 DEF ApplyCommit, Keyed, Active
  <2>2. CallStands(c) /\ txn[c].now <= clock
    BY DEF IInv, AnswerInv, TimesAgree
  <2>3. ~txn[c].deletes
    <3>1. call[c].at # "delete"
      BY <2>1, <2>2 DEF CallStands, HalvesAgree
    <3>2. txn[c].deletes => records[k].expires <= txn[c].now
      BY <1>2, <2>1, <2>2, <3>1 DEF CallStands, FindingsStand
    <3>3. records[k].expires \in Nat /\ txn[c].now \in Nat /\ clock \in Nat
      BY DEF IInv, TypeOK, TxnType, RecordType, NoRecord
    <3>4. QED BY <2>2, <3>2, <3>3
  <2>4. VisibleRecord(c) = records[k]
    BY <1>2, <2>3 DEF VisibleRecord
  <2>5. ~txn[c].binds
    BY <2>1, <2>2, <2>4 DEF CallStands, WritesAgree, FindingsStand
  <2>6. QED BY <1>2, <2>4, <2>5 DEF ApplyCommit
<1>3. QED BY <1>1, <1>2

LEMMA OthersKeepRecords ==
  ASSUME [Next]_vars, \A c \in Calls : ~ApplyCommit(c)
  PROVE  records' = records
<1>1. ASSUME NEW c \in Calls, Step(c) \/ Fault(c) \/ ServerStep(c)
      PROVE  records' = records
  BY <1>1 DEF Step, Fault, ServerStep, Connect, Begin, AcquireLock, DeleteExpired,
     SelectConflict, SelectReplay, SelectNothing, InsertOrder, InsertRecord,
     CommitReturns, Rollback, ConnectFails, StatementFails, Disconnect, AbortOrphan,
     dbVars
<1>2. ASSUME NEW c \in Calls, NEW i \in Instances, NEW h \in Headers \cup {NoKey},
             NEW b \in Bodies, Receive(c, i, h, b)
      PROVE  records' = records
  BY <1>2 DEF Receive, dbVars
<1>3. ASSUME NEW i \in Instances, Crash(i)
      PROVE  records' = records
  BY <1>3 DEF Crash, dbVars
<1>4. QED BY <1>1, <1>2, <1>3 DEF Next, Tick, vars, dbVars

\* A record outlives everything but its expiry.
THEOREM RecordsOutlive == Spec => LiveRecordsStay
<1>1. IInv /\ AnswerInv /\ [Next]_vars
        => [\A k \in Keys : records[k] # NoRecord /\ clock < records[k].expires
                              => records'[k] = records[k]]_vars
  <2> SUFFICES ASSUME IInv, AnswerInv, [Next]_vars, NEW k \in Keys,
                      records[k] # NoRecord, clock < records[k].expires
               PROVE  records'[k] = records[k]
    OBVIOUS
  <2>1. CASE \E c \in Calls : ApplyCommit(c)
    BY <2>1, CommitKeepsLiveRecords
  <2>2. CASE \A c \in Calls : ~ApplyCommit(c)
    BY <2>2, OthersKeepRecords
  <2>3. QED BY <2>1, <2>2
<1>2. QED BY <1>1, Invariance, AnswersInvariant, PTL DEF Spec, LiveRecordsStay

-----------------------------------------------------------------------------
(* The refinement: what each variable of IdempotentOrders reads in OrderService *)

latestOf == [k \in Keys |-> records[k].order]
placedAtOf == [c \in Calls |-> IF c \in orders THEN txn[c].now ELSE 0]

LEMMA RequestsOf ==
  ASSUME NEW c \in Calls
  PROVE  /\ Valid(c) => requestOf[c] = [key |-> call[c].key, input |-> call[c].input]
         /\ ~Valid(c) => requestOf[c] = None
  BY DEF requestOf, Valid

LEMMA AnswersOf ==
  ASSUME NEW c \in Calls
  PROVE  answerOf[c] = IF call[c].reply = NoReply THEN None ELSE call[c].reply
  BY DEF answerOf

\* Whoever has asked, and whoever has been answered, is told apart.
LEMMA AskedAndAnswered ==
  ASSUME TypeOK, NEW c \in Calls
  PROVE  /\ requestOf[c] # None <=> Valid(c)
         /\ answerOf[c] = None <=> call[c].reply = NoReply
<1>1. Valid(c) => [key |-> call[c].key, input |-> call[c].input] # None
  BY NothingAssumption DEF Valid
<1>2. call[c].reply # None
  BY NothingAssumption DEF TypeOK, CallType
<1>3. QED BY <1>1, <1>2, RequestsOf, AnswersOf

LEMMA SameDatabase ==
  ASSUME IInv, orders' = orders, records' = records,
         \A d \in orders : txn'[d].now = txn[d].now
  PROVE  latestOf' = latestOf /\ placedAtOf' = placedAtOf
  BY DEF latestOf, placedAtOf

LEMMA SameRequests ==
  ASSUME \A d \in Calls : call'[d].key = call[d].key /\ call'[d].input = call[d].input
  PROVE  requestOf' = requestOf
  BY DEF requestOf

LEMMA SameAnswers ==
  ASSUME \A d \in Calls : call'[d].reply = call[d].reply
  PROVE  answerOf' = answerOf
  BY DEF answerOf, NoReply

\* A step that changes no request, no answer and no table is not seen.
LEMMA Unseen ==
  ASSUME IInv, orders' = orders, records' = records,
         \A d \in Calls : /\ call'[d].key = call[d].key /\ call'[d].input = call[d].input
                          /\ call'[d].reply = call[d].reply,
         \A d \in orders : txn'[d].now = txn[d].now
  PROVE  UNCHANGED Promise!vars
<1>1. latestOf' = latestOf /\ placedAtOf' = placedAtOf
  BY SameDatabase
<1>2. requestOf' = requestOf /\ answerOf' = answerOf
  BY SameRequests, SameAnswers
<1>3. QED BY <1>1, <1>2 DEF Promise!vars, latestOf, placedAtOf

\* One call is answered.
LEMMA Told ==
  ASSUME IInv, NEW c \in Calls, NEW s \in Nat \ {0}, NEW o,
         call'[c].reply = [status |-> s, order |-> o],
         call'[c].key = call[c].key, call'[c].input = call[c].input,
         \A d \in Calls \ {c} : call'[d] = call[d],
         \A d \in orders : txn'[d].now = txn[d].now,
         orders' = orders, records' = records
  PROVE  Promise!Tell(c, s, o)
<1>1. latestOf' = latestOf /\ placedAtOf' = placedAtOf
  BY SameDatabase
<1>2. requestOf' = requestOf
  BY SameRequests
<1>3. answerOf' = [answerOf EXCEPT ![c] = [status |-> s, order |-> o]]
  <2>1. answerOf'[c] = [status |-> s, order |-> o]
    BY DEF answerOf, NoReply
  <2>2. \A d \in Calls \ {c} : answerOf'[d] = answerOf[d]
    BY DEF answerOf, NoReply
  <2>3. QED BY <2>1, <2>2 DEF answerOf
<1>4. QED BY <1>1, <1>2, <1>3 DEF Promise!Tell, latestOf, placedAtOf

\* An invalid request is answered as it comes, a valid one asks.
LEMMA ReceiveIsPromised ==
  ASSUME IInv, AnswerInv, NEW c \in Calls, NEW i \in Instances,
         NEW h \in Headers \cup {NoKey}, NEW b \in Bodies, Receive(c, i, h, b)
  PROVE  [Promise!Next]_(Promise!vars)
<1> DEFINE valid == BodyValid(b) /\ KeyValid(h)
<1>1. /\ call[c].at = "start"
      /\ call' = [call EXCEPT ![c] =
           [at |-> IF valid THEN "connect" ELSE "answered",
            instance |-> i, key |-> h, input |-> b, row |-> None, error |-> 0,
            reply |-> IF valid THEN NoReply ELSE [status |-> 400, order |-> None]]]
      /\ txn' = txn /\ orders' = orders /\ records' = records
  BY DEF Receive, dbVars
<1>2. /\ call'[c].key = h /\ call'[c].input = b
      /\ call'[c].reply = IF valid THEN NoReply ELSE [status |-> 400, order |-> None]
      /\ \A d \in Calls \ {c} : call'[d] = call[d]
  <2> HIDE DEF valid
  <2>1. QED BY <1>1 DEF IInv, TypeOK
<1>3. ~Valid(c) /\ call[c].reply = NoReply /\ c \notin orders
  BY <1>1 DEF AnswerInv, FieldsAgree, IInv, CallStands, HalvesAgree, NoTxn
<1>4. requestOf[c] = None /\ answerOf[c] = None
  BY <1>3, AskedAndAnswered DEF IInv
<1>5. latestOf' = latestOf /\ placedAtOf' = placedAtOf
  BY <1>1, SameDatabase
<1>6. CASE valid
  <2>1. [key |-> h, input |-> b] \in Promise!Requests
    BY <1>6 DEF Promise!Requests, BodyValid, KeyValid
  <2>2. requestOf' = [requestOf EXCEPT ![c] = [key |-> h, input |-> b]]
    <3>1. requestOf'[c] = [key |-> h, input |-> b]
      BY <1>2, <1>6 DEF requestOf, BodyValid, KeyValid
    <3>2. \A d \in Calls \ {c} : requestOf'[d] = requestOf[d]
      BY <1>2 DEF requestOf
    <3>3. QED BY <3>1, <3>2 DEF requestOf
  <2>3. answerOf' = answerOf
    BY <1>2, <1>3, <1>6, SameAnswers
  <2>4. Promise!Ask(c)
    BY <1>1, <1>4, <1>5, <2>1, <2>2, <2>3 DEF Promise!Ask, latestOf, placedAtOf
  <2>5. QED BY <2>4 DEF Promise!Next
<1>7. CASE ~valid
  <2>1. ~Valid(c)'
    BY <1>2, <1>7 DEF Valid, BodyValid, KeyValid
  <2>2. requestOf' = requestOf
    <3>1. requestOf'[c] = requestOf[c]
      BY <1>3, <2>1 DEF requestOf, Valid
    <3>2. \A d \in Calls \ {c} : requestOf'[d] = requestOf[d]
      BY <1>2 DEF requestOf
    <3>3. QED BY <3>1, <3>2 DEF requestOf
  <2>3. answerOf' = [answerOf EXCEPT ![c] = [status |-> 400, order |-> None]]
    <3>1. answerOf'[c] = [status |-> 400, order |-> None]
      BY <1>2, <1>7 DEF answerOf, NoReply
    <3>2. \A d \in Calls \ {c} : answerOf'[d] = answerOf[d]
      BY <1>2 DEF answerOf, NoReply
    <3>3. QED BY <3>1, <3>2 DEF answerOf
  <2>4. Promise!Reject(c)
    BY <1>1, <1>4, <1>5, <2>2, <2>3
    DEF Promise!Reject, Promise!Tell, latestOf, placedAtOf
  <2>5. QED BY <2>4 DEF Promise!Next
<1>8. QED BY <1>6, <1>7

\* A call under way waits for its answer.
LEMMA UnderWay ==
  ASSUME IInv, AnswerInv, NEW c \in Calls, call[c].at \notin {"start", "answered", "lost"}
  PROVE  Promise!Waiting(c)
<1>1. Valid(c) /\ call[c].reply = NoReply
  BY DEF AnswerInv, FieldsAgree
<1>2. QED BY <1>1, AskedAndAnswered DEF Promise!Waiting, IInv

\* The call ends with 500, or was told by the route that nothing came of it.
LEMMA FailIsPromised ==
  ASSUME IInv, AnswerInv, NEW c \in Calls, Finish(c, 500, None),
         call[c].at \notin {"start", "answered", "lost"},
         \A d \in orders : txn'[d].now = txn[d].now,
         orders' = orders, records' = records
  PROVE  Promise!Next
<1>1. /\ call'[c].reply = [status |-> 500, order |-> None]
      /\ call'[c].key = call[c].key /\ call'[c].input = call[c].input
      /\ \A d \in Calls \ {c} : call'[d] = call[d]
  BY FinishAll DEF IInv
<1>2. Promise!Tell(c, 500, None)
  <2>1. 500 \in Nat \ {0}
    OBVIOUS
  <2>2. QED BY <1>1, <2>1, Told
<1>3. Promise!Fail(c)
  BY <1>2, UnderWay DEF Promise!Fail
<1>4. QED BY <1>3 DEF Promise!Next

\* 201 and 200 are said of an order that is there.
LEMMA CommitReturnsIsPromised ==
  ASSUME IInv, AnswerInv, NEW c \in Calls, CommitReturns(c)
  PROVE  Promise!Next
<1>1. /\ call[c].at = "commit" /\ txn[c].state = "committed"
      /\ txn' = txn /\ orders' = orders /\ records' = records
  BY DEF CommitReturns, dbVars
<1>2. Promise!Waiting(c) /\ Valid(c)
  BY <1>1, UnderWay DEF AnswerInv, FieldsAgree
<1>3. CASE call[c].row # None
  <2> DEFINE d == call[c].row
  <2>1. Replaying(c) /\ Finish(c, 200, d)
    BY <1>1, <1>3 DEF AnswerInv, FoundOut, CommitReturns
  <2>2. c \notin orders
    BY <2>1 DEF Replaying, IInv, CallStands, HalvesAgree
  <2>3. /\ d \in orders /\ call[c].key \in Keys
        /\ call[d].key = call[c].key /\ call[d].input = call[c].input
    BY <2>1 DEF Replaying, OrdersOf, Keyed
  <2>4. d \in Calls
    BY <2>3 DEF IInv, TypeOK
  <2>5. requestOf[c] = [key |-> call[c].key, input |-> call[c].input]
    BY <1>2, RequestsOf
  <2>6. requestOf[d] = requestOf[c]
    BY <1>2, <2>3, <2>4, <2>5, RequestsOf DEF Valid
  <2>7. Promise!SameKey(c, d) /\ requestOf[d].input = requestOf[c].input
    BY <2>3, <2>5, <2>6 DEF Promise!SameKey
  <2>8. Promise!Tell(c, 200, d)
    <3>1. /\ call'[c].reply = [status |-> 200, order |-> d]
          /\ call'[c].key = call[c].key /\ call'[c].input = call[c].input
          /\ \A e \in Calls \ {c} : call'[e] = call[e]
      BY <2>1, FinishAll DEF IInv
    <3>2. 200 \in Nat \ {0}
      OBVIOUS
    <3> HIDE DEF d
    <3>3. QED BY <1>1, <3>1, <3>2, Told
  <2>9. Promise!Replayed(c)
    BY <1>2, <2>2, <2>3, <2>7, <2>8 DEF Promise!Replayed
  <2>10. QED BY <2>9 DEF Promise!Next
<1>4. CASE call[c].row = None
  <2>1. Finish(c, 201, c) /\ c \in orders
    BY <1>1, <1>4
    DEF CommitReturns, AnswerInv, FoundOut, IInv, CallStands, HalvesAgree
  <2>2. Promise!Tell(c, 201, c)
    <3>1. /\ call'[c].reply = [status |-> 201, order |-> c]
          /\ call'[c].key = call[c].key /\ call'[c].input = call[c].input
          /\ \A e \in Calls \ {c} : call'[e] = call[e]
      BY <2>1, FinishAll DEF IInv
    <3>2. 201 \in Nat \ {0}
      OBVIOUS
    <3>3. QED BY <1>1, <3>1, <3>2, Told
  <2>3. Promise!Created(c)
    BY <1>2, <2>1, <2>2 DEF Promise!Created
  <2>4. QED BY <2>3 DEF Promise!Next
<1>5. QED BY <1>3, <1>4

\* 409 is said of a key used for another input.
LEMMA RollbackIsPromised ==
  ASSUME IInv, AnswerInv, NEW c \in Calls, Rollback(c)
  PROVE  Promise!Next
<1> DEFINE error == call[c].error
<1>1. /\ call[c].at = "rollback" /\ Finish(c, error, None)
      /\ orders' = orders /\ records' = records
  BY DEF Rollback
<1>2. \A d \in orders : txn'[d].now = txn[d].now
  BY DEF Rollback, IInv, TypeOK, TxnType
<1>3. error \in {409, 500} /\ (error = 409 => Conflicting(c)) /\ Valid(c)
  BY <1>1 DEF AnswerInv, FieldsAgree, FoundOut
<1>4. Promise!Waiting(c)
  BY <1>1, UnderWay
<1>5. c \notin orders
  BY <1>1 DEF IInv, CallStands, HalvesAgree
<1>6. Promise!Tell(c, error, None)
  <2>1. /\ call'[c].reply = [status |-> error, order |-> None]
        /\ call'[c].key = call[c].key /\ call'[c].input = call[c].input
        /\ \A e \in Calls \ {c} : call'[e] = call[e]
    BY <1>1, FinishAll DEF IInv
  <2>2. error \in Nat \ {0}
    BY <1>3
  <2> HIDE DEF error
  <2>3. QED BY <1>1, <1>2, <2>1, <2>2, Told
<1>7. CASE error = 500
  <2>1. Promise!Fail(c)
    BY <1>4, <1>6, <1>7 DEF Promise!Fail
  <2>2. QED BY <2>1 DEF Promise!Next
<1>8. CASE error = 409
  <2>1. PICK d \in OrdersOf(call[c].key) : call[d].input # call[c].input
    BY <1>3, <1>8 DEF Conflicting
  <2>2. d \in orders /\ d \in Calls /\ call[d].key = call[c].key /\ call[c].key \in Keys
    BY <1>3, <1>8, <2>1 DEF OrdersOf, IInv, TypeOK, Conflicting, Keyed
  <2>3. Valid(d)
    BY <2>2 DEF IInv, CallStands, HalvesAgree, AnswerInv, FieldsAgree
  <2>4. /\ requestOf[c] = [key |-> call[c].key, input |-> call[c].input]
        /\ requestOf[d] = [key |-> call[d].key, input |-> call[d].input]
    BY <1>3, <2>2, <2>3, RequestsOf
  <2>5. Promise!SameKey(c, d) /\ requestOf[d].input # requestOf[c].input
    BY <2>1, <2>2, <2>4 DEF Promise!SameKey
  <2>6. Promise!Conflict(c)
    BY <1>4, <1>5, <1>6, <1>8, <2>2, <2>5 DEF Promise!Conflict
  <2>7. QED BY <2>6 DEF Promise!Next
<1>9. QED BY <1>3, <1>7, <1>8

\* A COMMIT that places an order places it as promised: at the time its
\* transaction began, when the key was free.
LEMMA CommitIsPromised ==
  ASSUME IInv, AnswerInv, NEW c \in Calls, ApplyCommit(c), txn[c].places
  PROVE  Promise!Next
<1> DEFINE t == txn[c].now
           key == call[c].key
<1>1. /\ txn[c].state = "committing" /\ call' = call /\ orders' = orders \cup {c}
      /\ \A d \in Calls : txn'[d].now = txn[d].now
  BY DEF ApplyCommit, IInv, TypeOK, TxnType
<1>2. CallStands(c) /\ FieldsAgree(c) /\ FoundOut(c) /\ c \notin orders
  BY <1>1 DEF IInv, AnswerInv, CallStands, HalvesAgree
<1>3. requestOf[c] = [key |-> key, input |-> call[c].input] /\ requestOf[c] # None
  <2>1. Valid(c)
    BY <1>1, <1>2 DEF FieldsAgree
  <2>2. QED BY <2>1, RequestsOf, AskedAndAnswered DEF IInv
<1>4. answerOf[c] \in {None, [status |-> 500, order |-> None]}
  <2>1. call[c].reply \in Replies
    BY DEF IInv, TypeOK, CallType
  <2>2. call[c].reply.status \notin {200, 201, 400, 409}
    BY <1>1, <1>2 DEF FoundOut, NoTxn
  <2>3. CASE call[c].at # "answered"
    BY <1>2, <2>3, AnswersOf DEF FieldsAgree
  <2>4. CASE call[c].at = "answered"
    <3>1. call[c].reply.status = 500 /\ call[c].reply.order = None
      BY <1>2, <2>1, <2>2, <2>4 DEF FieldsAgree, FoundOut, Replies
    <3>2. call[c].reply = [status |-> 500, order |-> None]
      BY <2>1, <3>1 DEF Replies
    <3>3. QED BY <3>2, AnswersOf
  <2>5. QED BY <2>3, <2>4
<1>5. t \in 0 .. MaxTime
  BY OrderAssumption DEF AnswerInv, TimesAgree, IInv, TypeOK, TxnType
<1>6. ASSUME NEW k \in Keys, k = key, latestOf[k] # None
      PROVE  placedAtOf[latestOf[k]] + Retention <= t
  <2>1. records[k] # NoRecord /\ latestOf[k] = records[k].order
    BY <1>6 DEF latestOf, NoRecord
  <2>2. /\ records[k].order \in orders /\ records[k].order \in Calls
        /\ records[k].expires = txn[records[k].order].now + Retention
    BY <2>1 DEF IInv, OrdersAreBound, OrdersOf, TypeOK
  <2>3. placedAtOf[latestOf[k]] + Retention = records[k].expires
    BY <2>1, <2>2 DEF placedAtOf
  <2>4. Active(c) /\ call[c].at # "delete" /\ VisibleRecord(c) = NoRecord
    BY <1>1, <1>2, <1>6 DEF Active, Keyed, CallStands, HalvesAgree, FindingsStand
  <2>5. records[k].expires <= t
    BY <1>2, <1>6, <2>1, <2>4 DEF VisibleRecord, CallStands, FindingsStand
  <2>6. QED BY <2>3, <2>5
<1>7. placedAtOf' = [placedAtOf EXCEPT ![c] = t]
  <2>1. \A d \in Calls \ {c} : placedAtOf'[d] = placedAtOf[d]
    BY <1>1 DEF placedAtOf
  <2>2. placedAtOf'[c] = t
    BY <1>1 DEF placedAtOf
  <2>3. QED BY <2>1, <2>2 DEF placedAtOf
<1>8. latestOf' = [k \in Keys |-> IF k = key THEN c ELSE latestOf[k]]
  <2>1. ASSUME NEW k \in Keys
        PROVE  latestOf'[k] = IF k = key THEN c ELSE latestOf[k]
    <3>1. CASE k # key
      BY <3>1 DEF ApplyCommit, latestOf
    <3>2. CASE k = key
      <4>1. txn[c].binds
        BY <1>1, <1>2, <3>2 DEF CallStands, WritesAgree, Keyed
      <4>2. QED BY <3>2, <4>1 DEF ApplyCommit, latestOf
    <3>3. QED BY <3>1, <3>2
  <2>2. QED BY <2>1 DEF latestOf
<1>9. requestOf' = requestOf /\ answerOf' = answerOf
  BY <1>1, SameRequests, SameAnswers
<1>10. Promise!Place(c)
  <2>1. requestOf[c].key = key
    BY <1>3
  <2>2. \A k \in Keys : k = requestOf[c].key /\ latestOf[k] # None
                          => placedAtOf[latestOf[k]] + Retention <= t
    BY <1>6, <2>1
  <2> HIDE DEF t, key
  <2>3. QED BY <1>1, <1>2, <1>3, <1>4, <1>5, <1>7, <1>8, <1>9, <2>1, <2>2
        DEF Promise!Place, latestOf, placedAtOf
<1>11. QED BY <1>10 DEF Promise!Next

\* A COMMIT that places nothing only ends a replay: the tables stay.
LEMMA EmptyCommitUnseen ==
  ASSUME IInv, NEW c \in Calls, ApplyCommit(c), ~txn[c].places
  PROVE  UNCHANGED Promise!vars
<1>1. /\ txn[c].state = "committing" /\ call' = call /\ orders' = orders
      /\ \A d \in Calls : txn'[d].now = txn[d].now
  BY DEF ApplyCommit, IInv, TypeOK, TxnType
<1>2. CallStands(c)
  BY DEF IInv
<1>3. ASSUME NEW k \in Keys
      PROVE  records'[k] = records[k]
  <2>1. CASE k # call[c].key
    BY <2>1 DEF ApplyCommit
  <2>2. CASE k = call[c].key
    <3>1. ~txn[c].binds /\ ~txn[c].deletes
      BY <1>1, <1>2, <2>2 DEF CallStands, WritesAgree, FindingsStand, Active, Keyed
    <3>2. QED BY <2>2, <3>1 DEF ApplyCommit, VisibleRecord
  <2>3. QED BY <2>1, <2>2
<1>4. records' = records
  BY <1>3 DEF ApplyCommit, IInv, TypeOK
<1>5. \A d \in orders : txn'[d].now = txn[d].now
  BY <1>1 DEF IInv, TypeOK
<1>6. QED BY <1>1, <1>4, <1>5, Unseen

\* The steps inside the transaction are not seen by anybody.
LEMMA InnerStepsUnseen ==
  ASSUME IInv, AnswerInv, NEW c \in Calls,
         \/ Connect(c) \/ Begin(c) \/ AcquireLock(c) \/ DeleteExpired(c)
         \/ SelectConflict(c) \/ SelectReplay(c) \/ SelectNothing(c)
         \/ InsertOrder(c) \/ InsertRecord(c) \/ StatementFails(c) \/ AbortOrphan(c)
  PROVE  UNCHANGED Promise!vars
<1>1. orders' = orders /\ records' = records
  BY DEF Connect, Begin, AcquireLock, DeleteExpired, SelectConflict, SelectReplay,
     SelectNothing, InsertOrder, InsertRecord, StatementFails, AbortOrphan, dbVars
<1>2. \A d \in Calls : /\ call'[d].key = call[d].key /\ call'[d].input = call[d].input
                       /\ call'[d].reply = call[d].reply
  <2>1. CASE SelectConflict(c) \/ SelectReplay(c)
    BY <2>1 DEF SelectConflict, SelectReplay, IInv, TypeOK, CallType
  <2>2. CASE StatementFails(c) \/ InsertRecord(c)
    BY <2>2 DEF StatementFails, InsertRecord, Throw, Goto, IInv, TypeOK, CallType
  <2>3. CASE \/ Connect(c) \/ Begin(c) \/ AcquireLock(c) \/ DeleteExpired(c)
             \/ SelectNothing(c) \/ InsertOrder(c) \/ AbortOrphan(c)
    BY <2>3 DEF Connect, Begin, AcquireLock, DeleteExpired, SelectNothing, InsertOrder,
       AbortOrphan, Goto, IInv, TypeOK, CallType
  <2>4. QED BY <2>1, <2>2, <2>3
<1>3. \A d \in Calls : txn'[d].now = txn[d].now \/ txn[d].state = "none"
  <2>1. CASE Begin(c)
    <3>1. txn[c] = NoTxn
      BY <2>1 DEF Begin, IInv, CallStands, HalvesAgree
    <3>2. QED BY <2>1, <3>1 DEF Begin, NoTxn, IInv, TypeOK, TxnType
  <2>2. CASE DeleteExpired(c)
    <3>1. txn'[c].now = txn[c].now /\ \A d \in Calls \ {c} : txn'[d] = txn[d]
      BY <2>2 DEF DeleteExpired, IInv, TypeOK, TxnType
    <3>2. QED BY <3>1
  <2>3. CASE SelectReplay(c)
    BY <2>3 DEF SelectReplay, IInv, TypeOK, TxnType
  <2>4. CASE InsertOrder(c)
    BY <2>4 DEF InsertOrder, IInv, TypeOK, TxnType
  <2>5. CASE InsertRecord(c)
    BY <2>5 DEF InsertRecord, Throw, IInv, TypeOK, TxnType
  <2>6. CASE StatementFails(c)
    BY <2>6 DEF StatementFails, Throw, IInv, TypeOK, TxnType
  <2>7. CASE AbortOrphan(c)
    BY <2>7 DEF AbortOrphan, IInv, TypeOK, TxnType
  <2>8. CASE Connect(c) \/ AcquireLock(c) \/ SelectConflict(c) \/ SelectNothing(c)
    BY <2>8 DEF Connect, AcquireLock, SelectConflict, SelectNothing, dbVars
  <2>9. QED BY <2>1, <2>2, <2>3, <2>4, <2>5, <2>6, <2>7, <2>8
<1>4. \A d \in orders : d \in Calls /\ txn[d].state # "none"
  BY DEF IInv, TypeOK, CallStands, HalvesAgree
<1>5. QED BY <1>1, <1>2, <1>3, <1>4, Unseen

\* A crash is not seen either: whoever was told nothing is still told nothing.
LEMMA CrashUnseen ==
  ASSUME IInv, NEW i \in Instances, Crash(i)
  PROVE  UNCHANGED Promise!vars
<1>1. \A d \in Calls : /\ call'[d].key = call[d].key /\ call'[d].input = call[d].input
                       /\ call'[d].reply = call[d].reply
  BY DEF Crash, IInv, TypeOK, CallType
<1>2. txn' = txn /\ orders' = orders /\ records' = records
  BY DEF Crash, dbVars
<1>3. QED BY <1>1, <1>2, Unseen

LEMMA InitIsPromised == Init => Promise!Init
<1> SUFFICES ASSUME Init
             PROVE  Promise!Init
  OBVIOUS
<1>1. \A c \in Calls : call[c] = NoCall /\ ~Valid(c)
  BY OrderAssumption DEF Init, NoCall, Valid
<1>2. requestOf = [c \in Calls |-> None]
  BY <1>1 DEF requestOf, Valid
<1>3. answerOf = [c \in Calls |-> None]
  BY <1>1 DEF answerOf, NoCall
<1>4. QED BY <1>2, <1>3 DEF Promise!Init, Init, NoRecord

LEMMA NextIsPromised == IInv /\ AnswerInv /\ [Next]_vars => [Promise!Next]_(Promise!vars)
<1> SUFFICES ASSUME IInv, AnswerInv, [Next]_vars
             PROVE  Promise!Next \/ UNCHANGED Promise!vars
  OBVIOUS
<1>1. ASSUME NEW c \in Calls, NEW i \in Instances, NEW h \in Headers \cup {NoKey},
             NEW b \in Bodies, Receive(c, i, h, b)
      PROVE  Promise!Next \/ UNCHANGED Promise!vars
  BY <1>1, ReceiveIsPromised
<1>2. ASSUME NEW c \in Calls, Step(c)
      PROVE  Promise!Next \/ UNCHANGED Promise!vars
  BY <1>2, InnerStepsUnseen, CommitReturnsIsPromised, RollbackIsPromised DEF Step
<1>3. ASSUME NEW c \in Calls, Fault(c)
      PROVE  Promise!Next \/ UNCHANGED Promise!vars
  <2>1. CASE ConnectFails(c)
    BY <2>1, FailIsPromised DEF ConnectFails, dbVars
  <2>2. CASE StatementFails(c)
    BY <2>2, InnerStepsUnseen
  <2>3. CASE Disconnect(c)
    BY <2>3, FailIsPromised DEF Disconnect, Connected, Querying, dbVars
  <2>4. QED BY <1>3, <2>1, <2>2, <2>3 DEF Fault
<1>4. ASSUME NEW c \in Calls, ServerStep(c)
      PROVE  Promise!Next \/ UNCHANGED Promise!vars
  BY <1>4, InnerStepsUnseen, CommitIsPromised, EmptyCommitUnseen DEF ServerStep
<1>5. ASSUME NEW i \in Instances, Crash(i)
      PROVE  UNCHANGED Promise!vars
  BY <1>5, CrashUnseen
<1>6. CASE Tick \/ UNCHANGED vars
  BY <1>6, Unseen DEF Tick, vars, dbVars
<1>7. QED BY <1>1, <1>2, <1>3, <1>4, <1>5, <1>6 DEF Next

\* Every behaviour of the transactions, with its races, failures and crashes,
\* looks to the clients as if orders were placed and bound in one step.
THEOREM ImplementsThePromise == Spec => ImplementsPromise
<1>1. Init => Promise!Init
  BY InitIsPromised
<1>2. IInv /\ AnswerInv /\ [Next]_vars => [Promise!Next]_(Promise!vars)
  BY NextIsPromised
<1>3. QED BY <1>1, <1>2, Invariance, AnswersInvariant, PTL
          DEF Spec, Promise!Spec, ImplementsPromise

-----------------------------------------------------------------------------
(* Connections *)

LeasedBy(i) == {c \in leased : call[c].instance = i}

\* PoolAccounted counts a finite set.
PoolInv == PoolAccounted /\ IsFiniteSet(leased)

\* One call moves: it holds a connection afterwards just if it awaits a query,
\* and if it had none before there was one to give.
LEMMA OneCallLeases ==
  ASSUME TypeOK, PoolInv, NEW c \in Calls,
         \A d \in Calls \ {c} : call'[d] = call[d],
         leased' = IF call'[c].at \in Querying THEN leased \cup {c} ELSE leased \ {c},
         c \in leased => call'[c].instance = call[c].instance,
         c \in leased' \ leased
           => Cardinality({d \in leased : call[d].instance = call'[c].instance}) < PoolMax
  PROVE  PoolInv'
<1>1. leased' \subseteq Calls /\ leased \subseteq Calls
  BY DEF TypeOK
<1>2. leased' = {d \in Calls : Connected(d)}'
  BY <1>1 DEF PoolInv, PoolAccounted, Connected
<1>3. IsFiniteSet(leased')
  <2>1. IsFiniteSet(leased \cup {c}) /\ IsFiniteSet(leased \ {c})
    BY FS_AddElement, FS_RemoveElement DEF PoolInv
  <2>2. QED BY <2>1
<1>4. ASSUME NEW i \in Instances
      PROVE  Cardinality(LeasedBy(i)') <= PoolMax
  <2>1. IsFiniteSet(LeasedBy(i)) /\ Cardinality(LeasedBy(i)) \in Nat
    BY FS_Subset, FS_CardinalityType DEF PoolInv, LeasedBy
  <2>2. Cardinality(LeasedBy(i)) <= PoolMax
    BY DEF PoolInv, PoolAccounted, LeasedBy
  <2>3. CASE c \in leased' \ leased /\ call'[c].instance = i
    <3>1. LeasedBy(i)' = LeasedBy(i) \cup {c}
      BY <1>1, <2>3 DEF LeasedBy
    <3>2. c \notin LeasedBy(i) /\ Cardinality(LeasedBy(i)) < PoolMax
      BY <2>3 DEF LeasedBy
    <3>3. Cardinality(LeasedBy(i)') = Cardinality(LeasedBy(i)) + 1
      <4>1. Cardinality(LeasedBy(i) \cup {c}) = Cardinality(LeasedBy(i)) + 1
        BY <2>1, <3>2, FS_AddElement
      <4>2. QED BY <3>1, <4>1
    <3>4. QED BY <2>1, <3>2, <3>3, OrderAssumption
  <2>4. CASE ~(c \in leased' \ leased /\ call'[c].instance = i)
    <3>1. LeasedBy(i)' \in SUBSET LeasedBy(i)
      BY <1>1, <2>4 DEF LeasedBy
    <3>2. /\ Cardinality(LeasedBy(i)') <= Cardinality(LeasedBy(i))
          /\ Cardinality(LeasedBy(i)') \in Nat
      BY <2>1, <3>1, FS_Subset, FS_CardinalityType
    <3>3. QED BY <2>1, <2>2, <3>2, OrderAssumption
  <2>5. QED BY <2>3, <2>4
<1>5. QED BY <1>2, <1>3, <1>4 DEF PoolInv, PoolAccounted, LeasedBy

\* The client half only moves on, or throws.
LEMMA MovesKeepLeases ==
  ASSUME TypeOK, PoolInv, NEW c \in Calls,
         \A d \in Calls \ {c} : call'[d] = call[d],
         call[c].at \in Querying, call'[c].at \in Querying,
         call'[c].instance = call[c].instance, leased' = leased
  PROVE  PoolInv'
<1>1. c \in leased
  BY DEF PoolInv, PoolAccounted, Connected
<1>2. leased' = IF call'[c].at \in Querying THEN leased \cup {c} ELSE leased \ {c}
  BY <1>1
<1>3. QED BY <1>1, <1>2, OneCallLeases

LEMMA FinishLeases ==
  ASSUME TypeOK, PoolInv, NEW c \in Calls, NEW s, NEW o, Finish(c, s, o)
  PROVE  PoolInv'
<1>1. /\ call'[c].at = "answered" /\ call'[c].instance = call[c].instance
      /\ \A d \in Calls \ {c} : call'[d] = call[d]
  BY FinishAll
<1>2. "answered" \notin Querying /\ leased' = leased \ {c}
  BY DEF Finish, Querying
<1>3. leased' = IF call'[c].at \in Querying THEN leased \cup {c} ELSE leased \ {c}
  BY <1>1, <1>2
<1>4. c \notin leased' \ leased
  BY <1>2
<1>5. QED BY <1>1, <1>3, <1>4, OneCallLeases

LEMMA StepLeases ==
  ASSUME TypeOK, PoolInv, NEW c \in Calls, Step(c)
  PROVE  PoolInv'
<1>1. CASE Connect(c)
  <2>1. /\ call'[c].at = "begin" /\ call'[c].instance = call[c].instance
        /\ \A d \in Calls \ {c} : call'[d] = call[d]
    BY <1>1, GotoAll DEF Connect
  <2>2. leased' = IF call'[c].at \in Querying THEN leased \cup {c} ELSE leased \ {c}
    BY <1>1, <2>1 DEF Connect, Querying
  <2>3. Cardinality({d \in leased : call[d].instance = call'[c].instance}) < PoolMax
    BY <1>1, <2>1 DEF Connect
  <2>4. QED BY <2>1, <2>2, <2>3, OneCallLeases
<1>2. CASE \/ Begin(c) \/ AcquireLock(c) \/ DeleteExpired(c)
           \/ SelectNothing(c) \/ InsertOrder(c)
  <2>1. PICK p \in Querying : Goto(c, p)
    BY <1>2 DEF Begin, AcquireLock, DeleteExpired, SelectNothing, InsertOrder, Querying
  <2>2. call[c].at \in Querying /\ leased' = leased
    BY <1>2 DEF Begin, AcquireLock, DeleteExpired, SelectNothing, InsertOrder, Querying
  <2>3. QED BY <2>1, <2>2, GotoAll, MovesKeepLeases
<1>3. CASE SelectConflict(c) \/ SelectReplay(c)
  <2>1. /\ call[c].at \in Querying /\ call'[c].at \in Querying /\ leased' = leased
        /\ call'[c].instance = call[c].instance
        /\ \A d \in Calls \ {c} : call'[d] = call[d]
    BY <1>3 DEF SelectConflict, SelectReplay, TypeOK, CallType, Querying
  <2>2. QED BY <2>1, MovesKeepLeases
<1>4. CASE InsertRecord(c)
  <2>1. call[c].at \in Querying /\ leased' = leased
    BY <1>4 DEF InsertRecord, Querying
  <2>2. CASE Goto(c, "commit")
    BY <2>1, <2>2, GotoAll, MovesKeepLeases DEF Querying
  <2>3. CASE Throw(c, 500)
    BY <2>1, <2>3, ThrowAll, MovesKeepLeases DEF Querying
  <2>4. QED BY <1>4, <2>2, <2>3 DEF InsertRecord
<1>5. CASE CommitReturns(c)
  BY <1>5, FinishLeases DEF CommitReturns
<1>6. CASE Rollback(c)
  BY <1>6, FinishLeases DEF Rollback
<1>7. QED BY <1>1, <1>2, <1>3, <1>4, <1>5, <1>6 DEF Step

LEMMA FaultLeases ==
  ASSUME TypeOK, PoolInv, NEW c \in Calls, Fault(c)
  PROVE  PoolInv'
<1>1. CASE ConnectFails(c)
  BY <1>1, FinishLeases DEF ConnectFails
<1>2. CASE StatementFails(c)
  <2>1. call[c].at \in Querying /\ leased' = leased /\ Throw(c, 500)
    BY <1>2 DEF StatementFails, Querying
  <2>2. QED BY <2>1, ThrowAll, MovesKeepLeases DEF Querying
<1>3. CASE Disconnect(c)
  BY <1>3, FinishLeases DEF Disconnect
<1>4. QED BY <1>1, <1>2, <1>3 DEF Fault

\* A process that dies takes its pool with it.
LEMMA CrashLeases ==
  ASSUME TypeOK, PoolInv, NEW i \in Instances, Crash(i)
  PROVE  PoolInv'
<1>1. \A d \in Calls :
        /\ call'[d].instance = call[d].instance
        /\ call'[d].at = IF call[d].instance = i /\ call[d].at # "answered"
                         THEN "lost" ELSE call[d].at
  BY DEF Crash, TypeOK, CallType
<1>2. leased' = {c \in leased : call[c].instance # i} /\ leased \subseteq Calls
  BY DEF Crash, TypeOK
<1>3. leased' = {d \in Calls : Connected(d)}'
  BY <1>1, <1>2 DEF PoolInv, PoolAccounted, Connected, Querying
<1>4. IsFiniteSet(leased')
  BY <1>2, FS_Subset DEF PoolInv
<1>5. ASSUME NEW j \in Instances
      PROVE  Cardinality(LeasedBy(j)') <= PoolMax
  <2>1. IsFiniteSet(LeasedBy(j)) /\ Cardinality(LeasedBy(j)) \in Nat
    BY FS_Subset, FS_CardinalityType DEF PoolInv, LeasedBy
  <2>2. LeasedBy(j)' \in SUBSET LeasedBy(j)
    BY <1>1, <1>2 DEF LeasedBy
  <2>3. /\ Cardinality(LeasedBy(j)') <= Cardinality(LeasedBy(j))
        /\ Cardinality(LeasedBy(j)') \in Nat
    BY <2>1, <2>2, FS_Subset, FS_CardinalityType
  <2>4. Cardinality(LeasedBy(j)) <= PoolMax
    BY DEF PoolInv, PoolAccounted, LeasedBy
  <2>5. QED BY <2>1, <2>3, <2>4, OrderAssumption
<1>6. QED BY <1>3, <1>4, <1>5 DEF PoolInv, PoolAccounted, LeasedBy

LEMMA ReceiveLeases ==
  ASSUME TypeOK, PoolInv, NEW c \in Calls, NEW i \in Instances,
         NEW h \in Headers \cup {NoKey}, NEW b \in Bodies, Receive(c, i, h, b)
  PROVE  PoolInv'
<1> DEFINE valid == BodyValid(b) /\ KeyValid(h)
           phase == IF valid THEN "connect" ELSE "answered"
<1>1. /\ call'[c].at = phase /\ leased' = leased /\ call[c].at = "start"
      /\ \A d \in Calls \ {c} : call'[d] = call[d]
  BY DEF Receive, TypeOK
<1>2. c \notin leased
  BY <1>1 DEF PoolInv, PoolAccounted, Connected, Querying
<1>3. phase \notin Querying
  BY DEF Querying
<1>4. QED BY <1>1, <1>2, <1>3, OneCallLeases

LEMMA NobodyLeases ==
  ASSUME PoolInv, UNCHANGED <<call, leased>>
  PROVE  PoolInv'
  BY DEF PoolInv, PoolAccounted, Connected

\* Exactly the calls that await a query hold a connection, at most PoolMax of
\* each instance, whatever fails and whoever crashes.
THEOREM NoConnectionLeaks == Spec => []PoolAccounted
<1>1. Init => PoolInv
  <2> SUFFICES ASSUME Init
               PROVE  PoolInv
    OBVIOUS
  <2>1. leased = {c \in Calls : Connected(c)}
    BY DEF Init, NoCall, Connected, Querying
  <2>2. \A i \in Instances : LeasedBy(i) = {}
    BY DEF Init, LeasedBy
  <2>3. IsFiniteSet({}) /\ Cardinality({}) = 0
    BY FS_EmptySet
  <2>4. QED BY <2>1, <2>2, <2>3, OrderAssumption
            DEF PoolInv, PoolAccounted, LeasedBy, Init
<1>2. TypeOK /\ PoolInv /\ [Next]_vars => PoolInv'
  <2> SUFFICES ASSUME TypeOK, PoolInv, [Next]_vars
               PROVE  PoolInv'
    OBVIOUS
  <2>1. ASSUME NEW c \in Calls, Step(c) \/ Fault(c)
        PROVE  PoolInv'
    BY <2>1, StepLeases, FaultLeases
  <2>2. ASSUME NEW c \in Calls, ServerStep(c)
        PROVE  PoolInv'
    BY <2>2, NobodyLeases DEF ServerStep, ApplyCommit, AbortOrphan
  <2>3. ASSUME NEW c \in Calls, NEW i \in Instances, NEW h \in Headers \cup {NoKey},
               NEW b \in Bodies, Receive(c, i, h, b)
        PROVE  PoolInv'
    BY <2>3, ReceiveLeases
  <2>4. ASSUME NEW i \in Instances, Crash(i)
        PROVE  PoolInv'
    BY <2>4, CrashLeases
  <2>5. CASE Tick \/ UNCHANGED vars
    BY <2>5, NobodyLeases DEF Tick, vars
  <2>6. QED BY <2>1, <2>2, <2>3, <2>4, <2>5 DEF Next
<1>3. PoolInv => PoolAccounted
  BY DEF PoolInv
<1>4. QED BY <1>1, <1>2, <1>3, TypeCorrect, PTL DEF Spec

-----------------------------------------------------------------------------
(* Metrics *)

Replayers(i) == {c \in Calls : call[c].instance = i /\ call[c].reply.status = 200}
Conflicted(i) == {c \in Calls : call[c].instance = i /\ call[c].error = 409}

\* MetricsNeverOvercount compares with finite sets.
MetricsInv ==
  \A i \in Instances :
    /\ IsFiniteSet(Replayers(i)) /\ replays[i] <= Cardinality(Replayers(i))
    /\ IsFiniteSet(Conflicted(i)) /\ conflicts[i] <= Cardinality(Conflicted(i))

\* A set becomes T, with at most x more than S, and the number that counts it
\* goes from m to n: up by one if x is new, or not up at all.
Counts(S, T, x, m, n) ==
  /\ m \in Nat /\ n \in Nat /\ IsFiniteSet(S) /\ m <= Cardinality(S)
  /\ S \subseteq T /\ T \subseteq S \cup {x}
  /\ \/ n <= m
     \/ n = m + 1 /\ x \in T \ S

LEMMA CountStaysCovered ==
  ASSUME NEW S, NEW T, NEW x, NEW m, NEW n, Counts(S, T, x, m, n)
  PROVE  IsFiniteSet(T) /\ n <= Cardinality(T)
<1> USE DEF Counts
<1>1. Cardinality(S) \in Nat
  BY FS_CardinalityType
<1>2. CASE x \in T \ S
  <2>1. T = S \cup {x} /\ x \notin S
    BY <1>2
  <2>2. IsFiniteSet(S \cup {x}) /\ Cardinality(S \cup {x}) = Cardinality(S) + 1
    BY <2>1, FS_AddElement
  <2>3. IsFiniteSet(T) /\ Cardinality(T) = Cardinality(S) + 1
    BY <2>1, <2>2
  <2>4. QED BY <1>1, <2>3
<1>3. CASE x \notin T \ S
  <2>1. T = S
    BY <1>3
  <2>2. QED BY <1>1, <1>3, <2>1
<1>4. QED BY <1>2, <1>3

\* One call moves: it stays counted where it was, and a counter that goes up
\* goes up for it.
LEMMA OneCallCounts ==
  ASSUME TypeOK, TypeOK', MetricsInv, NEW c \in Calls,
         \A d \in Calls \ {c} : call'[d] = call[d],
         call[c].reply.status = 200 \/ call[c].error = 409
           => call'[c].instance = call[c].instance,
         call[c].reply.status = 200 => call'[c].reply.status = 200,
         call[c].error = 409 => call'[c].error = 409,
         \A i \in Instances :
           /\ \/ replays'[i] = replays[i]
              \/ /\ replays'[i] = replays[i] + 1 /\ i = call'[c].instance
                 /\ call[c].reply.status # 200 /\ call'[c].reply.status = 200
           /\ \/ conflicts'[i] = conflicts[i]
              \/ /\ conflicts'[i] = conflicts[i] + 1 /\ i = call'[c].instance
                 /\ call[c].error # 409 /\ call'[c].error = 409
  PROVE  MetricsInv'
<1> SUFFICES ASSUME NEW i \in Instances
             PROVE  /\ IsFiniteSet(Replayers(i)') /\ replays'[i] <= Cardinality(Replayers(i)')
                    /\ IsFiniteSet(Conflicted(i)')
                    /\ conflicts'[i] <= Cardinality(Conflicted(i)')
  BY DEF MetricsInv
<1>1. /\ replays[i] \in Nat /\ replays'[i] \in Nat
      /\ conflicts[i] \in Nat /\ conflicts'[i] \in Nat
  BY DEF TypeOK
<1>2. IsFiniteSet(Replayers(i)') /\ replays'[i] <= Cardinality(Replayers(i)')
  <2>1. Replayers(i) \subseteq Replayers(i)' /\ Replayers(i)' \subseteq Replayers(i) \cup {c}
    BY DEF Replayers
  <2>2. IsFiniteSet(Replayers(i)) /\ replays[i] <= Cardinality(Replayers(i))
    BY DEF MetricsInv
  <2>3. \/ replays'[i] <= replays[i]
        \/ replays'[i] = replays[i] + 1 /\ c \in Replayers(i)' \ Replayers(i)
    BY <1>1 DEF Replayers
  <2>4. Counts(Replayers(i), Replayers(i)', c, replays[i], replays'[i])
    BY <1>1, <2>1, <2>2, <2>3 DEF Counts
  <2>5. QED BY <2>4, CountStaysCovered
<1>3. IsFiniteSet(Conflicted(i)') /\ conflicts'[i] <= Cardinality(Conflicted(i)')
  <2>1. Conflicted(i) \subseteq Conflicted(i)' /\ Conflicted(i)' \subseteq Conflicted(i) \cup {c}
    BY DEF Conflicted
  <2>2. IsFiniteSet(Conflicted(i)) /\ conflicts[i] <= Cardinality(Conflicted(i))
    BY DEF MetricsInv
  <2>3. \/ conflicts'[i] <= conflicts[i]
        \/ conflicts'[i] = conflicts[i] + 1 /\ c \in Conflicted(i)' \ Conflicted(i)
    BY <1>1 DEF Conflicted
  <2>4. Counts(Conflicted(i), Conflicted(i)', c, conflicts[i], conflicts'[i])
    BY <1>1, <2>1, <2>2, <2>3 DEF Counts
  <2>5. QED BY <2>4, CountStaysCovered
<1>4. QED BY <1>2, <1>3

\* Steps that count nothing, of a call that has not been answered.
LEMMA NothingCounted ==
  ASSUME TypeOK, TypeOK', AnswerInv, MetricsInv, NEW c \in Calls,
         \A d \in Calls \ {c} : call'[d] = call[d],
         call[c].at \notin {"answered", "lost"},
         call[c].at # "start" => call'[c].instance = call[c].instance,
         call[c].at \in {"commit", "rollback"} => call'[c].error = call[c].error,
         replays' = replays, conflicts' = conflicts
  PROVE  MetricsInv'
<1>1. call[c].reply.status = 0
  BY DEF AnswerInv, FieldsAgree, NoReply
<1>2. call[c].at # "rollback" => call[c].error = 0
  BY DEF AnswerInv, FieldsAgree
<1>3. QED BY <1>1, <1>2, OneCallCounts

LEMMA StepCounts ==
  ASSUME TypeOK, TypeOK', AnswerInv, MetricsInv, NEW c \in Calls, Step(c)
  PROVE  MetricsInv'
<1>1. CASE \/ Connect(c) \/ Begin(c) \/ AcquireLock(c) \/ DeleteExpired(c)
           \/ SelectNothing(c) \/ InsertOrder(c)
  <2>1. \E p \in Phases : Goto(c, p)
    BY <1>1 DEF Connect, Begin, AcquireLock, DeleteExpired, SelectNothing, InsertOrder,
       Phases
  <2>2. call[c].at \notin {"answered", "lost"} /\ UNCHANGED metricVars
    BY <1>1 DEF Connect, Begin, AcquireLock, DeleteExpired, SelectNothing, InsertOrder,
       metricVars
  <2>3. QED BY <2>1, <2>2, GotoAll, NothingCounted DEF metricVars
<1>2. CASE SelectConflict(c)
  <2>1. /\ call[c].at = "select" /\ call'[c].error = 409
        /\ call'[c].instance = call[c].instance /\ call'[c].reply = call[c].reply
        /\ \A d \in Calls \ {c} : call'[d] = call[d]
    BY <1>2 DEF SelectConflict, TypeOK, CallType
  <2>2. call[c].error = 0 /\ call[c].reply.status = 0
    BY <2>1 DEF AnswerInv, FieldsAgree, NoReply
  <2>3. /\ replays' = replays
        /\ conflicts' = [conflicts EXCEPT ![call[c].instance] = @ + 1]
    BY <1>2 DEF SelectConflict
  <2>4. \A i \in Instances : \/ conflicts'[i] = conflicts[i]
                             \/ conflicts'[i] = conflicts[i] + 1 /\ i = call'[c].instance
    BY <2>1, <2>3 DEF TypeOK
  <2>5. QED BY <2>1, <2>2, <2>3, <2>4, OneCallCounts
<1>3. CASE SelectReplay(c)
  <2>1. /\ call[c].at = "select" /\ call'[c].instance = call[c].instance
        /\ UNCHANGED metricVars /\ \A d \in Calls \ {c} : call'[d] = call[d]
    BY <1>3 DEF SelectReplay, TypeOK, CallType
  <2>2. QED BY <2>1, NothingCounted DEF metricVars
<1>4. CASE InsertRecord(c)
  <2>1. call[c].at = "insertRecord" /\ UNCHANGED metricVars
    BY <1>4 DEF InsertRecord, metricVars
  <2>2. CASE Goto(c, "commit")
    BY <2>1, <2>2, GotoAll, NothingCounted DEF metricVars
  <2>3. CASE Throw(c, 500)
    BY <2>1, <2>3, ThrowAll, NothingCounted DEF metricVars
  <2>4. QED BY <1>4, <2>2, <2>3 DEF InsertRecord
<1>5. CASE CommitReturns(c)
  <2>1. call[c].at = "commit" /\ conflicts' = conflicts
    BY <1>5 DEF CommitReturns
  <2>2. call[c].error = 0 /\ call[c].reply.status = 0
    BY <2>1 DEF AnswerInv, FieldsAgree, NoReply
  <2>3. CASE call[c].row # None
    <3>1. /\ Finish(c, 200, call[c].row)
          /\ replays' = [replays EXCEPT ![call[c].instance] = @ + 1]
      BY <1>5, <2>3 DEF CommitReturns
    <3>2. /\ call'[c].reply.status = 200 /\ call'[c].instance = call[c].instance
          /\ call'[c].error = call[c].error
          /\ \A d \in Calls \ {c} : call'[d] = call[d]
      <4> DEFINE o == call[c].row
      <4>1. Finish(c, 200, o)
        BY <3>1
      <4> HIDE DEF o
      <4>2. call'[c].reply = [status |-> 200, order |-> o]
        BY <4>1, FinishAll
      <4>3. QED BY <4>1, <4>2, FinishAll
    <3>3. \A i \in Instances : \/ replays'[i] = replays[i]
                               \/ replays'[i] = replays[i] + 1 /\ i = call'[c].instance
      BY <3>1, <3>2 DEF TypeOK
    <3>4. QED BY <2>1, <2>2, <3>2, <3>3, OneCallCounts
  <2>4. CASE call[c].row = None
    BY <1>5, <2>1, <2>4, FinishAll, NothingCounted DEF CommitReturns
  <2>5. QED BY <2>3, <2>4
<1>6. CASE Rollback(c)
  BY <1>6, FinishAll, NothingCounted DEF Rollback, metricVars
<1>7. QED BY <1>1, <1>2, <1>3, <1>4, <1>5, <1>6 DEF Step

LEMMA FaultCounts ==
  ASSUME TypeOK, TypeOK', AnswerInv, MetricsInv, NEW c \in Calls, Fault(c)
  PROVE  MetricsInv'
<1>1. UNCHANGED metricVars /\ call[c].at \notin {"answered", "lost"}
  BY DEF Fault, ConnectFails, StatementFails, Disconnect, Connected, Querying, metricVars
<1>2. CASE ConnectFails(c) \/ Disconnect(c)
  BY <1>1, <1>2, FinishAll, NothingCounted DEF ConnectFails, Disconnect, metricVars
<1>3. CASE StatementFails(c)
  <2>1. Throw(c, 500) /\ call[c].at \notin {"commit", "rollback"}
    BY <1>3 DEF StatementFails
  <2>2. QED BY <1>1, <2>1, ThrowAll, NothingCounted DEF metricVars
<1>4. QED BY <1>2, <1>3 DEF Fault

\* The metrics of a process that dies start anew; what they had counted stays.
LEMMA CrashCounts ==
  ASSUME TypeOK, MetricsInv, NEW i \in Instances, Crash(i)
  PROVE  MetricsInv'
<1>1. \A d \in Calls : /\ call'[d].instance = call[d].instance
                       /\ call'[d].reply = call[d].reply /\ call'[d].error = call[d].error
  BY DEF Crash, TypeOK, CallType
<1>2. \A j \in Instances : Replayers(j)' = Replayers(j) /\ Conflicted(j)' = Conflicted(j)
  BY <1>1 DEF Replayers, Conflicted
<1>3. \A j \in Instances : /\ replays'[j] \in {0, replays[j]} /\ replays[j] \in Nat
                           /\ conflicts'[j] \in {0, conflicts[j]} /\ conflicts[j] \in Nat
  BY DEF Crash, TypeOK
<1>4. ASSUME NEW j \in Instances
      PROVE  /\ IsFiniteSet(Replayers(j)') /\ replays'[j] <= Cardinality(Replayers(j)')
             /\ IsFiniteSet(Conflicted(j)') /\ conflicts'[j] <= Cardinality(Conflicted(j)')
  <2>1. /\ Cardinality(Replayers(j)) \in Nat /\ replays[j] <= Cardinality(Replayers(j))
        /\ Cardinality(Conflicted(j)) \in Nat /\ conflicts[j] <= Cardinality(Conflicted(j))
    BY FS_CardinalityType DEF MetricsInv
  <2>2. /\ replays'[j] <= Cardinality(Replayers(j))
        /\ conflicts'[j] <= Cardinality(Conflicted(j))
    BY <1>3, <2>1
  <2>3. QED BY <1>2, <2>2 DEF MetricsInv
<1>5. QED BY <1>4 DEF MetricsInv

LEMMA NobodyCounts ==
  ASSUME MetricsInv, UNCHANGED <<call, metricVars>>
  PROVE  MetricsInv'
<1>1. \A i \in Instances : Replayers(i)' = Replayers(i) /\ Conflicted(i)' = Conflicted(i)
  BY DEF Replayers, Conflicted
<1>2. QED BY <1>1 DEF MetricsInv, metricVars

LEMMA ReceiveCounts ==
  ASSUME TypeOK, TypeOK', AnswerInv, MetricsInv, NEW c \in Calls, NEW i \in Instances,
         NEW h \in Headers \cup {NoKey}, NEW b \in Bodies, Receive(c, i, h, b)
  PROVE  MetricsInv'
<1>1. call[c].at = "start" /\ UNCHANGED metricVars
  BY DEF Receive
<1>2. \A d \in Calls \ {c} : call'[d] = call[d]
  BY DEF Receive, TypeOK
<1>3. QED BY <1>1, <1>2, NothingCounted DEF metricVars

\* No instance counts a replay or a conflict that did not happen.
THEOREM CountersNeverExceed == Spec => []MetricsNeverOvercount
<1>1. Init => MetricsInv
  <2> SUFFICES ASSUME Init, NEW i \in Instances
               PROVE  /\ IsFiniteSet(Replayers(i)) /\ replays[i] <= Cardinality(Replayers(i))
                      /\ IsFiniteSet(Conflicted(i))
                      /\ conflicts[i] <= Cardinality(Conflicted(i))
    BY DEF MetricsInv
  <2>1. Replayers(i) = {} /\ Conflicted(i) = {}
    BY DEF Init, NoCall, NoReply, Replayers, Conflicted
  <2>2. IsFiniteSet({}) /\ Cardinality({}) = 0
    BY FS_EmptySet
  <2>3. QED BY <2>1, <2>2 DEF Init
<1>2. TypeOK /\ TypeOK' /\ AnswerInv /\ MetricsInv /\ [Next]_vars => MetricsInv'
  <2> SUFFICES ASSUME TypeOK, TypeOK', AnswerInv, MetricsInv, [Next]_vars
               PROVE  MetricsInv'
    OBVIOUS
  <2>1. ASSUME NEW c \in Calls, Step(c) \/ Fault(c)
        PROVE  MetricsInv'
    BY <2>1, StepCounts, FaultCounts
  <2>2. ASSUME NEW c \in Calls, ServerStep(c)
        PROVE  MetricsInv'
    BY <2>2, NobodyCounts DEF ServerStep, ApplyCommit, AbortOrphan
  <2>3. ASSUME NEW c \in Calls, NEW i \in Instances, NEW h \in Headers \cup {NoKey},
               NEW b \in Bodies, Receive(c, i, h, b)
        PROVE  MetricsInv'
    BY <2>3, ReceiveCounts
  <2>4. ASSUME NEW i \in Instances, Crash(i)
        PROVE  MetricsInv'
    BY <2>4, CrashCounts
  <2>5. CASE Tick \/ UNCHANGED vars
    BY <2>5, NobodyCounts DEF Tick, vars, metricVars
  <2>6. QED BY <2>1, <2>2, <2>3, <2>4, <2>5 DEF Next
<1>3. MetricsInv => MetricsNeverOvercount
  BY DEF MetricsInv, MetricsNeverOvercount, Replayers, Conflicted
<1>4. QED BY <1>1, <1>2, <1>3, TypeCorrect, AnswersInvariant, PTL DEF Spec

-----------------------------------------------------------------------------
(* Waiting *)

\* Who waits for a lock holds none.
HoldsNone == \A c \in Calls : call[c].at = "lock" => \A k \in Keys : lock[k] # c

\* One call moves: it does not come to wait for a lock with one, and nobody else is
\* given a lock.
LEMMA OneCallHolds ==
  ASSUME HoldsNone, NEW c \in Calls,
         \A d \in Calls \ {c} : call'[d] = call[d],
         \A d \in Calls \ {c}, k \in Keys : lock'[k] = d => lock[k] = d,
         call'[c].at = "lock" => \A k \in Keys : lock'[k] # c
  PROVE  HoldsNone'
  BY DEF HoldsNone

\* Locks are only given back, and nobody comes to wait for one.
LEMMA NobodyHoldsMore ==
  ASSUME HoldsNone, \A d \in Calls : call'[d].at = "lock" => call[d].at = "lock",
         lock' = lock \/ \E c \in Calls : lock' = Unlock(c)
  PROVE  HoldsNone'
<1>1. \A d \in Calls, k \in Keys : lock'[k] = d => lock[k] = d
  BY OrderAssumption DEF Unlock
<1> QED BY <1>1 DEF HoldsNone

LEMMA StepHolds ==
  ASSUME IInv, HoldsNone, NEW c \in Calls, Step(c)
  PROVE  HoldsNone'
<1>1. TypeOK
  BY DEF IInv
<1>2. CASE Begin(c)
  <2>1. \A d \in Calls \ {c} : call'[d] = call[d]
    BY <1>1, <1>2, GotoAll DEF Begin
  <2>2. lock' = lock /\ \A k \in Keys : lock[k] # c
    <3>1. CallStands(c) /\ call[c].at = "begin"
      BY <1>2 DEF Begin, IInv
    <3>2. txn[c].state = "none"
      BY <3>1 DEF CallStands, HalvesAgree, NoTxn
    <3> QED BY <1>2, <3>1, <3>2 DEF Begin, CallStands, LockHeld
  <2> QED BY <2>1, <2>2, OneCallHolds
<1>3. CASE AcquireLock(c)
  <2>1. call'[c].at = "delete" /\ \A d \in Calls \ {c} : call'[d] = call[d]
    BY <1>1, <1>3, GotoAll DEF AcquireLock
  <2>2. \A d \in Calls \ {c}, k \in Keys : lock'[k] = d => lock[k] = d
    BY <1>1, <1>3 DEF AcquireLock, TypeOK
  <2> QED BY <2>1, <2>2, OneCallHolds
<1>4. CASE Connect(c) \/ DeleteExpired(c) \/ SelectNothing(c) \/ InsertOrder(c)
  <2>1. PICK p \in Phases \ {"lock"} : Goto(c, p)
    BY <1>4 DEF Connect, DeleteExpired, SelectNothing, InsertOrder, Phases
  <2>2. lock' = lock
    BY <1>4 DEF Connect, DeleteExpired, SelectNothing, InsertOrder, dbVars
  <2> QED BY <1>1, <2>1, <2>2, GotoAll, OneCallHolds
<1>5. CASE SelectConflict(c) \/ SelectReplay(c)
  <2>1. /\ call'[c].at # "lock" /\ lock' = lock
        /\ \A d \in Calls \ {c} : call'[d] = call[d]
    BY <1>1, <1>5 DEF SelectConflict, SelectReplay, TypeOK, CallType, dbVars
  <2> QED BY <2>1, OneCallHolds
<1>6. CASE InsertRecord(c)
  <2>1. CASE Goto(c, "commit") /\ UNCHANGED lock
    BY <1>1, <2>1, GotoAll, OneCallHolds
  <2>2. CASE Throw(c, 500)
    <3>1. call'[c].at # "lock" /\ \A d \in Calls \ {c} : call'[d] = call[d]
      BY <1>1, <2>2, ThrowAll
    <3>2. lock' = Unlock(c)
      BY <2>2 DEF Throw
    <3> QED BY <3>1, <3>2, NobodyHoldsMore
  <2> QED BY <1>6, <2>1, <2>2 DEF InsertRecord
<1>7. CASE CommitReturns(c) \/ Rollback(c)
  <2>1. call'[c].at # "lock" /\ \A d \in Calls \ {c} : call'[d] = call[d]
    BY <1>1, <1>7, FinishAll DEF CommitReturns, Rollback
  <2>2. lock' = lock \/ lock' = Unlock(c)
    BY <1>7 DEF CommitReturns, Rollback, dbVars
  <2> QED BY <2>1, <2>2, NobodyHoldsMore
<1> QED BY <1>2, <1>3, <1>4, <1>5, <1>6, <1>7 DEF Step

LEMMA OthersHold ==
  ASSUME TypeOK, HoldsNone,
         \/ \E c \in Calls : Fault(c) \/ ServerStep(c)
         \/ \E c \in Calls, i \in Instances, h \in Headers \cup {NoKey}, b \in Bodies :
              Receive(c, i, h, b)
         \/ \E i \in Instances : Crash(i)
         \/ Tick \/ UNCHANGED vars
  PROVE  HoldsNone'
<1>1. ASSUME NEW c \in Calls, Fault(c) \/ ServerStep(c)
      PROVE  HoldsNone'
  <2>1. CASE ConnectFails(c) \/ Disconnect(c)
    <3>1. call'[c].at # "lock" /\ \A d \in Calls \ {c} : call'[d] = call[d]
      BY <2>1, FinishAll DEF ConnectFails, Disconnect
    <3>2. lock' = lock
      BY <2>1 DEF ConnectFails, Disconnect, dbVars
    <3> QED BY <3>1, <3>2, NobodyHoldsMore
  <2>2. CASE StatementFails(c)
    <3>1. call'[c].at # "lock" /\ \A d \in Calls \ {c} : call'[d] = call[d]
      BY <2>2, ThrowAll DEF StatementFails
    <3>2. lock' = Unlock(c)
      BY <2>2 DEF StatementFails, Throw
    <3> QED BY <3>1, <3>2, NobodyHoldsMore
  <2>3. CASE ApplyCommit(c) \/ AbortOrphan(c)
    BY <2>3, NobodyHoldsMore DEF ApplyCommit, AbortOrphan
  <2> QED BY <1>1, <2>1, <2>2, <2>3 DEF Fault, ServerStep
<1>2. ASSUME NEW c \in Calls, NEW i \in Instances, NEW h \in Headers \cup {NoKey},
             NEW b \in Bodies, Receive(c, i, h, b)
      PROVE  HoldsNone'
  <2>1. call'[c].at # "lock" /\ \A d \in Calls \ {c} : call'[d] = call[d]
    BY <1>2 DEF Receive, TypeOK
  <2>2. lock' = lock
    BY <1>2 DEF Receive, dbVars
  <2> QED BY <2>1, <2>2, NobodyHoldsMore
<1>3. ASSUME NEW i \in Instances, Crash(i)
      PROVE  HoldsNone'
  <2>1. \A d \in Calls : call'[d].at = "lock" => call[d].at = "lock"
    BY <1>3 DEF Crash, TypeOK, CallType
  <2>2. lock' = lock
    BY <1>3 DEF Crash, dbVars
  <2> QED BY <2>1, <2>2, NobodyHoldsMore
<1>4. CASE Tick \/ UNCHANGED vars
  BY <1>4, NobodyHoldsMore DEF Tick, vars, dbVars
<1> QED BY <1>1, <1>2, <1>3, <1>4

\* Who holds a lock goes on, or the server ends the transaction.
LEMMA HolderGoesOn ==
  ASSUME IInv, CheckStaysGood, HoldsNone, NEW k \in Keys, lock[k] # None
  PROVE  lock[k] \in Calls /\ GoesOn(lock[k])
<1> DEFINE d == lock[k]
<1>1. d \in Calls /\ call[d] \in CallType /\ CallStands(d)
  BY DEF IInv, TypeOK
<1> HIDE DEF d
<1>2. lock[k] = d
  BY DEF d
<1>3. txn[d].state \in {"open", "committing"} /\ call[d].at # "lock"
  BY <1>1, <1>2 DEF CallStands, LockHeld, HoldsNone
<1>4. call[d].at \notin {"start", "connect", "begin"}
  BY <1>1, <1>3 DEF CallStands, HalvesAgree, NoTxn
<1>5. call[d].at \in {"delete", "select", "insertOrder", "rollback"} => GoesOn(d)
  BY DEF GoesOn
<1>6. ASSUME call[d].at = "insertRecord" PROVE GoesOn(d)
  <2>1. Keyed(d) /\ txn[d].state = "open"
    BY <1>1, <1>6 DEF CallStands, HalvesAgree
  <2> QED BY <1>1, <1>6, <2>1 DEF CheckStaysGood, GoesOn
<1>7. call[d].at = "commit" => GoesOn(d)
  BY <1>1 DEF CallStands, HalvesAgree, GoesOn
<1>8. call[d].at \in {"answered", "lost"} => GoesOn(d)
  BY <1>3 DEF GoesOn, Orphaned
<1>9. GoesOn(d)
  BY <1>1, <1>3, <1>4, <1>5, <1>6, <1>7, <1>8 DEF CallType, Phases
<1> QED BY <1>1, <1>9 DEF d

\* Who awaits a query goes on, or waits for a lock whose holder goes on.
LEMMA QueryGoesOn ==
  ASSUME IInv, CheckStaysGood, HoldsNone, NEW c \in Calls, Connected(c)
  PROVE  GoesOn(c) \/ (WaitsFor(c) # {} /\ \A e \in WaitsFor(c) : GoesOn(e))
<1>1. CallStands(c)
  BY DEF IInv
<1>2. call[c].at \in {"begin", "delete", "select", "insertOrder", "rollback"} => GoesOn(c)
  BY DEF GoesOn
<1>3. call[c].at = "insertRecord" => GoesOn(c)
  <2>1. SUFFICES ASSUME call[c].at = "insertRecord" PROVE GoesOn(c)
    OBVIOUS
  <2>2. Keyed(c) /\ txn[c].state = "open"
    BY <1>1, <2>1 DEF CallStands, HalvesAgree
  <2> QED BY <2>1, <2>2 DEF CheckStaysGood, GoesOn
<1>4. call[c].at = "commit" => GoesOn(c)
  BY <1>1 DEF CallStands, HalvesAgree, GoesOn
<1>5. ASSUME call[c].at = "lock", ~GoesOn(c)
      PROVE  WaitsFor(c) # {} /\ \A e \in WaitsFor(c) : GoesOn(e)
  <2>1. call[c].key \in Keys /\ WaitsFor(c) = {lock[call[c].key]} \ {None}
    BY <1>1, <1>5 DEF CallStands, HalvesAgree, Keyed, WaitsFor
  <2>2. WaitsFor(c) # {}
    BY <1>5 DEF GoesOn
  <2>3. lock[call[c].key] # None => GoesOn(lock[call[c].key])
    BY <2>1, HolderGoesOn
  <2> QED BY <2>1, <2>2, <2>3
<1> QED BY <1>2, <1>3, <1>4, <1>5 DEF Connected, Querying

\* Calls never wait for one another in a circle, whatever the size of the pools, the
\* number of instances and of calls for one key, and whoever fails, loses its
\* connection or crashes (postgres-idempotent-order-service.ts:87-143).
THEOREM NobodyWaitsInVain == Spec => []NoCircularWait
<1>1. Init => HoldsNone
  BY DEF Init, NoCall, HoldsNone
<1>2. IInv /\ HoldsNone /\ [Next]_vars => HoldsNone'
  <2>1. SUFFICES ASSUME IInv, HoldsNone, [Next]_vars PROVE HoldsNone'
    OBVIOUS
  <2>2. TypeOK
    BY <2>1 DEF IInv
  <2> QED BY <2>1, <2>2, StepHolds, OthersHold DEF Next
<1>3. IInv /\ CheckStaysGood /\ PoolAccounted /\ HoldsNone => NoCircularWait
  <2>1. SUFFICES ASSUME IInv, CheckStaysGood, PoolAccounted, HoldsNone, NEW c \in Calls,
                        call[c].at \notin {"start", "answered", "lost"}, ~GoesOn(c)
                 PROVE  /\ WaitsFor(c) # {}
                        /\ \A d \in WaitsFor(c) :
                             \/ GoesOn(d)
                             \/ WaitsFor(d) # {} /\ \A e \in WaitsFor(d) : GoesOn(e)
    BY DEF NoCircularWait, HoldsNone
  <2>2. CASE Connected(c)
    BY <2>1, <2>2, QueryGoesOn
  <2>3. CASE call[c].at = "connect"
    <3>1. WaitsFor(c) = {d \in leased : call[d].instance = call[c].instance}
      BY <2>3 DEF WaitsFor
    <3>2. WaitsFor(c) # {}
      <4>1. Cardinality({}) = 0 /\ 0 < PoolMax
        BY FS_EmptySet, OrderAssumption
      <4> QED BY <2>1, <2>3, <4>1 DEF GoesOn
    <3>3. \A d \in WaitsFor(c) : d \in Calls /\ Connected(d)
      BY <2>1, <3>1 DEF PoolAccounted
    <3> QED BY <2>1, <3>2, <3>3, QueryGoesOn
  <2>4. call[c].at \in Phases
    BY <2>1 DEF IInv, TypeOK, CallType
  <2> QED BY <2>1, <2>2, <2>3, <2>4 DEF Connected, Querying, Phases
<1> QED BY <1>1, <1>2, <1>3, Invariance, NoLateCollision, NoConnectionLeaks, PTL DEF Spec
=============================================================================
