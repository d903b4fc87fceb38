------------------------- MODULE OrderServiceProofs -------------------------
(***************************************************************************)
(* Proofs about OrderService, for every set of calls, instances, keys and   *)
(* inputs, every pool size and every retention.                            *)
(***************************************************************************)
EXTENDS OrderService, TLAPS

-----------------------------------------------------------------------------
(* Types *)

LEMMA InitType == Init => TypeOK
  BY OrderAssumption
  DEF Init, TypeOK, CallType, TxnType, RecordType, NoCall, NoTxn, NoRecord,
      Replies, NoReply, Phases

LEMMA GotoType ==
  ASSUME TypeOK, NEW c \in Calls, NEW phase \in Phases, Goto(c, phase)
  PROVE  call' \in [Calls -> CallType]
  BY DEF TypeOK, Goto, CallType

LEMMA UnlockType ==
  ASSUME TypeOK, NEW c \in Calls
  PROVE  Unlock(c) \in [Keys -> Calls \cup {None}]
  BY DEF TypeOK, Unlock

LEMMA FinishType ==
  ASSUME TypeOK, NEW c \in Calls, NEW s \in {0, 200, 201, 400, 409, 500},
         NEW o \in Calls \cup {None}, Finish(c, s, o)
  PROVE  call' \in [Calls -> CallType] /\ leased' \subseteq Calls
<1>1. [status |-> s, order |-> o] \in Replies
  BY DEF Replies
<1>2. call' \in [Calls -> CallType]
  <2> DEFINE moved == [call EXCEPT ![c].at = "answered"]
  <2>1. moved \in [Calls -> CallType]
    BY DEF TypeOK, CallType, Phases
  <2>2. [moved EXCEPT ![c].reply = [status |-> s, order |-> o]] \in [Calls -> CallType]
    <3> HIDE DEF moved
    <3>1. QED BY <2>1, <1>1 DEF CallType
  <2>3. QED BY <2>2 DEF Finish
<1>3. QED BY <1>2 DEF TypeOK, Finish

LEMMA ThrowType ==
  ASSUME TypeOK, NEW c \in Calls, Throw(c, 500)
  PROVE  /\ call' \in [Calls -> CallType]
         /\ txn' \in [Calls -> TxnType]
         /\ lock' \in [Keys -> Calls \cup {None}]
<1>1. call' \in [Calls -> CallType]
  <2> DEFINE moved == [call EXCEPT ![c].at = "rollback"]
  <2>1. moved \in [Calls -> CallType]
    BY DEF TypeOK, CallType, Phases
  <2>2. [moved EXCEPT ![c].error = 500] \in [Calls -> CallType]
    <3> HIDE DEF moved
    <3>1. QED BY <2>1 DEF CallType
  <2>3. QED BY <2>2 DEF Throw
<1>2. txn' \in [Calls -> TxnType]
  BY DEF TypeOK, Throw, TxnType
<1>3. QED BY <1>1, <1>2, UnlockType DEF Throw

LEMMA ReceiveType ==
  ASSUME TypeOK, NEW c \in Calls, NEW i \in Instances,
         NEW h \in Headers \cup {NoKey}, NEW b \in Bodies, Receive(c, i, h, b)
  PROVE  TypeOK'
<1> DEFINE valid == BodyValid(b) /\ KeyValid(h)
           phase == IF valid THEN "connect" ELSE "answered"
           told == IF valid THEN NoReply ELSE [status |-> 400, order |-> None]
           received == [at |-> phase, instance |-> i, key |-> h, input |-> b,
                        row |-> None, error |-> 0, reply |-> told]
<1>1. phase \in Phases
  BY DEF Phases
<1>2. told \in Replies
  BY DEF Replies, NoReply
<1>3. received \in CallType
  <2> HIDE DEF phase, told
  <2>1. QED BY <1>1, <1>2 DEF CallType
<1>4. call' = [call EXCEPT ![c] = received]
  BY DEF Receive
<1>5. call' \in [Calls -> CallType]
  <2> HIDE DEF received
  <2>1. QED BY <1>3, <1>4 DEF TypeOK
<1>6. QED BY <1>5 DEF Receive, TypeOK, dbVars, metricVars

LEMMA StepType ==
  ASSUME IInv, NEW c \in Calls, Step(c)
  PROVE  TypeOK'
<1>0. TypeOK
  BY DEF IInv
<1>1. CASE Connect(c)
  <2>1. call' \in [Calls -> CallType]
    BY <1>0, <1>1, GotoType DEF Connect, Phases
  <2>2. QED BY <1>0, <1>1, <2>1 DEF Connect, TypeOK, dbVars, metricVars
<1>2. CASE Begin(c)
  <2>1. call' \in [Calls -> CallType]
    BY <1>0, <1>2, GotoType DEF Begin, Phases
  <2>2. txn' \in [Calls -> TxnType]
    BY <1>0, <1>2 DEF Begin, TxnType, TypeOK
  <2>3. QED BY <1>0, <1>2, <2>1, <2>2 DEF Begin, TypeOK, metricVars
<1>3. CASE AcquireLock(c)
  <2>1. call' \in [Calls -> CallType]
    BY <1>0, <1>3, GotoType DEF AcquireLock, Phases
  <2>2. lock' \in [Keys -> Calls \cup {None}]
    BY <1>0, <1>3 DEF AcquireLock, TypeOK
  <2>3. QED BY <1>0, <1>3, <2>1, <2>2 DEF AcquireLock, TypeOK, metricVars
<1>4. CASE DeleteExpired(c)
  <2>1. call' \in [Calls -> CallType]
    BY <1>0, <1>4, GotoType DEF DeleteExpired, Phases
  <2>2. txn' \in [Calls -> TxnType]
    BY <1>0, <1>4 DEF DeleteExpired, TxnType, TypeOK
  <2>3. QED BY <1>0, <1>4, <2>1, <2>2 DEF DeleteExpired, TypeOK, metricVars
<1>5. CASE SelectConflict(c)
  <2>1. call' \in [Calls -> CallType]
    <3> DEFINE moved == [call EXCEPT ![c].at = "rollback"]
    <3>1. moved \in [Calls -> CallType]
      BY <1>0 DEF TypeOK, CallType, Phases
    <3>2. [moved EXCEPT ![c].error = 409] \in [Calls -> CallType]
      <4> HIDE DEF moved
      <4>1. QED BY <3>1 DEF CallType
    <3>3. QED BY <1>5, <3>2 DEF SelectConflict
  <2>2. conflicts' \in [Instances -> Nat]
    <3> DEFINE i == call[c].instance
    <3>1. conflicts' = [conflicts EXCEPT ![i] = conflicts[i] + 1]
      BY <1>5 DEF SelectConflict
    <3>2. i \in Instances => conflicts[i] + 1 \in Nat
      BY <1>0 DEF TypeOK
    <3>3. QED BY <1>0, <3>1, <3>2 DEF TypeOK
  <2>3. QED BY <1>0, <1>5, <2>1, <2>2 DEF SelectConflict, TypeOK, dbVars
<1>6. CASE SelectReplay(c)
  <2>1. call[c].key \in Keys
    BY <1>6 DEF SelectReplay, IInv, CallStands, HalvesAgree, Keyed
  <2>2. VisibleRecord(c).order \in Calls
    BY <1>0, <1>6, <2>1 DEF SelectReplay, VisibleRecord, RecordType, TypeOK
  <2>3. call' \in [Calls -> CallType]
    <3> DEFINE moved == [call EXCEPT ![c].at = "commit"]
    <3>1. moved \in [Calls -> CallType]
      BY <1>0 DEF TypeOK, CallType, Phases
    <3>2. [moved EXCEPT ![c].row = VisibleRecord(c).order] \in [Calls -> CallType]
      <4> HIDE DEF moved
      <4>1. QED BY <3>1, <2>2 DEF CallType
    <3>3. QED BY <1>6, <3>2 DEF SelectReplay
  <2>4. txn' \in [Calls -> TxnType]
    BY <1>0, <1>6 DEF SelectReplay, TxnType, TypeOK
  <2>5. QED BY <1>0, <1>6, <2>3, <2>4 DEF SelectReplay, TypeOK, metricVars
<1>7. CASE SelectNothing(c)
  <2>1. call' \in [Calls -> CallType]
    BY <1>0, <1>7, GotoType DEF SelectNothing, Phases
  <2>2. QED BY <1>0, <1>7, <2>1 DEF SelectNothing, TypeOK, dbVars, metricVars
<1>8. CASE InsertOrder(c)
  <2>1. call' \in [Calls -> CallType]
    BY <1>0, <1>8, GotoType DEF InsertOrder, Phases
  <2>2. txn' \in [Calls -> TxnType]
    <3> DEFINE placed == [txn EXCEPT ![c].places = TRUE]
               state == IF Keyed(c) THEN placed[c].state ELSE "committing"
    <3>1. placed \in [Calls -> TxnType]
      BY <1>0 DEF TxnType, TypeOK
    <3>2. [placed EXCEPT ![c].state = state] \in [Calls -> TxnType]
      <4> HIDE DEF placed
      <4>1. QED BY <3>1 DEF TxnType
    <3>3. QED BY <1>8, <3>2 DEF InsertOrder
  <2>3. QED BY <1>0, <1>8, <2>1, <2>2 DEF InsertOrder, TypeOK, metricVars
<1>9. CASE InsertRecord(c)
  <2>1. CASE VisibleRecord(c) = NoRecord
    <3>1. call' \in [Calls -> CallType]
      BY <1>0, <1>9, <2>1, GotoType DEF InsertRecord, Phases
    <3>2. txn' \in [Calls -> TxnType]
      <4>1. [txn EXCEPT ![c].binds = TRUE, ![c].state = "committing"]
              \in [Calls -> TxnType]
        BY <1>0 DEF TxnType, TypeOK
      <4>2. QED BY <1>9, <2>1, <4>1 DEF InsertRecord
    <3>3. QED BY <1>0, <1>9, <2>1, <3>1, <3>2 DEF InsertRecord, TypeOK, metricVars
  <2>2. CASE VisibleRecord(c) # NoRecord
    BY <1>0, <1>9, <2>2, ThrowType DEF InsertRecord, TypeOK, metricVars
  <2>3. QED BY <2>1, <2>2
<1>10. CASE CommitReturns(c)
  <2>1. call[c].row \in Calls \cup {None}
    BY <1>0 DEF CallType, TypeOK
  <2>2. call' \in [Calls -> CallType] /\ leased' \subseteq Calls
    BY <1>0, <1>10, <2>1, FinishType DEF CommitReturns
  <2>3. replays' \in [Instances -> Nat]
    BY <1>0, <1>10 DEF CommitReturns, TypeOK
  <2>4. QED BY <1>0, <1>10, <2>2, <2>3 DEF CommitReturns, TypeOK, dbVars
<1>11. CASE Rollback(c)
  <2>1. call[c].error \in {0, 409, 500}
    BY <1>0 DEF CallType, TypeOK
  <2>2. call' \in [Calls -> CallType] /\ leased' \subseteq Calls
    BY <1>0, <1>11, <2>1, FinishType DEF Rollback
  <2>3. txn' \in [Calls -> TxnType]
    BY <1>0, <1>11 DEF Rollback, TxnType, TypeOK
  <2>4. QED BY <1>0, <1>11, <2>2, <2>3, UnlockType DEF Rollback, TypeOK, metricVars
<1>12. QED
  BY <1>1, <1>2, <1>3, <1>4, <1>5, <1>6, <1>7, <1>8, <1>9, <1>10, <1>11 DEF Step

LEMMA FaultType ==
  ASSUME TypeOK, NEW c \in Calls, Fault(c)
  PROVE  TypeOK'
<1>1. CASE ConnectFails(c)
  BY <1>1, FinishType DEF ConnectFails, TypeOK, dbVars, metricVars
<1>2. CASE StatementFails(c)
  BY <1>2, ThrowType DEF StatementFails, TypeOK, metricVars
<1>3. CASE Disconnect(c)
  BY <1>3, FinishType DEF Disconnect, TypeOK, dbVars, metricVars
<1>4. QED BY <1>1, <1>2, <1>3 DEF Fault

LEMMA ServerStepType ==
  ASSUME IInv, NEW c \in Calls, ServerStep(c)
  PROVE  TypeOK'
<1>0. TypeOK
  BY DEF IInv
<1>1. CASE ApplyCommit(c)
  <2>1. txn' \in [Calls -> TxnType]
    BY <1>0, <1>1 DEF ApplyCommit, TxnType, TypeOK
  <2>2. orders' \subseteq Calls
    BY <1>0, <1>1 DEF ApplyCommit, TypeOK
  <2>3. records' \in [Keys -> RecordType]
    <3>1. txn[c].binds => call[c].input \in Inputs
      BY DEF IInv, CallStands, WritesAgree
    <3>2. txn[c].now + Retention \in Nat
      BY <1>0, OrderAssumption DEF TypeOK, TxnType
    <3>3. call[c].key \in Keys => VisibleRecord(c) \in RecordType
      BY <1>0 DEF VisibleRecord, RecordType, TypeOK
    <3>4. QED BY <1>0, <1>1, <3>1, <3>2, <3>3 DEF ApplyCommit, RecordType, TypeOK
  <2>4. QED BY <1>0, <1>1, <2>1, <2>2, <2>3, UnlockType DEF ApplyCommit, TypeOK, metricVars
<1>2. CASE AbortOrphan(c)
  <2>1. txn' \in [Calls -> TxnType]
    BY <1>0, <1>2 DEF AbortOrphan, TxnType, TypeOK
  <2>2. QED BY <1>0, <1>2, <2>1, UnlockType DEF AbortOrphan, TypeOK, metricVars
<1>3. QED BY <1>1, <1>2 DEF ServerStep

LEMMA CrashType ==
  ASSUME TypeOK, NEW i \in Instances, Crash(i)
  PROVE  TypeOK'
<1>1. \A c \in Calls : [call[c] EXCEPT !.at = "lost"] \in CallType
  BY DEF TypeOK, CallType, Phases
<1>2. call' \in [Calls -> CallType]
  BY <1>1 DEF TypeOK, Crash
<1>3. QED BY <1>2 DEF TypeOK, Crash, dbVars

-----------------------------------------------------------------------------
(* What a step leaves alone *)

\* A call whose two halves, order and lock are untouched still stands.
LEMMA UntouchedStands ==
  ASSUME NEW d \in Calls, CallStands(d),
         call'[d] = call[d], txn'[d] = txn[d], records' = records,
         d \in orders' <=> d \in orders,
         \A k \in Keys : lock'[k] = d <=> lock[k] = d
  PROVE  CallStands(d)'
<1>1. Keyed(d)' = Keyed(d)
  BY DEF Keyed
<1>2. Active(d)' = Active(d)
  BY <1>1 DEF Active
<1>3. HalvesAgree(d)' /\ WritesAgree(d)'
  BY <1>1 DEF CallStands, HalvesAgree, WritesAgree, Keyed
<1>4. LockHeld(d)'
  BY <1>2 DEF CallStands, LockHeld, Active, Keyed
<1>5. FindingsStand(d)'
  BY <1>2 DEF CallStands, FindingsStand, VisibleRecord
<1>6. QED BY <1>3, <1>4, <1>5 DEF CallStands

\* The tables are right as long as rows and what they refer to stay.
LEMMA TablesStand ==
  ASSUME IInv, orders' = orders, records' = records,
         \A d \in Calls : d \in orders => /\ call'[d].key = call[d].key
                                         /\ call'[d].input = call[d].input
                                         /\ txn'[d].now = txn[d].now
  PROVE  OrdersAreBound' /\ OneOrderPerWindow'
<1>0. orders \subseteq Calls
  BY DEF IInv, TypeOK
<1>1. \A k \in Keys : OrdersOf(k)' = OrdersOf(k)
  BY <1>0 DEF OrdersOf
<1>2. \A k \in Keys : OrdersOf(k) \subseteq orders
  BY DEF OrdersOf
<1>3. OrdersAreBound'
  BY <1>0, <1>1, <1>2 DEF IInv, OrdersAreBound
<1>4. OneOrderPerWindow'
  BY <1>0, <1>1, <1>2 DEF IInv, OneOrderPerWindow
<1>5. QED BY <1>3, <1>4

LEMMA GotoFields ==
  ASSUME TypeOK, NEW c \in Calls, NEW p, Goto(c, p)
  PROVE  /\ call'[c].at = p
         /\ \A d \in Calls : /\ d # c => call'[d] = call[d]
                             /\ call'[d].key = call[d].key
                             /\ call'[d].input = call[d].input
  BY DEF Goto, TypeOK, CallType

LEMMA FinishFields ==
  ASSUME TypeOK, NEW c \in Calls, NEW s, NEW o, Finish(c, s, o)
  PROVE  /\ call'[c].at = "answered"
         /\ \A d \in Calls : /\ d # c => call'[d] = call[d]
                             /\ call'[d].key = call[d].key
                             /\ call'[d].input = call[d].input
  BY DEF Finish, TypeOK, CallType

LEMMA ThrowFields ==
  ASSUME TypeOK, NEW c \in Calls, NEW e, Throw(c, e)
  PROVE  /\ call'[c].at = "rollback"
         /\ txn'[c].state = "aborted"
         /\ txn'[c].places = txn[c].places
         /\ txn'[c].binds = txn[c].binds
         /\ \A d \in Calls : /\ d # c => call'[d] = call[d] /\ txn'[d] = txn[d]
                             /\ call'[d].key = call[d].key
                             /\ call'[d].input = call[d].input
                             /\ txn'[d].now = txn[d].now
<1>1. /\ call'[c].at = "rollback"
      /\ \A d \in Calls : /\ d # c => call'[d] = call[d]
                          /\ call'[d].key = call[d].key
                          /\ call'[d].input = call[d].input
  BY DEF Throw, TypeOK, CallType
<1>2. /\ txn'[c].state = "aborted"
      /\ txn'[c].places = txn[c].places
      /\ txn'[c].binds = txn[c].binds
      /\ \A d \in Calls : /\ d # c => txn'[d] = txn[d]
                          /\ txn'[d].now = txn[d].now
  BY DEF Throw, TypeOK, TxnType
<1>3. QED BY <1>1, <1>2

LEMMA UnlockOthers ==
  ASSUME NEW c \in Calls, lock' = Unlock(c), None \notin Calls
  PROVE  /\ \A d \in Calls \ {c}, k \in Keys : lock'[k] = d <=> lock[k] = d
         /\ \A k \in Keys : lock'[k] # c
  BY DEF Unlock

\* A step of one call that changes no table keeps the invariant if the call
\* itself still stands.
LEMMA OneCallMoves ==
  ASSUME IInv, TypeOK', NEW c \in Calls, CallStands(c)',
         orders' = orders, records' = records,
         \A d \in Calls \ {c} : call'[d] = call[d] /\ txn'[d] = txn[d],
         c \in orders => /\ call'[c].key = call[c].key
                        /\ call'[c].input = call[c].input
                        /\ txn'[c].now = txn[c].now,
         \A d \in Calls \ {c}, k \in Keys : lock'[k] = d <=> lock[k] = d
  PROVE  IInv'
<1>1. ASSUME NEW d \in Calls \ {c}
      PROVE  CallStands(d)'
  <2>1. CallStands(d) /\ call'[d] = call[d] /\ txn'[d] = txn[d]
    BY DEF IInv
  <2>2. QED BY <2>1, UntouchedStands
<1>2. OrdersAreBound' /\ OneOrderPerWindow'
  <2>1. \A d \in Calls : d \in orders => /\ call'[d].key = call[d].key
                                      /\ call'[d].input = call[d].input
                                      /\ txn'[d].now = txn[d].now
    OBVIOUS
  <2>2. QED BY <2>1, TablesStand
<1>3. QED BY <1>1, <1>2 DEF IInv

-----------------------------------------------------------------------------
(* The steps of one call *)

LEMMA ConnectStep ==
  ASSUME IInv, NEW c \in Calls, Connect(c), TypeOK'
  PROVE  IInv'
<1>1. /\ call'[c].at = "begin"
      /\ \A d \in Calls : /\ d # c => call'[d] = call[d]
                          /\ call'[d].key = call[d].key
                          /\ call'[d].input = call[d].input
  BY GotoFields DEF IInv, Connect
<1>2. UNCHANGED <<txn, lock, orders, records>>
  BY DEF Connect, dbVars
<1>3. CallStands(c)
  BY DEF IInv
<1>4. CallStands(c)'
  BY <1>1, <1>2, <1>3
  DEF Connect, CallStands, HalvesAgree, WritesAgree, LockHeld, FindingsStand,
      Active, Keyed, VisibleRecord, NoTxn
<1>5. QED BY <1>1, <1>2, <1>4, OneCallMoves

LEMMA SelectNothingStep ==
  ASSUME IInv, NEW c \in Calls, SelectNothing(c), TypeOK'
  PROVE  IInv'
<1>1. /\ call'[c].at = "insertOrder"
      /\ \A d \in Calls : /\ d # c => call'[d] = call[d]
                          /\ call'[d].key = call[d].key
                          /\ call'[d].input = call[d].input
  BY GotoFields DEF IInv, SelectNothing
<1>2. UNCHANGED <<txn, lock, orders, records>>
  BY DEF SelectNothing, dbVars
<1>3. CallStands(c)
  BY DEF IInv
<1>4. CallStands(c)'
  BY <1>1, <1>2, <1>3
  DEF SelectNothing, CallStands, HalvesAgree, WritesAgree, LockHeld, FindingsStand,
      Active, Keyed, VisibleRecord
<1>5. QED BY <1>1, <1>2, <1>4, OneCallMoves

LEMMA ConnectFailsStep ==
  ASSUME IInv, NEW c \in Calls, ConnectFails(c), TypeOK'
  PROVE  IInv'
<1>1. /\ call'[c].at = "answered"
      /\ \A d \in Calls : /\ d # c => call'[d] = call[d]
                          /\ call'[d].key = call[d].key
                          /\ call'[d].input = call[d].input
  BY FinishFields DEF IInv, ConnectFails
<1>2. UNCHANGED <<txn, lock, orders, records>>
  BY DEF ConnectFails, dbVars
<1>3. CallStands(c)
  BY DEF IInv
<1>4. CallStands(c)'
  BY <1>1, <1>2, <1>3
  DEF ConnectFails, CallStands, HalvesAgree, WritesAgree, LockHeld, FindingsStand,
      Active, Keyed, VisibleRecord, NoTxn
<1>5. QED BY <1>1, <1>2, <1>4, OneCallMoves

LEMMA DisconnectStep ==
  ASSUME IInv, NEW c \in Calls, Disconnect(c), TypeOK'
  PROVE  IInv'
<1>1. /\ call'[c].at = "answered"
      /\ \A d \in Calls : /\ d # c => call'[d] = call[d]
                          /\ call'[d].key = call[d].key
                          /\ call'[d].input = call[d].input
  BY FinishFields DEF IInv, Disconnect
<1>2. UNCHANGED <<txn, lock, orders, records>>
  BY DEF Disconnect, dbVars
<1>3. CallStands(c)
  BY DEF IInv
<1>4. CallStands(c)'
  BY <1>1, <1>2, <1>3
  DEF Disconnect, CallStands, HalvesAgree, WritesAgree, LockHeld, FindingsStand,
      Active, Keyed, VisibleRecord, Connected, Querying
<1>5. QED BY <1>1, <1>2, <1>4, OneCallMoves

LEMMA CommitReturnsStep ==
  ASSUME IInv, NEW c \in Calls, CommitReturns(c), TypeOK'
  PROVE  IInv'
<1>1. /\ call'[c].at = "answered"
      /\ \A d \in Calls : /\ d # c => call'[d] = call[d]
                          /\ call'[d].key = call[d].key
                          /\ call'[d].input = call[d].input
  BY FinishFields DEF IInv, CommitReturns
<1>2. UNCHANGED <<txn, lock, orders, records>>
  BY DEF CommitReturns, dbVars
<1>3. CallStands(c)
  BY DEF IInv
<1>4. CallStands(c)'
  BY <1>1, <1>2, <1>3
  DEF CommitReturns, CallStands, HalvesAgree, WritesAgree, LockHeld, FindingsStand,
      Active, Keyed, VisibleRecord
<1>5. QED BY <1>1, <1>2, <1>4, OneCallMoves

LEMMA SelectConflictStep ==
  ASSUME IInv, NEW c \in Calls, SelectConflict(c), TypeOK'
  PROVE  IInv'
<1>1. /\ call'[c].at = "rollback"
      /\ \A d \in Calls : /\ d # c => call'[d] = call[d]
                          /\ call'[d].key = call[d].key
                          /\ call'[d].input = call[d].input
  BY DEF IInv, SelectConflict, TypeOK, CallType
<1>2. UNCHANGED <<txn, lock, orders, records>>
  BY DEF SelectConflict, dbVars
<1>3. CallStands(c)
  BY DEF IInv
<1>4. CallStands(c)'
  BY <1>1, <1>2, <1>3
  DEF SelectConflict, CallStands, HalvesAgree, WritesAgree, LockHeld, FindingsStand,
      Active, Keyed, VisibleRecord
<1>5. QED BY <1>1, <1>2, <1>4, OneCallMoves

LEMMA BeginStep ==
  ASSUME IInv, NEW c \in Calls, Begin(c), TypeOK'
  PROVE  IInv'
<1>1. /\ call'[c].at = IF Keyed(c) THEN "lock" ELSE "insertOrder"
      /\ \A d \in Calls : /\ d # c => call'[d] = call[d]
                          /\ call'[d].key = call[d].key
                          /\ call'[d].input = call[d].input
  BY GotoFields DEF IInv, Begin
<1>2. /\ txn'[c].state = "open"
      /\ txn'[c].deletes = txn[c].deletes
      /\ txn'[c].places = txn[c].places
      /\ txn'[c].binds = txn[c].binds
      /\ \A d \in Calls : d # c => txn'[d] = txn[d]
  BY DEF IInv, Begin, TypeOK, TxnType
<1>3. UNCHANGED <<lock, orders, records>>
  BY DEF Begin
<1>4. CallStands(c) /\ txn[c] \in TxnType
  BY DEF IInv, TypeOK
<1>5. CallStands(c)'
  BY <1>1, <1>2, <1>3, <1>4
  DEF Begin, CallStands, HalvesAgree, WritesAgree, LockHeld, FindingsStand,
      Active, Keyed, VisibleRecord, NoTxn
<1>6. c \in orders => txn'[c].now = txn[c].now
  BY <1>2, <1>4 DEF Begin, CallStands, HalvesAgree, NoTxn
<1>7. QED BY <1>1, <1>2, <1>3, <1>5, <1>6, OneCallMoves

LEMMA DeleteExpiredStep ==
  ASSUME IInv, NEW c \in Calls, DeleteExpired(c), TypeOK'
  PROVE  IInv'
<1>1. /\ call'[c].at = "select"
      /\ \A d \in Calls : /\ d # c => call'[d] = call[d]
                          /\ call'[d].key = call[d].key
                          /\ call'[d].input = call[d].input
  BY GotoFields DEF IInv, DeleteExpired
<1>2. /\ txn'[c].state = txn[c].state
      /\ txn'[c].now = txn[c].now
      /\ txn'[c].deletes = (/\ records[call[c].key] # NoRecord
                            /\ records[call[c].key].expires <= txn[c].now)
      /\ txn'[c].places = txn[c].places
      /\ txn'[c].binds = txn[c].binds
      /\ \A d \in Calls : d # c => txn'[d] = txn[d]
  BY DEF IInv, DeleteExpired, TypeOK, TxnType
<1>3. UNCHANGED <<lock, orders, records>>
  BY DEF DeleteExpired
<1>4. CallStands(c) /\ txn[c] \in TxnType
  BY DEF IInv, TypeOK
<1>5. CallStands(c)'
  <2>1. Keyed(c)' = Keyed(c) /\ call[c].at = "delete"
    BY <1>1 DEF DeleteExpired, Keyed
  <2>2. HalvesAgree(c)'
    BY <1>1, <1>2, <1>3, <1>4, <2>1 DEF CallStands, HalvesAgree
  <2>3. WritesAgree(c)'
    BY <1>1, <1>2, <1>3, <1>4, <2>1 DEF CallStands, HalvesAgree, WritesAgree
  <2>4. LockHeld(c)'
    BY <1>1, <1>2, <1>3, <1>4, <2>1 DEF CallStands, HalvesAgree, LockHeld, Active
  <2>5. FindingsStand(c)'
    BY <1>1, <1>2, <1>3, <1>4, <2>1
    DEF CallStands, HalvesAgree, WritesAgree, FindingsStand, Active, VisibleRecord
  <2>6. QED BY <2>2, <2>3, <2>4, <2>5 DEF CallStands
<1>6. c \in orders => txn'[c].now = txn[c].now
  BY <1>2, <1>4 DEF DeleteExpired, CallStands, HalvesAgree, NoTxn
<1>7. QED BY <1>1, <1>2, <1>3, <1>5, <1>6, OneCallMoves

LEMMA InsertOrderStep ==
  ASSUME IInv, NEW c \in Calls, InsertOrder(c), TypeOK'
  PROVE  IInv'
<1>1. /\ call'[c].at = IF Keyed(c) THEN "insertRecord" ELSE "commit"
      /\ \A d \in Calls : /\ d # c => call'[d] = call[d]
                          /\ call'[d].key = call[d].key
                          /\ call'[d].input = call[d].input
  BY GotoFields DEF IInv, InsertOrder
<1>2. /\ txn'[c].state = IF Keyed(c) THEN txn[c].state ELSE "committing"
      /\ txn'[c].now = txn[c].now
      /\ txn'[c].deletes = txn[c].deletes
      /\ txn'[c].places = TRUE
      /\ txn'[c].binds = txn[c].binds
      /\ \A d \in Calls : d # c => txn'[d] = txn[d]
  BY DEF IInv, InsertOrder, TypeOK, TxnType
<1>3. UNCHANGED <<lock, orders, records>>
  BY DEF InsertOrder
<1>4. CallStands(c) /\ txn[c] \in TxnType
  BY DEF IInv, TypeOK
<1>5. CallStands(c)'
  <2>1. Keyed(c)' = Keyed(c) /\ call[c].at = "insertOrder"
    BY <1>1 DEF InsertOrder, Keyed
  <2>2. HalvesAgree(c)'
    BY <1>1, <1>2, <1>3, <1>4, <2>1 DEF CallStands, HalvesAgree
  <2>3. WritesAgree(c)'
    BY <1>1, <1>2, <1>3, <1>4, <2>1 DEF CallStands, HalvesAgree, WritesAgree
  <2>4. LockHeld(c)'
    BY <1>1, <1>2, <1>3, <1>4, <2>1 DEF CallStands, HalvesAgree, LockHeld, Active
  <2>5. FindingsStand(c)'
    BY <1>1, <1>2, <1>3, <1>4, <2>1
    DEF CallStands, HalvesAgree, WritesAgree, FindingsStand, Active, VisibleRecord
  <2>6. QED BY <2>2, <2>3, <2>4, <2>5 DEF CallStands
<1>6. c \in orders => txn'[c].now = txn[c].now
  BY <1>2, <1>4 DEF InsertOrder, CallStands, HalvesAgree, NoTxn
<1>7. QED BY <1>1, <1>2, <1>3, <1>5, <1>6, OneCallMoves

LEMMA SelectReplayStep ==
  ASSUME IInv, NEW c \in Calls, SelectReplay(c), TypeOK'
  PROVE  IInv'
<1>1. /\ call'[c].at = "commit"
      /\ \A d \in Calls : /\ d # c => call'[d] = call[d]
                          /\ call'[d].key = call[d].key
                          /\ call'[d].input = call[d].input
  BY DEF IInv, SelectReplay, TypeOK, CallType
<1>2. /\ txn'[c].state = "committing"
      /\ txn'[c].now = txn[c].now
      /\ txn'[c].deletes = txn[c].deletes
      /\ txn'[c].places = txn[c].places
      /\ txn'[c].binds = txn[c].binds
      /\ \A d \in Calls : d # c => txn'[d] = txn[d]
  BY DEF IInv, SelectReplay, TypeOK, TxnType
<1>3. UNCHANGED <<lock, orders, records>>
  BY DEF SelectReplay
<1>4. CallStands(c) /\ txn[c] \in TxnType
  BY DEF IInv, TypeOK
<1>5. CallStands(c)'
  BY <1>1, <1>2, <1>3, <1>4
  DEF SelectReplay, CallStands, HalvesAgree, WritesAgree, LockHeld, FindingsStand,
      Active, Keyed, VisibleRecord
<1>6. c \in orders => txn'[c].now = txn[c].now
  BY <1>2, <1>4 DEF SelectReplay, CallStands, HalvesAgree, NoTxn
<1>7. QED BY <1>1, <1>2, <1>3, <1>5, <1>6, OneCallMoves

LEMMA AcquireLockStep ==
  ASSUME IInv, NEW c \in Calls, AcquireLock(c), TypeOK'
  PROVE  IInv'
<1>1. /\ call'[c].at = "delete"
      /\ \A d \in Calls : /\ d # c => call'[d] = call[d]
                          /\ call'[d].key = call[d].key
                          /\ call'[d].input = call[d].input
  BY GotoFields DEF IInv, AcquireLock
<1>2. UNCHANGED <<txn, orders, records>>
  BY DEF AcquireLock
<1>3. CallStands(c) /\ Keyed(c) /\ txn[c].state = "open"
  BY DEF IInv, CallStands, HalvesAgree, AcquireLock
<1>4. /\ lock'[call[c].key] = c
      /\ \A k \in Keys \ {call[c].key} : lock'[k] = lock[k]
  BY <1>3 DEF AcquireLock, IInv, TypeOK, Keyed
<1>5. \A d \in Calls \ {c}, k \in Keys : lock'[k] = d <=> lock[k] = d
  BY <1>3, <1>4, OrderAssumption DEF AcquireLock
<1>6. CallStands(c)'
  <2>1. Keyed(c)' = Keyed(c) /\ call[c].at = "lock"
    BY <1>1 DEF AcquireLock, Keyed
  <2>2. HalvesAgree(c)' /\ WritesAgree(c)'
    BY <1>1, <1>2, <1>3, <2>1 DEF CallStands, HalvesAgree, WritesAgree
  <2>3. LockHeld(c)'
    BY <1>1, <1>2, <1>3, <1>4, <2>1 DEF CallStands, LockHeld, Active
  <2>4. FindingsStand(c)'
    BY <1>1, <1>2, <1>3, <2>1
    DEF CallStands, WritesAgree, FindingsStand, Active, VisibleRecord
  <2>5. QED BY <2>2, <2>3, <2>4 DEF CallStands
<1>7. QED BY <1>1, <1>2, <1>5, <1>6, OneCallMoves

\* A transaction that ends without its COMMIT gives back its lock and leaves
\* nothing behind.
LEMMA AbortedStands ==
  ASSUME IInv, TypeOK', NEW c \in Calls,
         call[c].at \in {"begin", "lock", "delete", "select", "insertOrder",
                        "insertRecord", "rollback", "answered", "lost"},
         txn[c].state # "committed",
         call'[c].at \in {"rollback", "answered", "lost"},
         call[c].at \in {"answered", "lost"} => call'[c].at = call[c].at,
         txn'[c].state = "aborted",
         txn'[c].places = txn[c].places,
         txn'[c].binds = txn[c].binds,
         \A d \in Calls : /\ d # c => call'[d] = call[d] /\ txn'[d] = txn[d]
                         /\ call'[d].key = call[d].key
                         /\ call'[d].input = call[d].input
                         /\ txn'[d].now = txn[d].now,
         lock' = Unlock(c),
         UNCHANGED <<orders, records>>
  PROVE  IInv'
<1>1. /\ \A d \in Calls \ {c}, k \in Keys : lock'[k] = d <=> lock[k] = d
      /\ \A k \in Keys : lock'[k] # c
  BY UnlockOthers, OrderAssumption
<1>2. CallStands(c)
  BY DEF IInv
<1>3. CallStands(c)'
  <2>1. Keyed(c)' = Keyed(c) /\ ~Active(c)'
    BY DEF Keyed, Active
  <2>2. HalvesAgree(c)'
    BY <1>2, <2>1 DEF CallStands, HalvesAgree
  <2>3. WritesAgree(c)'
    BY <1>2, <2>1 DEF CallStands, WritesAgree
  <2>4. LockHeld(c)' /\ FindingsStand(c)'
    BY <1>1, <2>1 DEF LockHeld, FindingsStand
  <2>5. QED BY <2>2, <2>3, <2>4 DEF CallStands
<1>4. QED BY <1>1, <1>3, OneCallMoves

LEMMA ThrowStep ==
  ASSUME IInv, NEW c \in Calls, Throw(c, 500), TypeOK',
         call[c].at \in Querying \ {"commit", "rollback"},
         UNCHANGED <<orders, records>>
  PROVE  IInv'
<1>1. CallStands(c) /\ txn[c].state # "committed"
  BY DEF IInv, CallStands, HalvesAgree, Querying, NoTxn
<1>2. lock' = Unlock(c)
  BY DEF Throw
<1>3. TypeOK
  BY DEF IInv
<1>4. QED BY <1>1, <1>2, <1>3, ThrowFields, AbortedStands DEF Querying

LEMMA StatementFailsStep ==
  ASSUME IInv, NEW c \in Calls, StatementFails(c), TypeOK'
  PROVE  IInv'
  BY ThrowStep DEF StatementFails

LEMMA InsertRecordStep ==
  ASSUME IInv, NEW c \in Calls, InsertRecord(c), TypeOK'
  PROVE  IInv'
<1>1. CASE VisibleRecord(c) # NoRecord
  BY <1>1, ThrowStep DEF InsertRecord, Querying
<1>2. CASE VisibleRecord(c) = NoRecord
  <2>1. /\ call'[c].at = "commit"
        /\ \A d \in Calls : /\ d # c => call'[d] = call[d]
                            /\ call'[d].key = call[d].key
                            /\ call'[d].input = call[d].input
    BY <1>2, GotoFields DEF IInv, InsertRecord
  <2>2. /\ txn'[c].state = "committing"
        /\ txn'[c].now = txn[c].now
        /\ txn'[c].deletes = txn[c].deletes
        /\ txn'[c].places = txn[c].places
        /\ txn'[c].binds = TRUE
        /\ \A d \in Calls : d # c => txn'[d] = txn[d]
    BY <1>2 DEF InsertRecord, IInv, TypeOK, TxnType
  <2>3. UNCHANGED <<lock, orders, records>>
    BY <1>2 DEF InsertRecord
  <2>4. CallStands(c) /\ call[c].at = "insertRecord"
    BY DEF IInv, InsertRecord
  <2>5. CallStands(c)'
    <3>1. Keyed(c)' /\ Keyed(c)
      BY <2>1, <2>4 DEF Keyed, CallStands, HalvesAgree
    <3>2. HalvesAgree(c)'
      BY <2>1, <2>2, <2>3, <2>4, <3>1 DEF CallStands, HalvesAgree
    <3>3. WritesAgree(c)'
      BY <2>1, <2>2, <2>3, <2>4, <3>1 DEF CallStands, WritesAgree, HalvesAgree
    <3>4. LockHeld(c)'
      BY <2>1, <2>2, <2>3, <2>4, <3>1 DEF CallStands, HalvesAgree, LockHeld, Active
    <3>5. FindingsStand(c)'
      BY <1>2, <2>1, <2>2, <2>3, <2>4, <3>1
      DEF CallStands, WritesAgree, FindingsStand, Active, VisibleRecord
    <3>6. QED BY <3>2, <3>3, <3>4, <3>5 DEF CallStands
  <2>6. QED BY <2>1, <2>2, <2>3, <2>5, OneCallMoves
<1>3. QED BY <1>1, <1>2

LEMMA RollbackStep ==
  ASSUME IInv, NEW c \in Calls, Rollback(c), TypeOK'
  PROVE  IInv'
<1>1. /\ call'[c].at = "answered"
      /\ \A d \in Calls : /\ d # c => call'[d] = call[d]
                          /\ call'[d].key = call[d].key
                          /\ call'[d].input = call[d].input
  BY FinishFields DEF IInv, Rollback
<1>2. /\ txn'[c].state = "aborted"
      /\ txn'[c].places = txn[c].places
      /\ txn'[c].binds = txn[c].binds
      /\ \A d \in Calls : (d # c => txn'[d] = txn[d]) /\ txn'[d].now = txn[d].now
  BY DEF Rollback, IInv, TypeOK, TxnType
<1>3. lock' = Unlock(c) /\ UNCHANGED <<orders, records>>
  BY DEF Rollback
<1>4. txn[c].state # "committed" /\ call[c].at = "rollback"
  BY DEF Rollback, IInv, CallStands, HalvesAgree
<1>5. QED BY <1>1, <1>2, <1>3, <1>4, AbortedStands

LEMMA AbortOrphanStep ==
  ASSUME IInv, NEW c \in Calls, AbortOrphan(c), TypeOK'
  PROVE  IInv'
<1>1. /\ txn'[c].state = "aborted"
      /\ txn'[c].places = txn[c].places
      /\ txn'[c].binds = txn[c].binds
      /\ \A d \in Calls : (d # c => txn'[d] = txn[d]) /\ txn'[d].now = txn[d].now
  BY DEF AbortOrphan, IInv, TypeOK, TxnType
<1>2. lock' = Unlock(c) /\ UNCHANGED <<call, orders, records>>
  BY DEF AbortOrphan
<1>3. txn[c].state # "committed" /\ call[c].at \in {"answered", "lost"}
  BY DEF AbortOrphan, Orphaned
<1>4. QED BY <1>1, <1>2, <1>3, AbortedStands

LEMMA ReceiveStep ==
  ASSUME IInv, NEW c \in Calls, NEW i \in Instances,
         NEW h \in Headers \cup {NoKey}, NEW b \in Bodies, Receive(c, i, h, b), TypeOK'
  PROVE  IInv'
<1>1. call[c].at = "start" /\ CallStands(c)
  BY DEF Receive, IInv
<1>2. /\ call'[c].at \in {"connect", "answered"}
      /\ call'[c].at = "connect" => call'[c].input \in Inputs
      /\ \A d \in Calls \ {c} : call'[d] = call[d]
  BY DEF Receive, BodyValid, IInv, TypeOK
<1>3. UNCHANGED <<txn, lock, orders, records>>
  BY DEF Receive, dbVars
<1>4. txn[c] = NoTxn /\ c \notin orders
  BY <1>1 DEF CallStands, HalvesAgree, NoTxn
<1>5. CallStands(c)'
  <2>1. ~Active(c)'
    BY <1>2, <1>3, <1>4 DEF Active, NoTxn
  <2>2. HalvesAgree(c)' /\ WritesAgree(c)'
    BY <1>2, <1>3, <1>4 DEF HalvesAgree, WritesAgree, NoTxn
  <2>3. LockHeld(c)' /\ FindingsStand(c)'
    BY <1>1, <1>3, <2>1 DEF CallStands, LockHeld, FindingsStand
  <2>4. QED BY <2>2, <2>3 DEF CallStands
<1>6. QED BY <1>2, <1>3, <1>4, <1>5, OneCallMoves

LEMMA CrashStep ==
  ASSUME IInv, NEW i \in Instances, Crash(i), TypeOK'
  PROVE  IInv'
<1>1. ASSUME NEW d \in Calls
      PROVE  /\ call'[d].key = call[d].key
             /\ call'[d].input = call[d].input
             /\ call'[d] = call[d] \/ call'[d].at = "lost"
  BY DEF Crash, IInv, TypeOK, CallType
<1>2. /\ txn' = txn /\ lock' = lock
      /\ orders' = orders /\ records' = records
  BY DEF Crash, dbVars
<1>3. ASSUME NEW d \in Calls
      PROVE  CallStands(d)'
  <2>1. CallStands(d)
    BY DEF IInv
  <2>2. CASE call'[d] = call[d]
    BY <1>2, <2>1, <2>2, UntouchedStands
  <2>3. CASE call'[d].at = "lost"
    <3>0. call'[d].key = call[d].key /\ call'[d].input = call[d].input
      BY <1>1
    <3>1. Keyed(d)' = Keyed(d)
      BY <3>0 DEF Keyed
    <3>2. Active(d)' => Active(d) /\ txn[d].state = "committing"
      BY <1>2, <2>3, <3>1 DEF Active
    <3>3. HalvesAgree(d)' /\ WritesAgree(d)'
      BY <1>2, <2>1, <2>3, <3>0, <3>1 DEF CallStands, HalvesAgree, WritesAgree
    <3>4. LockHeld(d)'
      BY <1>2, <2>1, <3>0, <3>2 DEF CallStands, LockHeld
    <3>5. txn[d].state = "committing" => call[d].at # "delete"
      BY <2>1 DEF CallStands, HalvesAgree
    <3>6. FindingsStand(d)'
      BY <1>2, <2>1, <2>3, <3>0, <3>2, <3>5 DEF CallStands, FindingsStand, VisibleRecord
    <3>7. QED BY <3>3, <3>4, <3>6 DEF CallStands
  <2>4. QED BY <1>1, <2>2, <2>3
<1>4. OrdersAreBound' /\ OneOrderPerWindow'
  <2>1. \A d \in Calls : d \in orders => /\ call'[d].key = call[d].key
                                      /\ call'[d].input = call[d].input
                                      /\ txn'[d].now = txn[d].now
    BY <1>1, <1>2
  <2>2. QED BY <1>2, <2>1, TablesStand
<1>5. QED BY <1>3, <1>4 DEF IInv

\* Only the clock and the metrics move.
LEMMA NothingMoves ==
  ASSUME IInv, TypeOK', UNCHANGED <<call, txn, lock, orders, records>>
  PROVE  IInv'
<1>1. ASSUME NEW d \in Calls
      PROVE  CallStands(d)'
  <2>1. CallStands(d)
    BY DEF IInv
  <2>2. QED BY <2>1, UntouchedStands
<1>2. OrdersAreBound' /\ OneOrderPerWindow'
  BY TablesStand
<1>3. QED BY <1>1, <1>2 DEF IInv

-----------------------------------------------------------------------------
(* COMMIT *)

\* A keyed commit is alone with its key: it holds the lock, and what it found
\* is what it replaces.
LEMMA CommitterAlone ==
  ASSUME IInv, NEW c \in Calls, txn[c].state = "committing"
  PROVE  \A d \in Calls \ {c} : Active(d) => call[d].key # call[c].key
<1>1. TAKE d \in Calls \ {c}
<1>2. Keyed(c) => Active(c)
  BY DEF Active
<1>3. (Active(c) => lock[call[c].key] = c) /\ (Active(d) => lock[call[d].key] = d)
  BY DEF IInv, CallStands, LockHeld
<1>4. Active(d) => Keyed(d)
  BY DEF Active
<1>5. QED BY <1>2, <1>3, <1>4 DEF Keyed

LEMMA ApplyCommitStep ==
  ASSUME IInv, NEW c \in Calls, ApplyCommit(c), TypeOK'
  PROVE  IInv'
<1>1. TypeOK /\ CallStands(c) /\ txn[c].state = "committing" /\ UNCHANGED call
  BY DEF IInv, ApplyCommit
<1>2. /\ txn'[c].state = "committed"
      /\ txn'[c].places = txn[c].places
      /\ txn'[c].binds = txn[c].binds
      /\ \A d \in Calls : (d # c => txn'[d] = txn[d]) /\ txn'[d].now = txn[d].now
  BY <1>1 DEF ApplyCommit, TypeOK, TxnType
<1>3. /\ \A d \in Calls \ {c}, k \in Keys : lock'[k] = d <=> lock[k] = d
      /\ \A k \in Keys : lock'[k] # c
  BY UnlockOthers, OrderAssumption DEF ApplyCommit
<1>4. /\ \A d \in Calls \ {c} : d \in orders' <=> d \in orders
      /\ c \in orders' <=> txn[c].places
      /\ c \notin orders
  BY <1>1 DEF ApplyCommit, CallStands, HalvesAgree
<1>5. \A k \in Keys : k # call[c].key => records'[k] = records[k]
  BY DEF ApplyCommit
<1>6. CallStands(c)'
  <2>1. Keyed(c)' = Keyed(c) /\ ~Active(c)'
    <3>1. call[c].at \in {"commit", "answered", "lost"}
      BY <1>1 DEF CallStands, HalvesAgree, NoTxn, TypeOK, CallType, Phases
    <3>2. QED BY <1>1, <1>2, <3>1 DEF Keyed, Active
  <2>2. HalvesAgree(c)' /\ WritesAgree(c)'
    BY <1>1, <1>2, <1>4, <2>1 DEF CallStands, HalvesAgree, WritesAgree, NoTxn
  <2>3. LockHeld(c)' /\ FindingsStand(c)'
    BY <1>3, <2>1 DEF LockHeld, FindingsStand
  <2>4. QED BY <2>2, <2>3 DEF CallStands
<1>7. ASSUME NEW d \in Calls \ {c}
      PROVE  CallStands(d)'
  <2>1. CallStands(d) /\ call'[d] = call[d] /\ txn'[d] = txn[d]
    BY <1>1, <1>2 DEF IInv
  <2>2. Keyed(d)' = Keyed(d) /\ Active(d)' = Active(d)
    BY <2>1 DEF Keyed, Active
  <2>3. HalvesAgree(d)' /\ WritesAgree(d)'
    BY <1>4, <2>1, <2>2 DEF CallStands, HalvesAgree, WritesAgree
  <2>4. LockHeld(d)'
    BY <1>3, <2>1, <2>2 DEF CallStands, LockHeld, Active, Keyed
  <2>5. Active(d) => records'[call[d].key] = records[call[d].key]
    BY <1>1, <1>5, CommitterAlone DEF Active, Keyed
  <2>6. FindingsStand(d)'
    BY <2>1, <2>2, <2>5 DEF CallStands, FindingsStand, VisibleRecord
  <2>7. QED BY <2>3, <2>4, <2>6 DEF CallStands
<1>8. ASSUME NEW k \in Keys, k # call[c].key \/ ~txn[c].places
      PROVE  OrdersOf(k)' = OrdersOf(k) /\ records'[k] = records[k]
  <2>1. OrdersOf(k)' = OrdersOf(k)
    <3>1. orders \subseteq Calls /\ orders' \subseteq Calls
      BY <1>1 DEF TypeOK
    <3>2. QED BY <1>1, <1>4, <1>8, <3>1 DEF OrdersOf
  <2>2. CASE k # call[c].key
    BY <1>5, <2>1, <2>2
  <2>3. CASE k = call[c].key /\ ~txn[c].places
    <3>1. ~txn[c].binds /\ ~txn[c].deletes
      BY <1>1, <2>3 DEF CallStands, WritesAgree, FindingsStand, Active, Keyed
    <3>2. records'[k] = records[k]
      BY <2>3, <3>1 DEF ApplyCommit, VisibleRecord
    <3>3. QED BY <2>1, <3>2
  <2>4. QED BY <1>8, <2>2, <2>3
<1>9. ASSUME NEW k \in Keys, k = call[c].key, txn[c].places
      PROVE  /\ OrdersOf(k)' = OrdersOf(k) \cup {c}
             /\ records'[k] = [order |-> c, request |-> call[c].input,
                               expires |-> txn[c].now + Retention]
             /\ \A d \in OrdersOf(k) : txn[d].now + Retention <= txn[c].now
  <2>1. Keyed(c) /\ Active(c)
    BY <1>1, <1>9 DEF Keyed, Active
  <2>2. txn[c].binds
    BY <1>1, <1>9, <2>1 DEF CallStands, WritesAgree
  <2>3. OrdersOf(k)' = OrdersOf(k) \cup {c}
    <3>1. orders \subseteq Calls /\ orders' = orders \cup {c}
      BY <1>1, <1>9 DEF TypeOK, ApplyCommit
    <3>2. QED BY <1>1, <1>9, <3>1 DEF OrdersOf
  <2>4. records'[k] = [order |-> c, request |-> call[c].input,
                       expires |-> txn[c].now + Retention]
    BY <1>9, <2>2 DEF ApplyCommit
  <2>5. ASSUME NEW d \in OrdersOf(k)
        PROVE  txn[d].now + Retention <= txn[c].now
    <3>1. records[k] # NoRecord /\ txn[d].now + Retention <= records[k].expires
      BY DEF IInv, OrdersAreBound
    <3>2. VisibleRecord(c) = NoRecord
      BY <1>1, <1>9, <2>1 DEF CallStands, FindingsStand
    <3>3. txn[c].deletes
      BY <1>9, <3>1, <3>2 DEF VisibleRecord
    <3>4. call[c].at # "delete"
      BY <1>1 DEF CallStands, HalvesAgree
    <3>5. records[k].expires <= txn[c].now
      BY <1>1, <1>9, <2>1, <3>3, <3>4 DEF CallStands, FindingsStand
    <3>6. /\ txn[c].now \in Nat /\ txn[d].now \in Nat
          /\ records[k].expires \in Nat /\ Retention \in Nat
      BY <1>1, <3>1, OrderAssumption DEF TypeOK, TxnType, RecordType, OrdersOf
    <3>7. QED BY <3>1, <3>5, <3>6
  <2>6. QED BY <2>3, <2>4, <2>5
<1>10. \A d \in Calls : txn[d].now \in Nat
  BY <1>1 DEF TypeOK, TxnType
<1>11. \A k \in Keys : OrdersOf(k) \subseteq Calls
  BY <1>1 DEF TypeOK, OrdersOf
<1>12. OrdersAreBound'
  <2>1. ASSUME NEW k \in Keys
        PROVE  /\ OrdersOf(k)' # {} => /\ records'[k] # NoRecord
                                       /\ \A d \in OrdersOf(k)' :
                                            txn'[d].now + Retention <= records'[k].expires
               /\ records'[k] # NoRecord =>
                    /\ records'[k].order \in OrdersOf(k)'
                    /\ records'[k].request = call'[records'[k].order].input
                    /\ records'[k].expires = txn'[records'[k].order].now + Retention
    <3>1. CASE k # call[c].key \/ ~txn[c].places
      BY <1>1, <1>2, <1>8, <1>11, <3>1 DEF IInv, OrdersAreBound
    <3>2. CASE k = call[c].key /\ txn[c].places
      <4>1. records'[k] # NoRecord
        BY <1>9, <3>2, OrderAssumption DEF NoRecord
      <4>2. \A d \in OrdersOf(k)' : txn'[d].now + Retention <= records'[k].expires
        BY <1>2, <1>9, <1>10, <1>11, <3>2, OrderAssumption
      <4>3. /\ records'[k].order \in OrdersOf(k)'
            /\ records'[k].request = call'[records'[k].order].input
            /\ records'[k].expires = txn'[records'[k].order].now + Retention
        BY <1>1, <1>2, <1>9, <3>2
      <4>4. QED BY <4>1, <4>2, <4>3
    <3>3. QED BY <3>1, <3>2
  <2>2. QED BY <2>1 DEF OrdersAreBound
<1>13. OneOrderPerWindow'
  <2>1. ASSUME NEW k \in Keys, NEW d \in OrdersOf(k)', NEW e \in OrdersOf(k)', d # e
        PROVE  \/ txn'[d].now + Retention <= txn'[e].now
               \/ txn'[e].now + Retention <= txn'[d].now
    <3>1. CASE k # call[c].key \/ ~txn[c].places
      BY <1>2, <1>8, <1>11, <2>1, <3>1 DEF IInv, OneOrderPerWindow
    <3>2. CASE k = call[c].key /\ txn[c].places
      <4>1. d \in OrdersOf(k) \cup {c} /\ e \in OrdersOf(k) \cup {c}
        BY <1>9, <2>1, <3>2
      <4>2. CASE d = c \/ e = c
        BY <1>2, <1>9, <1>11, <2>1, <3>2, <4>1, <4>2
      <4>3. CASE d # c /\ e # c
        BY <1>2, <1>11, <2>1, <4>1, <4>3 DEF IInv, OneOrderPerWindow
      <4>4. QED BY <4>2, <4>3
    <3>3. QED BY <3>1, <3>2
  <2>2. QED BY <2>1 DEF OneOrderPerWindow
<1>14. QED BY <1>6, <1>7, <1>12, <1>13 DEF IInv

-----------------------------------------------------------------------------
(* The theorems *)

LEMMA InitIInv == Init => IInv
<1> SUFFICES ASSUME Init
             PROVE  IInv
  OBVIOUS
<1>1. TypeOK
  BY InitType
<1>2. ASSUME NEW c \in Calls
      PROVE  CallStands(c)
  <2>1. call[c].at = "start" /\ txn[c] = NoTxn /\ c \notin orders /\ ~Keyed(c)
    BY OrderAssumption DEF Init, NoCall, Keyed
  <2>2. HalvesAgree(c) /\ WritesAgree(c)
    BY <2>1 DEF HalvesAgree, WritesAgree, NoTxn
  <2>3. LockHeld(c) /\ FindingsStand(c)
    BY <2>1, OrderAssumption DEF LockHeld, FindingsStand, Active, Init
  <2>4. QED BY <2>2, <2>3 DEF CallStands
<1>3. OrdersAreBound /\ OneOrderPerWindow
  BY DEF Init, OrdersAreBound, OneOrderPerWindow, OrdersOf
<1>4. QED BY <1>1, <1>2, <1>3 DEF IInv

LEMMA NextIInv == IInv /\ [Next]_vars => IInv'
<1> SUFFICES ASSUME IInv, [Next]_vars
             PROVE  IInv'
  OBVIOUS
<1>1. ASSUME NEW c \in Calls, NEW i \in Instances, NEW h \in Headers \cup {NoKey},
             NEW b \in Bodies, Receive(c, i, h, b)
      PROVE  IInv'
  BY <1>1, ReceiveType, ReceiveStep DEF IInv
<1>2. ASSUME NEW c \in Calls, Step(c)
      PROVE  IInv'
  <2>1. TypeOK'
    BY <1>2, StepType
  <2>2. QED
    BY <1>2, <2>1, ConnectStep, BeginStep, AcquireLockStep, DeleteExpiredStep,
       SelectConflictStep, SelectReplayStep, SelectNothingStep, InsertOrderStep,
       InsertRecordStep, CommitReturnsStep, RollbackStep DEF Step
<1>3. ASSUME NEW c \in Calls, Fault(c)
      PROVE  IInv'
  <2>1. TypeOK'
    BY <1>3, FaultType DEF IInv
  <2>2. QED
    BY <1>3, <2>1, ConnectFailsStep, StatementFailsStep, DisconnectStep DEF Fault
<1>4. ASSUME NEW c \in Calls, ServerStep(c)
      PROVE  IInv'
  <2>1. TypeOK'
    BY <1>4, ServerStepType
  <2>2. QED BY <1>4, <2>1, ApplyCommitStep, AbortOrphanStep DEF ServerStep
<1>5. ASSUME NEW i \in Instances, Crash(i)
      PROVE  IInv'
  BY <1>5, CrashType, CrashStep DEF IInv
<1>6. CASE Tick
  <2>1. TypeOK'
    BY <1>6 DEF Tick, IInv, TypeOK, dbVars, metricVars
  <2>2. QED BY <1>6, <2>1, NothingMoves DEF Tick, dbVars
<1>7. CASE UNCHANGED vars
  <2>1. TypeOK'
    BY <1>7 DEF vars, IInv, TypeOK
  <2>2. QED BY <1>7, <2>1, NothingMoves DEF vars
<1>8. QED BY <1>1, <1>2, <1>3, <1>4, <1>5, <1>6, <1>7 DEF Next

\* The inductive invariant holds throughout every behaviour.
THEOREM Invariance == Spec => []IInv
  BY InitIInv, NextIInv, PTL DEF Spec

\* Every variable keeps its type.
THEOREM TypeCorrect == Spec => []TypeOK
<1>1. IInv => TypeOK
  BY DEF IInv
<1>2. QED BY <1>1, Invariance, PTL

\* placeOrder makes at most one order per key and retention window, for any
\* number of concurrent, repeated, failing and crashing calls.
THEOREM AtMostOneOrder == Spec => []OneOrderPerWindow
<1>1. IInv => OneOrderPerWindow
  BY DEF IInv
<1>2. QED BY <1>1, Invariance, PTL

\* No keyed order exists without its record and no record without its order.
THEOREM OrderAndRecordTogether == Spec => []OrdersAreBound
<1>1. IInv => OrdersAreBound
  BY DEF IInv
<1>2. QED BY <1>1, Invariance, PTL

\* Between its SELECT and its COMMIT a call's view of its key stays true.
THEOREM NoLateCollision == Spec => []CheckStaysGood
<1>1. IInv => CheckStaysGood
  <2> SUFFICES ASSUME IInv, NEW c \in Calls, Keyed(c), txn[c].state = "open",
                      call[c].at \in {"insertOrder", "insertRecord"}
               PROVE  /\ VisibleRecord(c) = NoRecord
                      /\ \A d \in Calls \ {c} :
                           txn[d].binds /\ call[d].key = call[c].key
                             => txn[d].state \in {"committed", "aborted"}
    BY DEF CheckStaysGood
  <2>1. Active(c) /\ CallStands(c)
    BY DEF Active, IInv
  <2>2. VisibleRecord(c) = NoRecord
    BY <2>1 DEF CallStands, FindingsStand
  <2>3. ASSUME NEW d \in Calls \ {c}, txn[d].binds, call[d].key = call[c].key
        PROVE  txn[d].state \in {"committed", "aborted"}
    <3>1. CallStands(d) /\ txn[d] \in TxnType
      BY DEF IInv, TypeOK
    <3>2. txn[d].state # "committing"
      BY <2>1, <2>3, <3>1 DEF CallStands, LockHeld, Active, Keyed
    <3>3. QED BY <2>3, <3>1, <3>2 DEF CallStands, WritesAgree, TxnType
  <2>4. QED BY <2>2, <2>3
<1>2. QED BY <1>1, Invariance, PTL
=============================================================================
