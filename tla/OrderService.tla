---------------------------- MODULE OrderService ----------------------------
(***************************************************************************)
(* POST /orders over PostgreSQL: the steps of                              *)
(* PostgresIdempotentOrderService.placeOrder, one per awaited call, run by  *)
(* several API instances over one database.                                *)
(*                                                                         *)
(* A call has two halves.  The client half (call) is the async function in  *)
(* an API process; the server half (txn) is its PostgreSQL transaction,     *)
(* which outlives a broken connection or a crashed process until the server *)
(* aborts it, and whose COMMIT may be applied though nobody hears of it.    *)
(*                                                                         *)
(* An order is named by the call that made it (newOrder draws a fresh UUID  *)
(* per call), a key stands for its SHA-256 and an input for the hash of     *)
(* {quantity, sku}: both hashes are taken to be injective.                  *)
(***************************************************************************)
EXTENDS Integers, FiniteSets

CONSTANTS Calls,      \* calls of POST /orders
          Instances,  \* API processes, each with its own pool and metrics
          Headers,    \* values of the Idempotency-Key header
          Keys,       \* the headers that pass the key's regular expression
          NoKey,      \* the header is absent or empty
          Bodies,     \* request bodies
          Inputs,     \* the bodies parsePlaceOrderInput accepts
          None,       \* nobody, nothing
          PoolMax,    \* connections in a pool
          Retention,  \* '24 hours' in ticks of the database clock
          MaxTime     \* bound: the database clock stops here

ASSUME OrderAssumption ==
  /\ Keys \subseteq Headers
  /\ NoKey \notin Keys
  /\ Inputs \subseteq Bodies
  /\ None \notin Calls \cup Instances \cup Headers \cup Bodies
  /\ PoolMax \in Nat \ {0}
  /\ Retention \in Nat \ {0}
  /\ MaxTime \in Nat

VARIABLES call,       \* client half of each call
          txn,        \* server half of each call
          leased,     \* calls that hold a connection of their instance's pool
          lock,       \* holder of each key's advisory lock
          orders,     \* table orders: the committed rows
          records,    \* table idempotency_records: the committed rows
          conflicts,  \* IdempotencyMetrics of each instance
          replays,
          clock       \* the database server's clock

dbVars     == <<txn, lock, orders, records>>
metricVars == <<conflicts, replays>>
vars       == <<call, txn, leased, lock, orders, records, conflicts, replays, clock>>

-----------------------------------------------------------------------------
(* Types *)

\* Where the async function stands: the await it is at.
Phases == {"start", "connect", "begin", "lock", "delete", "select",
           "insertOrder", "insertRecord", "commit", "rollback",
           "answered", "lost"}

NoReply == [status |-> 0, order |-> None]
Replies == [status : {0, 200, 201, 400, 409, 500}, order : Calls \cup {None}]

\* Nothing is neither a reply nor a request.
ASSUME NothingAssumption ==
  None \notin Replies \cup [key : Keys \cup {NoKey}, input : Inputs]

NoCall == [at |-> "start", instance |-> None, key |-> None, input |-> None,
           row |-> None, error |-> 0, reply |-> NoReply]
CallType == [at : Phases, instance : Instances \cup {None},
             key : Headers \cup {NoKey, None}, input : Bodies \cup {None},
             row : Calls \cup {None}, error : {0, 409, 500}, reply : Replies]

NoTxn == [state |-> "none", now |-> 0, deletes |-> FALSE,
          places |-> FALSE, binds |-> FALSE]
TxnType == [state : {"none", "open", "committing", "committed", "aborted"},
            now : Nat, deletes : BOOLEAN, places : BOOLEAN, binds : BOOLEAN]

NoRecord == [order |-> None, request |-> None, expires |-> 0]
RecordType == [order : Calls, request : Inputs, expires : Nat] \cup {NoRecord}

-----------------------------------------------------------------------------
(* Helper state functions *)

Keyed(c) == call[c].key \in Keys

\* The client half awaits a query on its connection.
Querying == {"begin", "lock", "delete", "select", "insertOrder",
             "insertRecord", "commit", "rollback"}
Connected(c) == call[c].at \in Querying

\* The transaction's connection has no client half left.
Orphaned(c) == call[c].at \in {"answered", "lost"}

\* What SELECT returns in c's transaction: the committed row of the key, or
\* nothing if the transaction itself has deleted it (READ COMMITTED).
VisibleRecord(c) == IF txn[c].deletes THEN NoRecord ELSE records[call[c].key]

\* A bug: a session-level pg_advisory_lock outlives its transaction.
SessionLock(c) == lock

\* Locks are given back whenever a transaction ends, however it ends.
Unlock(c) == [k \in Keys |-> IF lock[k] = c THEN None ELSE lock[k]]

Goto(c, phase) == call' = [call EXCEPT ![c].at = phase]

\* A statement fails: the server aborts the transaction, the client half goes
\* to its catch block.
Throw(c, error) ==
  /\ txn' = [txn EXCEPT ![c].state = "aborted"]
  /\ lock' = Unlock(c)
  /\ call' = [call EXCEPT ![c].at = "rollback", ![c].error = error]

\* The function returns or throws: `finally` releases the connection and the
\* route answers.
Finish(c, status, order) ==
  /\ call' = [call EXCEPT ![c].at = "answered",
                          ![c].reply = [status |-> status, order |-> order]]
  /\ leased' = leased \ {c}

-----------------------------------------------------------------------------
Init == /\ call = [c \in Calls |-> NoCall]
        /\ txn = [c \in Calls |-> NoTxn]
        /\ leased = {}
        /\ lock = [k \in Keys |-> None]
        /\ orders = {}
        /\ records = [k \in Keys |-> NoRecord]
        /\ conflicts = [i \in Instances |-> 0]
        /\ replays = [i \in Instances |-> 0]
        /\ clock = 0

-----------------------------------------------------------------------------
(* The client half *)

\* parsePlaceOrderInput accepts the body.
BodyValid(b) == b \in Inputs

\* No key (absent or empty) or one that matches the pattern.
KeyValid(h) == h \in Keys \cup {NoKey}

\* The route parses the body and the service checks the key; what fails
\* either check is answered 400 before a connection is taken.
Receive(c, i, h, b) ==
  /\ call[c].at = "start"
  /\ LET valid == BodyValid(b) /\ KeyValid(h)
     IN  call' = [call EXCEPT ![c] =
           [at |-> IF valid THEN "connect" ELSE "answered",
            instance |-> i, key |-> h, input |-> b, row |-> None, error |-> 0,
            reply |-> IF valid THEN NoReply ELSE [status |-> 400, order |-> None]]]
  /\ UNCHANGED <<dbVars, leased, metricVars, clock>>

\* pool.connect() resolves when the instance's pool has a connection to give.
Connect(c) ==
  /\ call[c].at = "connect"
  /\ Cardinality({d \in leased : call[d].instance = call[c].instance}) < PoolMax
  /\ leased' = leased \cup {c}
  /\ Goto(c, "begin")
  /\ UNCHANGED <<dbVars, metricVars, clock>>

\* pool.connect() rejects: it stands outside the try, nothing is rolled back.
ConnectFails(c) ==
  /\ call[c].at = "connect"
  /\ Finish(c, 500, None)
  /\ UNCHANGED <<dbVars, metricVars, clock>>

\* BEGIN fixes what now() means for the rest of the transaction.
Begin(c) ==
  /\ call[c].at = "begin"
  /\ txn' = [txn EXCEPT ![c].state = "open", ![c].now = clock]
  /\ Goto(c, IF Keyed(c) THEN "lock" ELSE "insertOrder")
  /\ UNCHANGED <<leased, lock, orders, records, metricVars, clock>>

\* A bug: pg_advisory_xact_lock_shared lets everybody in.
AcquireSharedLock(c) ==
  /\ call[c].at = "lock"
  /\ lock' = [lock EXCEPT ![call[c].key] = c]
  /\ Goto(c, "delete")
  /\ UNCHANGED <<txn, leased, orders, records, metricVars, clock>>

\* pg_advisory_xact_lock returns when no other transaction holds the key.
AcquireLock(c) ==
  /\ call[c].at = "lock"
  /\ lock[call[c].key] = None
  /\ lock' = [lock EXCEPT ![call[c].key] = c]
  /\ Goto(c, "delete")
  /\ UNCHANGED <<txn, leased, orders, records, metricVars, clock>>

\* A bug: DELETE ... WHERE key_hash = $1, whatever its expiry.
DeleteAnyRecord(c) ==
  /\ call[c].at = "delete"
  /\ txn' = [txn EXCEPT ![c].deletes = records[call[c].key] # NoRecord]
  /\ Goto(c, "select")
  /\ UNCHANGED <<leased, lock, orders, records, metricVars, clock>>

\* A bug: the expiry is compared with an API clock that runs a tick ahead.
DeleteByAheadClock(c) ==
  /\ call[c].at = "delete"
  /\ LET record == records[call[c].key]
     IN  txn' = [txn EXCEPT ![c].deletes = /\ record # NoRecord
                                           /\ record.expires <= txn[c].now + 1]
  /\ Goto(c, "select")
  /\ UNCHANGED <<leased, lock, orders, records, metricVars, clock>>

\* DELETE ... WHERE expires_at <= now(): by the clock of BEGIN, not of today.
DeleteExpired(c) ==
  /\ call[c].at = "delete"
  /\ LET record == records[call[c].key]
     IN  txn' = [txn EXCEPT ![c].deletes = /\ record # NoRecord
                                           /\ record.expires <= txn[c].now]
  /\ Goto(c, "select")
  /\ UNCHANGED <<leased, lock, orders, records, metricVars, clock>>

\* A bug: a reused key is reported as a validation error.
ConflictAsInvalid(c) ==
  /\ call[c].at = "select"
  /\ VisibleRecord(c) # NoRecord
  /\ VisibleRecord(c).request # call[c].input
  /\ call' = [call EXCEPT ![c].at = "rollback", ![c].error = 400]
  /\ UNCHANGED <<dbVars, leased, metricVars, clock>>

\* The key is bound to another request: count the conflict, then throw.
SelectConflict(c) ==
  /\ call[c].at = "select"
  /\ VisibleRecord(c) # NoRecord
  /\ VisibleRecord(c).request # call[c].input
  /\ call' = [call EXCEPT ![c].at = "rollback", ![c].error = 409]
  /\ conflicts' = [conflicts EXCEPT ![call[c].instance] = @ + 1]
  /\ UNCHANGED <<dbVars, leased, replays, clock>>

\* A bug: the replay is counted before its COMMIT has succeeded.
ReplayCountedEarly(c) ==
  /\ call[c].at = "select"
  /\ VisibleRecord(c) # NoRecord
  /\ VisibleRecord(c).request = call[c].input
  /\ call' = [call EXCEPT ![c].at = "commit", ![c].row = VisibleRecord(c).order]
  /\ txn' = [txn EXCEPT ![c].state = "committing"]
  /\ replays' = [replays EXCEPT ![call[c].instance] = @ + 1]
  /\ UNCHANGED <<leased, lock, orders, records, conflicts, clock>>

\* A bug: the request hash is not compared.
ReplayAnyRequest(c) ==
  /\ call[c].at = "select"
  /\ VisibleRecord(c) # NoRecord
  /\ call' = [call EXCEPT ![c].at = "commit", ![c].row = VisibleRecord(c).order]
  /\ txn' = [txn EXCEPT ![c].state = "committing"]
  /\ UNCHANGED <<leased, lock, orders, records, metricVars, clock>>

\* The key is bound to this request: COMMIT, to replay the stored response.
SelectReplay(c) ==
  /\ call[c].at = "select"
  /\ VisibleRecord(c) # NoRecord
  /\ VisibleRecord(c).request = call[c].input
  /\ call' = [call EXCEPT ![c].at = "commit", ![c].row = VisibleRecord(c).order]
  /\ txn' = [txn EXCEPT ![c].state = "committing"]
  /\ UNCHANGED <<leased, lock, orders, records, metricVars, clock>>

SelectNothing(c) ==
  /\ call[c].at = "select"
  /\ VisibleRecord(c) = NoRecord
  /\ Goto(c, "insertOrder")
  /\ UNCHANGED <<dbVars, leased, metricVars, clock>>

\* A bug: the order is inserted through the pool, outside the transaction.
InsertOrderOnPool(c) ==
  /\ call[c].at = "insertOrder"
  /\ orders' = orders \cup {c}
  /\ txn' = [txn EXCEPT ![c].state = IF Keyed(c) THEN @ ELSE "committing"]
  /\ Goto(c, IF Keyed(c) THEN "insertRecord" ELSE "commit")
  /\ UNCHANGED <<leased, lock, records, metricVars, clock>>

\* insertOrder: a keyed order's record follows in the same transaction, an
\* unkeyed one is committed at once.
InsertOrder(c) ==
  /\ call[c].at = "insertOrder"
  /\ txn' = [txn EXCEPT ![c].places = TRUE,
                        ![c].state = IF Keyed(c) THEN @ ELSE "committing"]
  /\ Goto(c, IF Keyed(c) THEN "insertRecord" ELSE "commit")
  /\ UNCHANGED <<leased, lock, orders, records, metricVars, clock>>

\* The primary key on key_hash: the INSERT waits for a transaction that has
\* bound the key and not ended, and fails on a committed row.
InsertRecord(c) ==
  /\ call[c].at = "insertRecord"
  /\ \A d \in Calls \ {c} : txn[d].binds /\ call[d].key = call[c].key
                              => txn[d].state \in {"committed", "aborted"}
  /\ IF VisibleRecord(c) = NoRecord
     THEN /\ txn' = [txn EXCEPT ![c].binds = TRUE, ![c].state = "committing"]
          /\ Goto(c, "commit")
          /\ UNCHANGED lock
     ELSE Throw(c, 500)
  /\ UNCHANGED <<leased, orders, records, metricVars, clock>>

\* A bug: COMMIT is sent but not awaited.
CommitNotAwaited(c) ==
  /\ call[c].at = "commit"
  /\ IF call[c].row # None THEN Finish(c, 200, call[c].row) ELSE Finish(c, 201, c)
  /\ UNCHANGED <<dbVars, metricVars, clock>>

\* COMMIT has answered: 200 with the stored order, or 201 with the new one.
CommitReturns(c) ==
  /\ call[c].at = "commit"
  /\ txn[c].state = "committed"
  /\ IF call[c].row # None
     THEN /\ Finish(c, 200, call[c].row)
          /\ replays' = [replays EXCEPT ![call[c].instance] = @ + 1]
     ELSE /\ Finish(c, 201, c)
          /\ UNCHANGED replays
  /\ UNCHANGED <<dbVars, conflicts, clock>>

\* A bug: the error path does not release the connection.
RollbackKeepsConnection(c) ==
  /\ call[c].at = "rollback"
  /\ call' = [call EXCEPT ![c].at = "answered",
                          ![c].reply = [status |-> call[c].error, order |-> None]]
  /\ txn' = [txn EXCEPT ![c].state = "aborted"]
  /\ lock' = Unlock(c)
  /\ UNCHANGED <<leased, orders, records, metricVars, clock>>

\* The catch block: ROLLBACK, then rethrow what was caught.
Rollback(c) ==
  /\ call[c].at = "rollback"
  /\ Finish(c, call[c].error, None)
  /\ txn' = [txn EXCEPT ![c].state = "aborted"]
  /\ lock' = Unlock(c)
  /\ UNCHANGED <<orders, records, metricVars, clock>>

\* Any other statement may fail too.
StatementFails(c) ==
  /\ call[c].at \in Querying \ {"commit", "rollback"}
  /\ Throw(c, 500)
  /\ UNCHANGED <<leased, orders, records, metricVars, clock>>

\* The connection breaks under the awaited query.  ROLLBACK fails on it too,
\* so the call answers 500 whatever it was about to say; its transaction is
\* left to the server.
Disconnect(c) ==
  /\ Connected(c)
  /\ Finish(c, 500, None)
  /\ UNCHANGED <<dbVars, metricVars, clock>>

\* An API process dies: its calls are never answered, its metrics start anew.
Crash(i) ==
  /\ call' = [c \in Calls |->
       IF call[c].instance = i /\ call[c].at # "answered"
       THEN [call[c] EXCEPT !.at = "lost"] ELSE call[c]]
  /\ leased' = {c \in leased : call[c].instance # i}
  /\ conflicts' = [conflicts EXCEPT ![i] = 0]
  /\ replays' = [replays EXCEPT ![i] = 0]
  /\ UNCHANGED <<dbVars, clock>>

-----------------------------------------------------------------------------
(* The server half *)

\* COMMIT takes effect: the order and its record appear together, in place of
\* the expired record, and the advisory lock is given back.
ApplyCommit(c) ==
  /\ txn[c].state = "committing"
  /\ txn' = [txn EXCEPT ![c].state = "committed"]
  /\ lock' = Unlock(c)
  /\ orders' = IF txn[c].places THEN orders \cup {c} ELSE orders
  /\ records' = [k \in Keys |->
       IF k # call[c].key THEN records[k]
       ELSE IF txn[c].binds
            THEN [order |-> c, request |-> call[c].input,
                  expires |-> txn[c].now + Retention]
            ELSE VisibleRecord(c)]
  /\ UNCHANGED <<call, leased, metricVars, clock>>

\* The server notices that the connection is gone and aborts.  A COMMIT that
\* had not arrived is aborted with the rest.
AbortOrphan(c) ==
  /\ Orphaned(c)
  /\ txn[c].state \in {"open", "committing"}
  /\ txn' = [txn EXCEPT ![c].state = "aborted"]
  /\ lock' = Unlock(c)
  /\ UNCHANGED <<call, leased, orders, records, metricVars, clock>>

Tick == /\ clock < MaxTime
        /\ clock' = clock + 1
        /\ UNCHANGED <<call, dbVars, leased, metricVars>>

-----------------------------------------------------------------------------
\* What the program and the database do of their own accord, if given time.
Step(c) == \/ Connect(c) \/ Begin(c) \/ AcquireLock(c) \/ DeleteExpired(c)
           \/ SelectConflict(c) \/ SelectReplay(c) \/ SelectNothing(c)
           \/ InsertOrder(c) \/ InsertRecord(c)
           \/ CommitReturns(c) \/ Rollback(c)

Fault(c) == ConnectFails(c) \/ StatementFails(c) \/ Disconnect(c)

ServerStep(c) == ApplyCommit(c) \/ AbortOrphan(c)

Next == \/ \E c \in Calls, i \in Instances, h \in Headers \cup {NoKey}, b \in Bodies :
             Receive(c, i, h, b)
        \/ \E c \in Calls : Step(c) \/ Fault(c) \/ ServerStep(c)
        \/ \E i \in Instances : Crash(i)
        \/ Tick

Spec == Init /\ [][Next]_vars

\* Promises are resolved, queries are run and dead connections are noticed.
\* No fairness on requests, faults, crashes and the clock.
Fairness == \A c \in Calls : WF_vars(Step(c)) /\ WF_vars(ServerStep(c))

FairSpec == Spec /\ Fairness
-----------------------------------------------------------------------------
(* Properties *)

TypeOK ==
  /\ call \in [Calls -> CallType]
  /\ txn \in [Calls -> TxnType]
  /\ leased \subseteq Calls
  /\ lock \in [Keys -> Calls \cup {None}]
  /\ orders \subseteq Calls
  /\ records \in [Keys -> RecordType]
  /\ conflicts \in [Instances -> Nat]
  /\ replays \in [Instances -> Nat]
  /\ clock \in Nat

\* The orders placed under key k.
OrdersOf(k) == {c \in orders : call[c].key = k}

\* Two orders of one key are a whole retention apart, measured between the
\* BEGINs of their transactions: however calls interleave, fail, crash and
\* are retried on any instance, a key makes one order per window.
OneOrderPerWindow ==
  \A k \in Keys : \A c, d \in OrdersOf(k) :
    c # d => \/ txn[c].now + Retention <= txn[d].now
             \/ txn[d].now + Retention <= txn[c].now

\* No order commits without its replay record, and no record without its
\* order: a key with orders is bound to the newest of them, and a bound
\* record names a committed order of that key and request.
OrdersAreBound ==
  \A k \in Keys :
    /\ OrdersOf(k) # {} => /\ records[k] # NoRecord
                           /\ \A c \in OrdersOf(k) :
                                txn[c].now + Retention <= records[k].expires
    /\ records[k] # NoRecord =>
         /\ records[k].order \in OrdersOf(k)
         /\ records[k].request = call[records[k].order].input
         /\ records[k].expires = txn[records[k].order].now + Retention

\* What a call has been told stays true whatever happens after: 201 names its
\* own committed order, 200 an order of its key and input, 409 means the key
\* was used for another input; and told 200, 400 or 409 it placed nothing and
\* no transaction of its own can still place anything.
AnswersAreTrue ==
  \A c \in Calls :
    LET reply == call[c].reply
        placesNothing == c \notin orders /\ ~(txn[c].places /\ txn[c].state \in {"open", "committing"})
        sameKey == {d \in orders : call[d].key = call[c].key}
    IN  CASE reply.status = 201 -> reply.order = c /\ c \in orders
          [] reply.status = 200 -> /\ placesNothing
                                   /\ reply.order \in sameKey
                                   /\ call[reply.order].input = call[c].input
          [] reply.status = 409 -> /\ placesNothing
                                   /\ \E d \in sameKey : call[d].input # call[c].input
          [] reply.status = 400 -> placesNothing
          [] OTHER -> TRUE

\* The advisory lock makes the check at SELECT good until COMMIT: a call about
\* to insert its record finds the key still free, so the primary key never
\* turns a concurrent retry into a 500.
CheckStaysGood ==
  \A c \in Calls :
    call[c].at \in {"insertOrder", "insertRecord"} /\ Keyed(c)
    /\ txn[c].state = "open"
      => /\ VisibleRecord(c) = NoRecord
         /\ \A d \in Calls \ {c} : txn[d].binds /\ call[d].key = call[c].key
                                     => txn[d].state \in {"committed", "aborted"}

\* Exactly the calls that await a query hold a connection, and no instance
\* holds more than its pool has: no path through the function leaks one.
PoolAccounted ==
  /\ leased = {c \in Calls : Connected(c)}
  /\ \A i \in Instances :
       Cardinality({c \in leased : call[c].instance = i}) <= PoolMax

\* Whom c waits for: those who have the connections of its instance, or the one who
\* holds the lock of its key.
WaitsFor(c) ==
  CASE call[c].at = "connect" -> {d \in leased : call[d].instance = call[c].instance}
    [] call[c].at = "lock" -> {lock[call[c].key]} \ {None}
    [] OTHER -> {}

\* c has what it awaits, or the server has something to do for it.
GoesOn(c) ==
  \/ call[c].at = "connect" /\ Cardinality(WaitsFor(c)) < PoolMax
  \/ call[c].at = "lock" /\ WaitsFor(c) = {}
  \/ call[c].at \in {"begin", "delete", "select", "insertOrder", "rollback"}
  \/ /\ call[c].at = "insertRecord"
     /\ \A d \in Calls \ {c} : txn[d].binds /\ call[d].key = call[c].key
                                 => txn[d].state \in {"committed", "aborted"}
  \/ call[c].at = "commit" /\ txn[c].state \in {"committing", "committed"}
  \/ Orphaned(c) /\ txn[c].state \in {"open", "committing"}

\* Connections and locks are never waited for in a circle, although those who wait for
\* a lock keep a connection and a lock may outlive its caller: whoever waits waits
\* for calls that go on, or for calls of its pool that wait for a lock whose holder,
\* here or on another instance, goes on.  Nobody waits for a lock and has one.
NoCircularWait ==
  \A c \in Calls :
    /\ call[c].at = "lock" => \A k \in Keys : lock[k] # c
    /\ call[c].at \notin {"start", "answered", "lost"} /\ ~GoesOn(c) =>
         /\ WaitsFor(c) # {}
         /\ \A d \in WaitsFor(c) :
              GoesOn(d) \/ (WaitsFor(d) # {} /\ \A e \in WaitsFor(d) : GoesOn(e))

\* Metrics count outcomes: replays no more than the calls told 200, conflicts
\* no more than the calls that threw the conflict.
MetricsNeverOvercount ==
  \A i \in Instances :
    /\ replays[i] <= Cardinality({c \in Calls : /\ call[c].instance = i
                                                /\ call[c].reply.status = 200})
    /\ conflicts[i] <= Cardinality({c \in Calls : /\ call[c].instance = i
                                                  /\ call[c].error = 409})

\* While the database clock has not reached a record's expiry nothing takes
\* the record away or changes it, a rolled-back DELETE included.
LiveRecordsStay ==
  [][\A k \in Keys : records[k] # NoRecord /\ clock < records[k].expires
                       => records'[k] = records[k]]_vars

\* Every call received is answered, unless its process dies: waiting for a
\* connection or for the advisory lock never becomes waiting for ever, even
\* with all of the pool waiting for one key.
EveryCallEnds ==
  \A c \in Calls : call[c].at = "connect" ~> call[c].at \in {"answered", "lost"}

\* A key is not locked for ever by a caller that has gone away.
LocksAreReleased ==
  \A k \in Keys, c \in Calls : lock[k] = c ~> lock[k] # c

-----------------------------------------------------------------------------
(* The inductive invariant behind OneOrderPerWindow, OrdersAreBound and       *)
(* CheckStaysGood.                                                            *)

\* The two halves of a call agree on where it stands.
HalvesAgree(c) ==
  /\ call[c].at \in {"start", "connect", "begin"} => txn[c] = NoTxn
  /\ call[c].at \in {"lock", "delete", "select", "insertOrder", "insertRecord"}
       => txn[c].state = "open"
  /\ call[c].at \in {"lock", "delete", "select", "insertRecord"} => Keyed(c)
  /\ call[c].at \notin {"start", "answered", "lost"} => call[c].input \in Inputs
  /\ call[c].at = "commit" => txn[c].state \in {"committing", "committed"}
  /\ call[c].at = "rollback" => txn[c].state \in {"open", "aborted"}
  /\ c \in orders <=> txn[c].state = "committed" /\ txn[c].places

\* What a transaction has written, and that a keyed order is always bound.
WritesAgree(c) ==
  /\ txn[c].binds => /\ txn[c].places /\ Keyed(c) /\ call[c].input \in Inputs
                     /\ txn[c].state \notin {"none", "open"}
  /\ txn[c].state \in {"committing", "committed"} /\ txn[c].places /\ Keyed(c)
       => txn[c].binds
  /\ call[c].at \in {"lock", "delete", "select", "insertOrder"} => ~txn[c].places
  /\ call[c].at = "insertRecord" => txn[c].places

\* c has gone through AcquireLock and can still change its key's record.
Active(c) == Keyed(c) /\ \/ call[c].at \in {"delete", "select", "insertOrder", "insertRecord"}
                         \/ txn[c].state = "committing"

LockHeld(c) ==
  /\ Active(c) => lock[call[c].key] = c
  /\ \A k \in Keys : lock[k] = c => txn[c].state \in {"open", "committing"}

\* What c found under the lock still describes the committed record.
FindingsStand(c) ==
  /\ Active(c) /\ txn[c].deletes /\ call[c].at # "delete"
       => /\ records[call[c].key] # NoRecord
          /\ records[call[c].key].expires <= txn[c].now
  /\ Active(c) /\ (txn[c].places \/ call[c].at \in {"insertOrder", "insertRecord"})
       => VisibleRecord(c) = NoRecord
  /\ Active(c) /\ txn[c].state = "committing" /\ ~txn[c].places => ~txn[c].deletes

\* The database and the calls under way agree, and the tables are right: the
\* strengthening that every step preserves.
CallStands(c) == HalvesAgree(c) /\ WritesAgree(c) /\ LockHeld(c) /\ FindingsStand(c)

IInv == /\ TypeOK
        /\ \A c \in Calls : CallStands(c)
        /\ OrdersAreBound
        /\ OneOrderPerWindow

-----------------------------------------------------------------------------
(* What is true of the answers, beyond IInv: the invariant behind             *)
(* AnswersAreTrue, LiveRecordsStay, MetricsNeverOvercount and the refinement. *)

\* The request has passed both checks of Receive.
Valid(c) == call[c].key \in Keys \cup {NoKey} /\ call[c].input \in Inputs

\* Only a call received has asked for anything, only one that has come to COMMIT
\* has a row to replay, only one that has thrown has an error, and only one that
\* has finished has a reply.
FieldsAgree(c) ==
  /\ call[c].at = "start" => ~Valid(c)
  /\ call[c].at \notin {"start", "answered", "lost"} \/ txn[c].state # "none" => Valid(c)
  /\ call[c].at \notin {"commit", "answered", "lost"} => call[c].row = None
  /\ call[c].at \notin {"rollback", "answered", "lost"} => call[c].error = 0
  /\ call[c].at = "rollback" => call[c].error \in {409, 500}
  /\ call[c].at # "answered" => call[c].reply = NoReply
  /\ call[c].at = "answered" => call[c].reply.status # 0

\* c has found that its key is bound to another input.
Conflicting(c) == /\ Keyed(c)
                  /\ \E d \in OrdersOf(call[c].key) : call[d].input # call[c].input

\* c has found an order of its key and input, and placed none of its own.
Replaying(c) == /\ Keyed(c) /\ ~txn[c].places
                /\ call[c].row \in OrdersOf(call[c].key)
                /\ call[call[c].row].input = call[c].input

\* What c is about to answer or has answered is what it found and did.
FoundOut(c) ==
  /\ call[c].at = "rollback" /\ call[c].error = 409 => Conflicting(c)
  /\ call[c].at = "commit" => IF call[c].row # None THEN Replaying(c) ELSE txn[c].places
  /\ LET reply == call[c].reply
     IN  /\ reply.status = 200 => /\ Replaying(c) /\ txn[c].state = "committed"
                                  /\ reply.order = call[c].row
         /\ reply.status = 201 => c \in orders /\ reply.order = c
         /\ reply.status = 400 => txn[c] = NoTxn /\ ~Valid(c)
         /\ reply.status = 409 => Conflicting(c) /\ txn[c].state = "aborted"
         /\ reply.status \in {400, 409, 500} => reply.order = None

\* No transaction began in the future, and the clock keeps its bound.
TimesAgree == /\ clock \in 0 .. MaxTime
              /\ \A c \in Calls : txn[c].now <= clock

AnswerInv == /\ TimesAgree
             /\ \A c \in Calls : FieldsAgree(c) /\ FoundOut(c)

-----------------------------------------------------------------------------
(* The promise of the service, IdempotentOrders, is kept. *)

requestOf == [c \in Calls |->
  IF call[c].key \in Keys \cup {NoKey} /\ call[c].input \in Inputs
  THEN [key |-> call[c].key, input |-> call[c].input] ELSE None]

answerOf == [c \in Calls |-> IF call[c].reply = NoReply THEN None ELSE call[c].reply]

Promise == INSTANCE IdempotentOrders WITH
  Times    <- 0 .. MaxTime,
  request  <- requestOf,
  latest   <- [k \in Keys |-> records[k].order],
  placedAt <- [c \in Calls |-> IF c \in orders THEN txn[c].now ELSE 0],
  answer   <- answerOf

\* The steps of the transaction implement the one-step promise.
ImplementsPromise == Promise!Spec
=============================================================================
