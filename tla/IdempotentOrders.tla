-------------------------- MODULE IdempotentOrders --------------------------
(***************************************************************************)
(* What POST /orders promises its clients, without connections, locks,     *)
(* transactions or SQL: an order and its key are bound in one step, a key    *)
(* is bound to one order at a time, and an answer never contradicts what was *)
(* placed.  OrderService implements this specification.                    *)
(***************************************************************************)
EXTENDS Integers

CONSTANTS Calls,      \* the calls clients make; an order is named by its call
          Keys,       \* idempotency keys
          NoKey,      \* the request carries no key
          Inputs,     \* what can be ordered
          Retention,  \* how long a key stays bound to its order
          Times,      \* what the clock can read
          None        \* no request, no order, no answer

VARIABLES request,    \* the valid request of each call, once received
          orders,     \* the calls whose order exists
          latest,     \* the order each key is bound to
          placedAt,   \* the time an order's retention counts from
          answer      \* what each call was told

vars == <<request, orders, latest, placedAt, answer>>

Requests == [key : Keys \cup {NoKey}, input : Inputs]

Init == /\ request = [c \in Calls |-> None]
        /\ orders = {}
        /\ latest = [k \in Keys |-> None]
        /\ placedAt = [c \in Calls |-> 0]
        /\ answer = [c \in Calls |-> None]

Waiting(c) == request[c] # None /\ answer[c] = None

SameKey(c, d) == /\ request[c].key \in Keys
                 /\ request[d].key = request[c].key

Tell(c, status, order) ==
  /\ answer' = [answer EXCEPT ![c] = [status |-> status, order |-> order]]
  /\ UNCHANGED <<request, orders, latest, placedAt>>

\* A valid request arrives.
Ask(c) ==
  /\ request[c] = None
  /\ answer[c] = None
  /\ \E r \in Requests : request' = [request EXCEPT ![c] = r]
  /\ UNCHANGED <<orders, latest, placedAt, answer>>

\* An invalid request is turned away and leaves no trace.
Reject(c) == request[c] = None /\ answer[c] = None /\ Tell(c, 400, None)

\* An order comes to exist, bound to its key if it has one: the key must be
\* unbound or its order's retention over.  A call told 500 may still be placed.
Place(c) ==
  /\ request[c] # None
  /\ c \notin orders
  /\ answer[c] \in {None, [status |-> 500, order |-> None]}
  /\ \E t \in Times :
       /\ \A k \in Keys : k = request[c].key /\ latest[k] # None
                           => placedAt[latest[k]] + Retention <= t
       /\ placedAt' = [placedAt EXCEPT ![c] = t]
  /\ latest' = [k \in Keys |-> IF k = request[c].key THEN c ELSE latest[k]]
  /\ orders' = orders \cup {c}
  /\ UNCHANGED <<request, answer>>

\* 201: the call's own order exists.
Created(c) == Waiting(c) /\ c \in orders /\ Tell(c, 201, c)

\* 200: an order of the same key and input exists, and none of the call's own.
Replayed(c) ==
  /\ Waiting(c)
  /\ c \notin orders
  /\ \E d \in orders : /\ SameKey(c, d)
                       /\ request[d].input = request[c].input
                       /\ Tell(c, 200, d)

\* 409: the key was used for another input, and the call placed nothing.
Conflict(c) ==
  /\ Waiting(c)
  /\ c \notin orders
  /\ \E d \in orders : SameKey(c, d) /\ request[d].input # request[c].input
  /\ Tell(c, 409, None)

\* 500: nothing is promised.
Fail(c) == Waiting(c) /\ Tell(c, 500, None)

Next == \E c \in Calls : \/ Ask(c) \/ Reject(c) \/ Place(c) \/ Created(c)
                         \/ Replayed(c) \/ Conflict(c) \/ Fail(c)

Spec == Init /\ [][Next]_vars
=============================================================================
