------------------------- MODULE IdempotentOrders -------------------------
(***************************************************************************)
(* POST /orders statement by statement.  Several requests, some with the   *)
(* same Idempotency-Key, run CreateOrderUseCase at the same time, each in  *)
(* a transaction of its own; the primary key of idempotency_keys is what   *)
(* tells them apart.  A client repeats its request as often as it likes.   *)
(*                                                                         *)
(* The payload hash is the cart itself: sha256 of the lines in the order   *)
(* sent.  An order id of a transaction that rolled back can be drawn       *)
(* again, since nobody has seen it.                                        *)
(***************************************************************************)
EXTENDS Cart

CONSTANTS
  Orders,       \* the order ids uuid4 may return
  Keys,         \* Idempotency-Key values
  Requests,     \* the requests clients send and repeat
  RequestKey,   \* the key of each request
  RequestCart,  \* the lines of each request
  MaxFaults     \* bound: how often PostgreSQL, the API or the network fail

ASSUME RequestAssumption ==
  /\ RequestKey \in [Requests -> Keys]
  /\ RequestCart \in [Requests -> Carts]
  /\ Orders # {}
  /\ MaxFaults \in Nat

VARIABLES
  orders,       \* the committed orders and their lines
  outbox,       \* the orders of the committed OrderCreated events, by commit
  idempotency,  \* the committed idempotency_keys: payload and order of a key
  pc,           \* how far each request's transaction has come
  order_id,     \* the order id a transaction has drawn
  replies,      \* the answers each request has had
  faults        \* how many faults have happened

vars == <<orders, outbox, idempotency, pc, order_id, replies, faults>>

tables == <<orders, outbox, idempotency>>

Ok(o) == [code |-> 200, order |-> o]
Conflict == [code |-> 409]
Unavailable == [code |-> 503]

TypeOK ==
  /\ DOMAIN orders \subseteq Orders
  /\ orders \in [DOMAIN orders -> Carts]
  /\ outbox \in Seq(Orders)
  /\ DOMAIN idempotency \subseteq Keys
  /\ idempotency \in [DOMAIN idempotency -> [payload : Carts, order : Orders]]
  /\ pc \in [Requests -> {"idle", "checked", "flushed", "keyed"}]
  /\ order_id \in [Requests -> Orders]
  /\ replies \in [Requests -> SUBSET ({ Ok(o) : o \in Orders } \cup {Conflict, Unavailable})]
  /\ faults \in 0..MaxFaults

-----------------------------------------------------------------------------
Init ==
  /\ orders = [o \in {} |-> <<>>]
  /\ outbox = <<>>
  /\ idempotency = [k \in {} |-> <<>>]
  /\ pc = [r \in Requests |-> "idle"]
  /\ order_id = [r \in Requests |-> CHOOSE o \in Orders : TRUE]   \* not read before it is drawn
  /\ replies = [r \in Requests |-> {}]
  /\ faults = 0

\* The transaction of r ends, the client gets its answer.
Reply(r, answer) ==
  /\ pc' = [pc EXCEPT ![r] = "idle"]
  /\ replies' = [replies EXCEPT ![r] = @ \cup {answer}]

Recorded(r) == RequestKey[r] \in DOMAIN idempotency

\* Mutant: the payload of the recorded key is not compared.
SamePayloadUnchecked(r) == TRUE

SamePayload(r) == idempotency[RequestKey[r]].payload = RequestCart[r]

\* A request arrives, and idempotency.get finds no committed row for its key.
Check(r) ==
  /\ pc[r] = "idle"
  /\ ~Recorded(r)
  /\ pc' = [pc EXCEPT ![r] = "checked"]
  /\ UNCHANGED <<tables, order_id, replies, faults>>

\* It finds one: the recorded response, or a conflict.
AnswerRecorded(r) ==
  /\ pc[r] = "idle"
  /\ Recorded(r)
  /\ Reply(r, IF SamePayload(r) THEN Ok(idempotency[RequestKey[r]].order) ELSE Conflict)
  /\ UNCHANGED <<tables, order_id, faults>>

InFlight == { r \in Requests : pc[r] \in {"flushed", "keyed"} }

\* The order ids nobody holds: uuid4 never repeats one.
FreshOrders == Orders \ (DOMAIN orders \cup { order_id[r] : r \in InFlight })

\* orders.add and events.append: the flush inserts the order, its items and
\* its event, invisible to the others until the commit.  Which fresh id it
\* draws makes no difference.
FlushOrder(r) ==
  /\ pc[r] = "checked"
  /\ FreshOrders # {}
  /\ order_id' = [order_id EXCEPT ![r] = CHOOSE o \in FreshOrders : TRUE]
  /\ pc' = [pc EXCEPT ![r] = "flushed"]
  /\ UNCHANGED <<tables, replies, faults>>

\* Another transaction has inserted the key and has not ended: the INSERT waits.
KeyLocked(r) ==
  \E q \in Requests \ {r} : pc[q] = "keyed" /\ RequestKey[q] = RequestKey[r]

\* Mutant: an index that is not unique.
KeyTakenNever(r) == FALSE

\* The INSERT of the key violates the primary key.
KeyTaken(r) == Recorded(r)

\* commit() flushes the row of the key.
InsertKey(r) ==
  /\ pc[r] = "flushed"
  /\ ~KeyLocked(r)
  /\ ~KeyTaken(r)
  /\ pc' = [pc EXCEPT ![r] = "keyed"]
  /\ UNCHANGED <<tables, order_id, replies, faults>>

\* Mutant: the error is caught and the INSERT tried again, without a new look.
AfterIntegrityErrorRetry(r) == pc' = [pc EXCEPT ![r] = "flushed"] /\ UNCHANGED replies

\* IntegrityError is a SQLAlchemyError: rollback, and 503 for the client.
AfterIntegrityError(r) == Reply(r, Unavailable)

KeyConflict(r) ==
  /\ pc[r] = "flushed"
  /\ ~KeyLocked(r)
  /\ KeyTaken(r)
  /\ AfterIntegrityError(r)
  /\ UNCHANGED <<tables, order_id, faults>>

\* Mutant: the event is published in a transaction of its own.
WithoutEvent(o) == UNCHANGED outbox

WithEvent(o) == outbox' = Append(outbox, o)

\* COMMIT makes order, event and key visible together.
MakeVisible(r) ==
  /\ orders' = [o \in DOMAIN orders \cup {order_id[r]} |->
                  IF o = order_id[r] THEN RequestCart[r] ELSE orders[o]]
  /\ WithEvent(order_id[r])
  /\ idempotency' = [k \in DOMAIN idempotency \cup {RequestKey[r]} |->
                       IF k = RequestKey[r]
                         THEN [payload |-> RequestCart[r], order |-> order_id[r]]
                         ELSE idempotency[k]]

Commit(r) ==
  /\ pc[r] = "keyed"
  /\ MakeVisible(r)
  /\ Reply(r, Ok(order_id[r]))
  /\ UNCHANGED <<order_id, faults>>

\* A statement or the commit raises, or the API dies: the transaction is
\* rolled back, unless the commit did take effect.  The client sees an error.
Fails(r) ==
  /\ faults < MaxFaults
  /\ faults' = faults + 1
  /\ \/ UNCHANGED tables
     \/ pc[r] = "keyed" /\ MakeVisible(r)
  /\ Reply(r, Unavailable)
  /\ UNCHANGED order_id

Serve(r) ==
  \/ Check(r) \/ AnswerRecorded(r) \/ FlushOrder(r)
  \/ InsertKey(r) \/ KeyConflict(r) \/ Commit(r)

Next == \E r \in Requests : Serve(r) \/ Fails(r)

\* The API serves every request it has begun, and a client repeats a request
\* until it is answered.
Spec == Init /\ [][Next]_vars /\ \A r \in Requests : WF_vars(Serve(r))

-----------------------------------------------------------------------------
\* Transactions under way have drawn order ids of their own, and one that has
\* inserted its key is alone with it until it ends.
TransactionsApart ==
  /\ \A r \in InFlight : order_id[r] \notin DOMAIN orders
  /\ \A q, r \in InFlight : order_id[q] = order_id[r] => q = r
  /\ \A r \in Requests : pc[r] = "keyed" => ~Recorded(r) /\ ~KeyLocked(r)

\* The invariant the others rest on.
OrdersInv == TypeOK /\ TransactionsApart

\* Each key has its own order with the lines it was sent with, each order has
\* a key and one OrderCreated event: no order is created twice, lost or left
\* without its event, whichever requests race and wherever one fails.
OneOrderPerKey ==
  /\ \A k \in DOMAIN idempotency :
       /\ idempotency[k].order \in DOMAIN orders
       /\ orders[idempotency[k].order] = idempotency[k].payload
  /\ \A j, k \in DOMAIN idempotency : idempotency[j].order = idempotency[k].order => j = k
  /\ { idempotency[k].order : k \in DOMAIN idempotency } = DOMAIN orders
  /\ { outbox[i] : i \in DOMAIN outbox } = DOMAIN orders
  /\ Len(outbox) = Cardinality(DOMAIN orders)

\* The answers tell the truth and go on telling it: every 200 to a key names
\* the one order of the key, which has the lines of the request, and a 409 is
\* given only where the recorded payload differs.
AnswersAgree ==
  \A r \in Requests : \A reply \in replies[r] \ {Unavailable} :
    /\ Recorded(r)
    /\ LET recorded == idempotency[RequestKey[r]] IN
         reply = IF recorded.payload = RequestCart[r] THEN Ok(recorded.order) ELSE Conflict

\* The tables change as OrderFlow says: the statements of a request come to
\* one atomic CreateOrder.
Atomic == INSTANCE OrderFlow WITH
  Deltas <- {},
  MaxAdjustments <- 0,
  status <- [o \in Orders |-> IF o \in DOMAIN orders THEN "created" ELSE "absent"],
  items <- [o \in Orders |-> IF o \in DOMAIN orders THEN orders[o] ELSE <<>>],
  inventory <- [s \in {} |-> 0],
  shipments <- {},
  event_log <- [i \in DOMAIN outbox |-> [event_type |-> "OrderCreated", key |-> outbox[i]]],
  processed <- {},
  idempotency <- [k \in DOMAIN idempotency |-> idempotency[k].order]

\* The statement-level handler implements the atomic one of OrderFlow.
ImplementsCreateOrder == Atomic!Spec

\* A client that repeats its request gets an answer in the end.
EveryRequestAnswered ==
  \A r \in Requests : <>(replies[r] \ {Unavailable} # {})

\* What the README says of POST /orders: a request whose key is known gets the
\* recorded result or 409, here for a database that never fails.
NeverUnavailable == \A r \in Requests : Unavailable \notin replies[r]
=============================================================================
