---------------------- MODULE IdempotentOrdersProofs ----------------------
(***************************************************************************)
(* Safety of POST /orders, for any requests, keys, carts and faults.       *)
(* OrdersInv is inductive: the transactions under way are apart.  That     *)
(* each key has one order needs it only where a transaction becomes        *)
(* visible, and that the answers agree needs both.  The statements then    *)
(* implement the atomic CreateOrder of OrderFlow.                          *)
(***************************************************************************)
EXTENDS IdempotentOrders, FiniteSetTheorems, SequenceTheorems, TLAPS

USE RequestAssumption

\* A transaction under way and what it may rely on.
Apart(r) ==
  /\ r \in InFlight => order_id[r] \notin DOMAIN orders
  /\ \A q \in InFlight : r \in InFlight /\ order_id[q] = order_id[r] => q = r
  /\ pc[r] = "keyed" => ~Recorded(r) /\ ~KeyLocked(r)

LEMMA ApartParts ==
  /\ TransactionsApart <=> \A r \in Requests : Apart(r)
  /\ TransactionsApart' <=> \A r \in Requests : Apart(r)'
  BY DEF TransactionsApart, Apart, InFlight

\* The tables after a transaction became visible.
LEMMA VisibleTables ==
  ASSUME TypeOK, NEW r \in Requests, MakeVisible(r)
  PROVE  /\ DOMAIN orders' = DOMAIN orders \cup {order_id[r]}
         /\ orders'[order_id[r]] = RequestCart[r]
         /\ \A o \in DOMAIN orders : o # order_id[r] => orders'[o] = orders[o]
         /\ DOMAIN idempotency' = DOMAIN idempotency \cup {RequestKey[r]}
         /\ idempotency'[RequestKey[r]] = [payload |-> RequestCart[r], order |-> order_id[r]]
         /\ \A k \in DOMAIN idempotency : k # RequestKey[r] => idempotency'[k] = idempotency[k]
         /\ outbox' = Append(outbox, order_id[r])
         /\ DOMAIN orders' \subseteq Orders
         /\ orders' \in [DOMAIN orders' -> Carts]
         /\ outbox' \in Seq(Orders)
         /\ DOMAIN idempotency' \subseteq Keys
         /\ idempotency' \in [DOMAIN idempotency' -> [payload : Carts, order : Orders]]
  BY DEF TypeOK, MakeVisible, WithEvent

\* An answer of one of the three kinds ends a transaction.
LEMMA ReplyType ==
  ASSUME TypeOK, NEW r \in Requests,
         NEW answer \in { Ok(o) : o \in Orders } \cup {Conflict, Unavailable},
         Reply(r, answer)
  PROVE  /\ pc' \in [Requests -> {"idle", "checked", "flushed", "keyed"}]
         /\ replies' \in
              [Requests -> SUBSET ({ Ok(o) : o \in Orders } \cup {Conflict, Unavailable})]
         /\ pc' = [pc EXCEPT ![r] = "idle"]
  <1>1. replies[r] \cup {answer} \in SUBSET ({ Ok(o) : o \in Orders } \cup {Conflict, Unavailable})
    BY DEF TypeOK
  <1> QED
    BY <1>1 DEF TypeOK, Reply

-----------------------------------------------------------------------------
\* A transaction that ends without effect leaves the others as they were.
LEMMA EndKeepsApart ==
  ASSUME OrdersInv, NEW r \in Requests, pc' = [pc EXCEPT ![r] = "idle"],
         UNCHANGED <<tables, order_id>>
  PROVE  TransactionsApart'
  <1> SUFFICES ASSUME NEW q \in Requests PROVE Apart(q)'
    BY ApartParts
  <1>1. /\ pc \in [Requests -> {"idle", "checked", "flushed", "keyed"}]
        /\ UNCHANGED <<orders, outbox, idempotency, order_id>>
        /\ \A p \in Requests : Apart(p)
    BY ApartParts DEF OrdersInv, TypeOK, tables
  <1>2. InFlight' \subseteq InFlight
    BY <1>1 DEF InFlight
  <1>3. pc'[q] = "keyed" => ~Recorded(q)' /\ ~KeyLocked(q)'
    BY <1>1 DEF Apart, Recorded, KeyLocked
  <1> QED
    BY <1>1, <1>2, <1>3 DEF Apart

\* One that becomes visible ends as well, with an order id and a key that no
\* other transaction under way has.
LEMMA VisibleKeepsApart ==
  ASSUME OrdersInv, NEW r \in Requests, pc[r] = "keyed", MakeVisible(r),
         pc' = [pc EXCEPT ![r] = "idle"], UNCHANGED order_id
  PROVE  TransactionsApart'
  <1> SUFFICES ASSUME NEW q \in Requests PROVE Apart(q)'
    BY ApartParts
  <1>1. /\ pc \in [Requests -> {"idle", "checked", "flushed", "keyed"}]
        /\ r \in InFlight
        /\ \A p \in Requests : Apart(p)
    BY ApartParts DEF OrdersInv, TypeOK, InFlight
  <1>2. InFlight' = InFlight \ {r}
    BY <1>1 DEF InFlight
  <1>3. /\ DOMAIN orders' = DOMAIN orders \cup {order_id[r]}
        /\ DOMAIN idempotency' = DOMAIN idempotency \cup {RequestKey[r]}
    BY VisibleTables DEF OrdersInv
  <1>4. q \in InFlight' => order_id'[q] \notin DOMAIN orders'
    BY <1>1, <1>2, <1>3 DEF Apart
  <1>5. pc'[q] = "keyed" => ~Recorded(q)' /\ ~KeyLocked(q)'
    BY <1>1, <1>3 DEF Apart, Recorded, KeyLocked
  <1> QED
    BY <1>1, <1>2, <1>4, <1>5 DEF Apart

LEMMA EndInv ==
  ASSUME OrdersInv, NEW r \in Requests,
         AnswerRecorded(r) \/ KeyConflict(r) \/ Commit(r) \/ Fails(r)
  PROVE  OrdersInv'
  <1>1. TypeOK
    BY DEF OrdersInv
  <1>2. ASSUME AnswerRecorded(r) PROVE OrdersInv'
    <2>1. (IF SamePayload(r) THEN Ok(idempotency[RequestKey[r]].order) ELSE Conflict)
             \in { Ok(o) : o \in Orders } \cup {Conflict, Unavailable}
      BY <1>1, <1>2 DEF AnswerRecorded, Recorded, TypeOK
    <2>2. TypeOK' /\ pc' = [pc EXCEPT ![r] = "idle"]
      BY <1>1, <1>2, <2>1, ReplyType DEF AnswerRecorded, tables, TypeOK
    <2> QED
      BY <1>2, <2>2, EndKeepsApart DEF AnswerRecorded, OrdersInv
  <1>3. ASSUME KeyConflict(r) PROVE OrdersInv'
    <2>1. TypeOK' /\ pc' = [pc EXCEPT ![r] = "idle"]
      BY <1>1, <1>3, ReplyType DEF KeyConflict, AfterIntegrityError, tables, TypeOK
    <2> QED
      BY <1>3, <2>1, EndKeepsApart DEF KeyConflict, OrdersInv
  <1>4. ASSUME Commit(r) PROVE OrdersInv'
    <2>1. Ok(order_id[r]) \in { Ok(o) : o \in Orders } \cup {Conflict, Unavailable}
      BY <1>1 DEF TypeOK
    <2>2. TypeOK' /\ pc' = [pc EXCEPT ![r] = "idle"]
      BY <1>1, <1>4, <2>1, ReplyType, VisibleTables DEF Commit, TypeOK
    <2> QED
      BY <1>4, <2>2, VisibleKeepsApart DEF Commit, OrdersInv
  <1>5. ASSUME Fails(r) PROVE OrdersInv'
    <2>1. /\ pc' = [pc EXCEPT ![r] = "idle"]
          /\ pc' \in [Requests -> {"idle", "checked", "flushed", "keyed"}]
          /\ replies' \in
               [Requests -> SUBSET ({ Ok(o) : o \in Orders } \cup {Conflict, Unavailable})]
          /\ faults' \in 0..MaxFaults
          /\ order_id' = order_id
      BY <1>1, <1>5, ReplyType DEF Fails, TypeOK
    <2>2. CASE UNCHANGED tables
      BY <1>1, <2>1, <2>2, EndKeepsApart DEF OrdersInv, TypeOK, tables
    <2>3. CASE pc[r] = "keyed" /\ MakeVisible(r)
      BY <1>1, <2>1, <2>3, VisibleTables, VisibleKeepsApart DEF OrdersInv, TypeOK
    <2> QED
      BY <1>5, <2>2, <2>3 DEF Fails
  <1> QED
    BY <1>2, <1>3, <1>4, <1>5

LEMMA OnwardInv ==
  ASSUME OrdersInv, NEW r \in Requests, Check(r) \/ FlushOrder(r) \/ InsertKey(r)
  PROVE  OrdersInv'
  <1>1. /\ TypeOK
        /\ pc \in [Requests -> {"idle", "checked", "flushed", "keyed"}]
        /\ order_id \in [Requests -> Orders]
        /\ \A p \in Requests : Apart(p)
    BY ApartParts DEF OrdersInv, TypeOK
  <1>2. ASSUME Check(r) PROVE OrdersInv'
    <2>1. TypeOK' /\ InFlight' = InFlight
      BY <1>1, <1>2 DEF Check, TypeOK, tables, InFlight
    <2>2. ASSUME NEW q \in Requests PROVE Apart(q)'
      BY <1>1, <1>2, <2>1 DEF Check, Apart, tables, Recorded, KeyLocked
    <2> QED
      BY <2>1, <2>2, ApartParts DEF OrdersInv
  <1>3. ASSUME FlushOrder(r) PROVE OrdersInv'
    <2>1. PICK o \in FreshOrders : order_id' = [order_id EXCEPT ![r] = o]
      BY <1>3 DEF FlushOrder
    <2>2. /\ o \in Orders /\ o \notin DOMAIN orders
          /\ \A q \in InFlight : order_id[q] # o
          /\ order_id'[r] = o
          /\ \A q \in Requests \ {r} : order_id'[q] = order_id[q]
      BY <1>1, <2>1 DEF FreshOrders
    <2>3. InFlight' = InFlight \cup {r} /\ r \notin InFlight
      BY <1>1, <1>3 DEF FlushOrder, InFlight
    <2>4. TypeOK'
      BY <1>1, <1>3, <2>1, <2>2 DEF FlushOrder, TypeOK, tables
    <2>5. ASSUME NEW q \in Requests PROVE Apart(q)'
      <3>1. pc'[q] = "keyed" => ~Recorded(q)' /\ ~KeyLocked(q)'
        BY <1>1, <1>3 DEF FlushOrder, Apart, tables, Recorded, KeyLocked
      <3>2. q \in InFlight' => order_id'[q] \notin DOMAIN orders'
        BY <1>1, <1>3, <2>2, <2>3 DEF FlushOrder, Apart, tables
      <3>3. ASSUME NEW p \in InFlight', q \in InFlight', order_id'[p] = order_id'[q]
            PROVE  p = q
        <4>1. p \in Requests
          BY DEF InFlight
        <4> QED
          BY <1>1, <2>2, <2>3, <3>3, <4>1 DEF Apart
      <3> QED
        BY <3>1, <3>2, <3>3 DEF Apart
    <2> QED
      BY <2>4, <2>5, ApartParts DEF OrdersInv
  <1>4. ASSUME InsertKey(r) PROVE OrdersInv'
    <2>1. TypeOK' /\ InFlight' = InFlight
      BY <1>1, <1>4 DEF InsertKey, TypeOK, tables, InFlight
    <2>2. ASSUME NEW q \in Requests PROVE Apart(q)'
      BY <1>1, <1>4, <2>1 DEF InsertKey, Apart, tables, KeyTaken, Recorded, KeyLocked
    <2> QED
      BY <2>1, <2>2, ApartParts DEF OrdersInv
  <1> QED
    BY <1>2, <1>3, <1>4

LEMMA OrdersStep == OrdersInv /\ [Next]_vars => OrdersInv'
  <1> SUFFICES ASSUME OrdersInv, [Next]_vars PROVE OrdersInv'
    OBVIOUS
  <1>1. CASE UNCHANGED vars
    BY <1>1 DEF vars, OrdersInv, TypeOK, TransactionsApart, InFlight, Recorded, KeyLocked
  <1> QED
    BY <1>1, EndInv, OnwardInv DEF Next, Serve

\* Requests that race under one key never hold it together, and never an
\* order id that is taken (CreateOrderUseCase and idempotency_keys).
THEOREM Apartness == Spec => []OrdersInv
  <1>1. Init => OrdersInv
    BY DEF Init, OrdersInv, TypeOK, TransactionsApart, InFlight
  <1> QED
    BY <1>1, OrdersStep, PTL DEF Spec

-----------------------------------------------------------------------------
KeysInv == OneOrderPerKey /\ IsFiniteSet(DOMAIN orders)

\* Appending an order to the outbox adds one entry.
LEMMA AppendFacts ==
  ASSUME NEW s \in Seq(Orders), NEW o \in Orders
  PROVE  /\ Len(Append(s, o)) = Len(s) + 1
         /\ { Append(s, o)[i] : i \in DOMAIN Append(s, o) } = { s[i] : i \in DOMAIN s } \cup {o}
  <1>1. /\ Len(Append(s, o)) = Len(s) + 1
        /\ DOMAIN Append(s, o) = DOMAIN s \cup {Len(s) + 1}
        /\ \A i \in DOMAIN s : Append(s, o)[i] = s[i]
        /\ Append(s, o)[Len(s) + 1] = o
    OBVIOUS
  <1> QED
    BY <1>1

\* A transaction that becomes visible brings a new order, a new key and one
\* event for the order.
LEMMA VisibleKeepsKeys ==
  ASSUME OrdersInv, KeysInv, NEW r \in Requests, pc[r] = "keyed", MakeVisible(r)
  PROVE  KeysInv'
  <1> DEFINE new == order_id[r]
  <1>1. /\ TypeOK
        /\ new \in Orders
        /\ new \notin DOMAIN orders
        /\ RequestKey[r] \notin DOMAIN idempotency
        /\ outbox \in Seq(Orders)
    BY DEF OrdersInv, TypeOK, TransactionsApart, InFlight, Recorded
  <1>2. /\ DOMAIN orders' = DOMAIN orders \cup {new}
        /\ orders'[new] = RequestCart[r]
        /\ \A o \in DOMAIN orders : orders'[o] = orders[o]
        /\ DOMAIN idempotency' = DOMAIN idempotency \cup {RequestKey[r]}
        /\ idempotency'[RequestKey[r]].payload = RequestCart[r]
        /\ idempotency'[RequestKey[r]].order = new
        /\ \A k \in DOMAIN idempotency : idempotency'[k] = idempotency[k]
        /\ outbox' = Append(outbox, new)
    <2>1. /\ idempotency'[RequestKey[r]] = [payload |-> RequestCart[r], order |-> new]
          /\ DOMAIN idempotency' = DOMAIN idempotency \cup {RequestKey[r]}
          /\ \A k \in DOMAIN idempotency : idempotency'[k] = idempotency[k]
      BY <1>1, VisibleTables
    <2>2. /\ DOMAIN orders' = DOMAIN orders \cup {new}
          /\ orders'[new] = RequestCart[r]
          /\ \A o \in DOMAIN orders : orders'[o] = orders[o]
          /\ outbox' = Append(outbox, new)
      BY <1>1, VisibleTables
    <2> QED
      BY <2>1, <2>2
  <1>3. /\ IsFiniteSet(DOMAIN orders')
        /\ Cardinality(DOMAIN orders') = Cardinality(DOMAIN orders) + 1
    BY <1>1, <1>2, FS_AddElement DEF KeysInv
  <1> HIDE DEF new
  <1>4. \A k \in DOMAIN idempotency :
          idempotency[k].order \in DOMAIN orders /\ idempotency[k].order # new
    BY <1>1 DEF KeysInv, OneOrderPerKey
  <1>5. /\ \A k \in DOMAIN idempotency' :
             /\ idempotency'[k].order \in DOMAIN orders'
             /\ orders'[idempotency'[k].order] = idempotency'[k].payload
        /\ \A j, k \in DOMAIN idempotency' :
             idempotency'[j].order = idempotency'[k].order => j = k
    BY <1>2, <1>4 DEF KeysInv, OneOrderPerKey
  <1>6. { idempotency'[k].order : k \in DOMAIN idempotency' } = DOMAIN orders'
    <2>1. { idempotency'[k].order : k \in DOMAIN idempotency' }
            = { idempotency[k].order : k \in DOMAIN idempotency } \cup {new}
      BY <1>2
    <2> QED
      BY <1>2, <2>1 DEF KeysInv, OneOrderPerKey
  <1>7. { outbox'[i] : i \in DOMAIN outbox' } = DOMAIN orders'
    <2>1. { outbox'[i] : i \in DOMAIN outbox' } = { outbox[i] : i \in DOMAIN outbox } \cup {new}
      <3>1. outbox \in Seq(Orders) /\ new \in Orders /\ outbox' = Append(outbox, new)
        BY <1>1, <1>2
      <3>2. { Append(outbox, new)[i] : i \in DOMAIN Append(outbox, new) }
              = { outbox[i] : i \in DOMAIN outbox } \cup {new}
        BY <3>1, AppendFacts
      <3> QED
        BY <3>1, <3>2, Zenon
    <2> QED
      BY <1>2, <2>1 DEF KeysInv, OneOrderPerKey
  <1>8. Len(outbox') = Cardinality(DOMAIN orders')
    BY <1>1, <1>2, <1>3, AppendFacts DEF KeysInv, OneOrderPerKey
  <1> QED
    BY <1>3, <1>5, <1>6, <1>7, <1>8 DEF KeysInv, OneOrderPerKey

\* A step changes no table, or makes one transaction visible.
LEMMA TablesStep ==
  ASSUME [Next]_vars
  PROVE  \/ UNCHANGED tables
         \/ \E r \in Requests : pc[r] = "keyed" /\ MakeVisible(r)
  BY DEF Next, Serve, Check, AnswerRecorded, FlushOrder, InsertKey, KeyConflict, Commit,
     Fails, vars, tables

LEMMA KeysStep == OrdersInv /\ KeysInv /\ [Next]_vars => KeysInv'
  <1> SUFFICES ASSUME OrdersInv, KeysInv, [Next]_vars PROVE KeysInv'
    OBVIOUS
  <1>1. CASE UNCHANGED tables
    BY <1>1 DEF tables, KeysInv, OneOrderPerKey
  <1>2. CASE \E r \in Requests : pc[r] = "keyed" /\ MakeVisible(r)
    BY <1>2, VisibleKeepsKeys
  <1> QED
    BY <1>1, <1>2, TablesStep

LEMMA KeysCorrect == Spec => []KeysInv
  <1>1. Init => KeysInv
    <2> SUFFICES ASSUME Init PROVE KeysInv
      OBVIOUS
    <2>1. DOMAIN orders = {} /\ DOMAIN idempotency = {} /\ outbox = <<>>
      BY DEF Init
    <2> QED
      BY <2>1, FS_EmptySet DEF KeysInv, OneOrderPerKey
  <1> QED
    BY <1>1, KeysStep, Apartness, PTL DEF Spec

\* No order is created twice under a key, lost, or left without its event
\* (CreateOrderUseCase, whichever requests race and wherever one fails).
THEOREM OneOrder == Spec => []OneOrderPerKey
  BY KeysCorrect, PTL DEF KeysInv

-----------------------------------------------------------------------------
\* What a reply to r must be, once it is not a 503.
Agrees(r, reply) ==
  /\ Recorded(r)
  /\ LET recorded == idempotency[RequestKey[r]] IN
       reply = IF recorded.payload = RequestCart[r] THEN Ok(recorded.order) ELSE Conflict

\* What agrees goes on agreeing, since no recorded key changes.
LEMMA AgreementStays ==
  ASSUME OrdersInv, [Next]_vars, NEW q \in Requests, NEW reply, Agrees(q, reply)
  PROVE  Agrees(q, reply)'
  <1>1. CASE UNCHANGED tables
    BY <1>1 DEF tables, Agrees, Recorded
  <1>2. ASSUME NEW r \in Requests, pc[r] = "keyed", MakeVisible(r)
        PROVE  Agrees(q, reply)'
    <2>1. RequestKey[r] \notin DOMAIN idempotency
      BY <1>2 DEF OrdersInv, TransactionsApart, Recorded
    <2>2. /\ RequestKey[q] \in DOMAIN idempotency'
          /\ idempotency'[RequestKey[q]] = idempotency[RequestKey[q]]
      BY <1>2, <2>1, VisibleTables DEF OrdersInv, Agrees, Recorded
    <2> QED
      BY <2>2 DEF Agrees, Recorded
  <1> QED
    BY <1>1, <1>2, TablesStep

\* A step answers one request at most, and the answer agrees.
LEMMA NewReplyAgrees ==
  ASSUME OrdersInv, [Next]_vars, NEW q \in Requests, NEW reply \in replies'[q]
  PROVE  reply \in replies[q] \/ reply = Unavailable \/ Agrees(q, reply)'
  <1>1. replies \in [Requests -> SUBSET ({ Ok(o) : o \in Orders } \cup {Conflict, Unavailable})]
    BY DEF OrdersInv, TypeOK
  <1>2. ASSUME NEW r \in Requests, AnswerRecorded(r)
        PROVE  reply \in replies[q] \/ Agrees(q, reply)'
    BY <1>1, <1>2 DEF AnswerRecorded, Reply, Agrees, Recorded, SamePayload, tables
  <1>3. ASSUME NEW r \in Requests, Commit(r)
        PROVE  reply \in replies[q] \/ Agrees(q, reply)'
    <2>1. replies' = [replies EXCEPT ![r] = @ \cup {Ok(order_id[r])}]
      BY <1>3 DEF Commit, Reply
    <2>2. /\ RequestKey[r] \in DOMAIN idempotency'
          /\ idempotency'[RequestKey[r]].payload = RequestCart[r]
          /\ idempotency'[RequestKey[r]].order = order_id[r]
      <3>1. /\ idempotency'[RequestKey[r]] = [payload |-> RequestCart[r], order |-> order_id[r]]
            /\ DOMAIN idempotency' = DOMAIN idempotency \cup {RequestKey[r]}
        BY <1>3, VisibleTables DEF Commit, OrdersInv
      <3> QED
        BY <3>1
    <2>3. Agrees(r, Ok(order_id[r]))'
      BY <1>3, <2>2 DEF Agrees, Recorded, Commit, Ok
    <2>4. reply \in replies[q] \/ (q = r /\ reply = Ok(order_id[r]))
      BY <1>1, <2>1
    <2>5. order_id' = order_id
      BY <1>3 DEF Commit
    <2> QED
      BY <2>3, <2>4, <2>5 DEF Agrees, Ok
  <1>4. ASSUME NEW r \in Requests, KeyConflict(r) \/ Fails(r)
        PROVE  reply \in replies[q] \/ reply = Unavailable
    BY <1>1, <1>4 DEF KeyConflict, AfterIntegrityError, Fails, Reply
  <1>5. ASSUME NEW r \in Requests, Check(r) \/ FlushOrder(r) \/ InsertKey(r)
        PROVE  reply \in replies[q]
    BY <1>5 DEF Check, FlushOrder, InsertKey
  <1>6. CASE UNCHANGED vars
    BY <1>6 DEF vars
  <1> QED
    BY <1>2, <1>3, <1>4, <1>5, <1>6 DEF Next, Serve

\* A 200 or a 409 tells the truth when it is given and ever after
\* (CreateOrderUseCase, idempotency.get).
THEOREM Answers == Spec => []AnswersAgree
  <1>1. AnswersAgree <=>
          \A r \in Requests : \A reply \in replies[r] \ {Unavailable} : Agrees(r, reply)
    BY DEF AnswersAgree, Agrees
  <1>2. AnswersAgree' <=>
          \A r \in Requests : \A reply \in replies'[r] \ {Unavailable'} : Agrees(r, reply)'
    BY DEF AnswersAgree, Agrees
  <1>3. Init => AnswersAgree
    BY DEF Init, AnswersAgree
  <1>4. OrdersInv /\ AnswersAgree /\ [Next]_vars => AnswersAgree'
    <2> SUFFICES ASSUME OrdersInv, AnswersAgree, [Next]_vars,
                        NEW q \in Requests, NEW reply \in replies'[q], reply # Unavailable
                 PROVE  Agrees(q, reply)'
      BY <1>2 DEF Unavailable
    <2> QED
      BY <1>1, NewReplyAgrees, AgreementStays
  <1> QED
    BY <1>3, <1>4, Apartness, PTL DEF Spec

-----------------------------------------------------------------------------
\* The event log of OrderFlow that an outbox stands for.
LogOf(s) == [i \in DOMAIN s |-> [event_type |-> "OrderCreated", key |-> s[i]]]

LEMMA LogGrows ==
  ASSUME NEW s \in Seq(Orders), NEW o \in Orders
  PROVE  LogOf(Append(s, o)) = Append(LogOf(s), [event_type |-> "OrderCreated", key |-> o])
  <1> DEFINE e == [event_type |-> "OrderCreated", key |-> o]
  <1>1. LogOf(s) \in Seq([event_type : {"OrderCreated"}, key : Orders])
    <2>1. /\ Len(s) \in Nat
          /\ LogOf(s) \in [1..Len(s) -> [event_type : {"OrderCreated"}, key : Orders]]
      BY DEF LogOf
    <2>2. LogOf(s) \in UNION { [1..n -> [event_type : {"OrderCreated"}, key : Orders]] : n \in Nat }
      BY <2>1, Zenon
    <2> QED
      BY <2>2, SeqDef, Zenon
  <1>2. Len(LogOf(s)) = Len(s) /\ DOMAIN LogOf(s) = DOMAIN s
    BY DEF LogOf
  <1>3. /\ DOMAIN Append(LogOf(s), e) = 1..Len(s) + 1
        /\ \A i \in 1..Len(s) : Append(LogOf(s), e)[i] = LogOf(s)[i]
        /\ Append(LogOf(s), e)[Len(s) + 1] = e
    BY <1>1, <1>2
  <1>4. /\ DOMAIN LogOf(Append(s, o)) = 1..Len(s) + 1
        /\ \A i \in 1..Len(s) : LogOf(Append(s, o))[i] = LogOf(s)[i]
        /\ LogOf(Append(s, o))[Len(s) + 1] = e
    BY DEF LogOf
  <1>5. \A i \in 1..Len(s) + 1 : LogOf(Append(s, o))[i] = Append(LogOf(s), e)[i]
    BY <1>3, <1>4
  <1>6. LogOf(Append(s, o)) = [i \in 1..Len(s) + 1 |-> LogOf(Append(s, o))[i]]
    BY <1>4 DEF LogOf
  <1>7. Append(LogOf(s), e) = [i \in 1..Len(s) + 1 |-> Append(LogOf(s), e)[i]]
    BY <1>1, <1>2, <1>3
  <1> QED
    BY <1>5, <1>6, <1>7

\* A transaction that becomes visible is one CreateOrder.
LEMMA VisibleCreatesOrder ==
  ASSUME OrdersInv, NEW r \in Requests, pc[r] = "keyed", MakeVisible(r)
  PROVE  Atomic!CreateOrder(RequestKey[r], order_id[r], RequestCart[r])
  <1> DEFINE new == order_id[r]
             key == RequestKey[r]
  <1>1. /\ TypeOK
        /\ new \in Orders
        /\ new \notin DOMAIN orders
        /\ key \notin DOMAIN idempotency
        /\ outbox \in Seq(Orders)
    BY DEF OrdersInv, TypeOK, TransactionsApart, InFlight, Recorded
  <1>2. /\ idempotency'[key] = [payload |-> RequestCart[r], order |-> new]
        /\ DOMAIN idempotency' = DOMAIN idempotency \cup {key}
        /\ \A k \in DOMAIN idempotency : idempotency'[k] = idempotency[k]
    BY <1>1, VisibleTables
  <1>3. /\ DOMAIN orders' = DOMAIN orders \cup {new}
        /\ orders'[new] = RequestCart[r]
        /\ \A o \in DOMAIN orders : orders'[o] = orders[o]
        /\ outbox' = Append(outbox, new)
    BY <1>1, VisibleTables
  <1> HIDE DEF new, key
  <1>4. /\ [o \in Orders |-> IF o \in DOMAIN orders THEN "created" ELSE "absent"][new] = "absent"
        /\ [o \in Orders |-> IF o \in DOMAIN orders' THEN "created" ELSE "absent"]
             = [[o \in Orders |-> IF o \in DOMAIN orders THEN "created" ELSE "absent"]
                  EXCEPT ![new] = "created"]
    BY <1>1, <1>3
  <1>5. [o \in Orders |-> IF o \in DOMAIN orders' THEN orders'[o] ELSE <<>>]
          = [[o \in Orders |-> IF o \in DOMAIN orders THEN orders[o] ELSE <<>>]
               EXCEPT ![new] = RequestCart[r]]
    BY <1>1, <1>3
  <1>6. [k \in DOMAIN idempotency' |-> idempotency'[k].order]
          = [j \in DOMAIN idempotency \cup {key} |->
               IF j = key THEN new
                          ELSE [k \in DOMAIN idempotency |-> idempotency[k].order][j]]
    BY <1>1, <1>2
  <1>7. LogOf(outbox)' = Append(LogOf(outbox), [event_type |-> "OrderCreated", key |-> new])
    <2>1. LogOf(Append(outbox, new))
            = Append(LogOf(outbox), [event_type |-> "OrderCreated", key |-> new])
      BY <1>1, LogGrows
    <2>2. LogOf(outbox)' = LogOf(Append(outbox, new))
      BY <1>3 DEF LogOf
    <2> QED
      BY <2>1, <2>2
  <1> QED
    BY <1>1, <1>4, <1>5, <1>6, <1>7 DEF Atomic!CreateOrder, Atomic!Emit, LogOf, new, key

\* The statements of a request come to one CreateOrder, at its commit, or to
\* nothing: what is proved of OrderFlow holds of racing requests as well.
THEOREM Atomicity == Spec => ImplementsCreateOrder
  <1>1. Init => Atomic!Init
    <2> SUFFICES ASSUME Init PROVE Atomic!Init
      OBVIOUS
    <2>1. DOMAIN orders = {} /\ DOMAIN idempotency = {} /\ outbox = <<>>
      BY DEF Init
    <2>2. [i \in DOMAIN outbox |-> [event_type |-> "OrderCreated", key |-> outbox[i]]] = <<>>
      BY <2>1
    <2> QED
      BY <2>1, <2>2 DEF Atomic!Init
  <1>2. OrdersInv /\ [Next]_vars => [Atomic!Next]_(Atomic!vars)
    <2> SUFFICES ASSUME OrdersInv, [Next]_vars PROVE [Atomic!Next]_(Atomic!vars)
      OBVIOUS
    <2>1. CASE UNCHANGED tables
      BY <2>1 DEF tables, Atomic!vars
    <2>2. ASSUME NEW r \in Requests, pc[r] = "keyed", MakeVisible(r)
          PROVE  Atomic!Next
      <3>1. RequestKey[r] \in Keys /\ order_id[r] \in Orders /\ RequestCart[r] \in Carts
        BY DEF OrdersInv, TypeOK
      <3> QED
        BY <2>2, <3>1, VisibleCreatesOrder DEF Atomic!Next
    <2> QED
      BY <2>1, <2>2, TablesStep
  <1> QED
    BY <1>1, <1>2, Apartness, PTL DEF Spec, ImplementsCreateOrder, Atomic!Spec
=============================================================================
