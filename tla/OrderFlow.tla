---------------------------- MODULE OrderFlow ----------------------------
(***************************************************************************)
(* The database side of Mini EC: the tables of db/models.py and the use    *)
(* cases that write them, each one committed unit of work per step.        *)
(*                                                                         *)
(* Delivery is left as weak as it can be: a worker may be handed any event *)
(* of the log at any time and any number of times, in any order.  Relay    *)
(* retries, redelivery of pending messages, the replay and redrive         *)
(* endpoints and crashes can do no more than that.  A handler that raises  *)
(* is rolled back by SqlAlchemyUnitOfWork.__exit__ and is no step here.    *)
(*                                                                         *)
(* An event is named by its position in event_log (EventLogModel.id, which *)
(* is as unique as event_id).  Its payload is the order (or SKU) it names: *)
(* the lines an OrderCreated event carries are those of the order row,     *)
(* which nothing changes.                                                  *)
(***************************************************************************)
EXTENDS Cart

CONSTANTS
  Orders,          \* the order ids uuid4 may return
  Keys,            \* Idempotency-Key values
  Deltas,          \* the deltas POST /inventory/adjustments is called with
  MaxAdjustments   \* bound: how many adjustments succeed in a behaviour

ASSUME OrderFlowAssumption == Deltas \subseteq Int /\ MaxAdjustments \in Nat

VARIABLES
  status,       \* orders.status of each order, "absent" if there is no row
  items,        \* order_items of each order
  inventory,    \* inventory_items: a row for each SKU of its domain
  shipments,    \* shipments.order_id: a set, as the column is unique
  event_log,    \* event_log in order of id
  processed,    \* processed_events: pairs <<consumer_name, event>>
  idempotency   \* idempotency_keys: the order each recorded key returns

vars == <<status, items, inventory, shipments, event_log, processed, idempotency>>

OrderStatus ==
  {"created", "inventory_reserved", "inventory_rejected", "shipment_created"}

OrderEventType ==
  {"OrderCreated", "InventoryReserved", "InventoryRejected", "ShipmentCreated"}

DomainEvent ==
  [event_type : OrderEventType, key : Orders] \cup
  [event_type : {"InventoryAdjusted"}, key : Skus]

Consumers == {"inventory-worker", "shipping-worker"}

InventoryItem == [on_hand : 0..MaxInt, reserved : 0..MaxInt]

TypeOK ==
  /\ status \in [Orders -> OrderStatus \cup {"absent"}]
  /\ items \in [Orders -> Carts \cup {<<>>}]
  /\ \A o \in Orders : status[o] # "absent" => items[o] \in Carts
  /\ DOMAIN inventory \subseteq Skus
  /\ inventory \in [DOMAIN inventory -> InventoryItem]
  /\ shipments \subseteq Orders
  /\ event_log \in Seq(DomainEvent)
  /\ processed \subseteq Consumers \X DOMAIN event_log
  /\ DOMAIN idempotency \subseteq Keys
  /\ idempotency \in [DOMAIN idempotency -> Orders]

-----------------------------------------------------------------------------
\* The inventory row of s, or the new InventoryItem both callers build when
\* get_for_update finds none.
Item(s) ==
  IF s \in DOMAIN inventory THEN inventory[s] ELSE [on_hand |-> 0, reserved |-> 0]

Available(s) == Item(s).on_hand - Item(s).reserved

\* Mutant: a comparison that rejects the order that takes the last unit.
ShortageOrExact(s, requested) == Available(s) <= requested

\* Mutant: the first loop compares with what is on hand, reserved or not.
ShortageOnHand(s, requested) == Item(s).on_hand < requested

\* The test of the first loop of ReserveInventoryUseCase, line by line.
Shortage(s, requested) == Available(s) < requested

\* Mutant: reserve() trusts the caller to have compared each line.
CanReserveUnchecked(s, quantity) == TRUE

\* InventoryItem.reserve raises when the quantity is not available.
CanReserve(s, quantity) == quantity <= Available(s)

\* Mutant: adjust() compares with reserved only after the change.
CanAdjustUnchecked(s, delta) == Item(s).on_hand + delta <= MaxInt

\* InventoryItem.adjust raises below zero and below reserved; the INTEGER
\* column refuses more than MaxInt.
CanAdjust(s, delta) ==
  /\ Item(s).on_hand + delta \in 0..MaxInt
  /\ Item(s).on_hand + delta >= Item(s).reserved

Emit(event_type, key) ==
  event_log' = Append(event_log, [event_type |-> event_type, key |-> key])

\* Mutant: the handler ignores that the row was already there.
InsertAgain(consumer, e) == processed' = processed \cup {<<consumer, e>>}

\* SqlAlchemyProcessedEventRepository.try_insert: FALSE when the unique
\* constraint finds <<consumer, e>> there; the handler then returns early.
TryInsert(consumer, e) ==
  /\ <<consumer, e>> \notin processed
  /\ processed' = processed \cup {<<consumer, e>>}

\* Mutant: the early return of mark_inventory_rejected, with no way past it.
MarkRejectedTwiceOnly(o) ==
  /\ status[o] = "inventory_rejected"
  /\ status' = status

\* The guarded status changes of domain/orders/models.py.  Each returns
\* without a change when the order is already there, and raises elsewhere.
MarkInventoryRejected(o) ==
  /\ status[o] \in {"created", "inventory_rejected"}
  /\ status' = [status EXCEPT ![o] = "inventory_rejected"]

MarkInventoryReserved(o) ==
  /\ status[o] \in {"created", "inventory_reserved"}
  /\ status' = [status EXCEPT ![o] = "inventory_reserved"]

\* Mutant: the shipping worker forgets uow.orders.save.
MarkShipmentUnsaved(o) ==
  /\ status[o] \in {"inventory_reserved", "shipment_created"}
  /\ status' = status

\* Mutant: the test of the status names the wrong state.
MarkShipmentOfCreated(o) ==
  /\ status[o] \in {"created", "shipment_created"}
  /\ status' = [status EXCEPT ![o] = "shipment_created"]

MarkShipmentCreated(o) ==
  /\ status[o] \in {"inventory_reserved", "shipment_created"}
  /\ status' = [status EXCEPT ![o] = "shipment_created"]

-----------------------------------------------------------------------------
Init ==
  /\ status = [o \in Orders |-> "absent"]
  /\ items = [o \in Orders |-> <<>>]
  /\ inventory = [s \in {} |-> 0]
  /\ shipments = {}
  /\ event_log = <<>>
  /\ processed = {}
  /\ idempotency = [k \in {} |-> 0]

\* POST /orders under a key that is not recorded.  A recorded key is answered
\* from its row, or with 409, and writes nothing.
CreateOrder(k, o, cart) ==
  /\ k \notin DOMAIN idempotency
  /\ status[o] = "absent"
  /\ status' = [status EXCEPT ![o] = "created"]
  /\ items' = [items EXCEPT ![o] = cart]
  /\ Emit("OrderCreated", o)
  /\ idempotency' = [j \in DOMAIN idempotency \cup {k} |->
                       IF j = k THEN o ELSE idempotency[j]]
  /\ UNCHANGED <<inventory, shipments, processed>>

Adjustments == { i \in DOMAIN event_log : event_log[i].event_type = "InventoryAdjusted" }

\* POST /inventory/adjustments.
AdjustInventory(s, delta) ==
  /\ Cardinality(Adjustments) < MaxAdjustments
  /\ CanAdjust(s, delta)
  /\ inventory' = [t \in DOMAIN inventory \cup {s} |->
                     IF t = s THEN [Item(t) EXCEPT !.on_hand = @ + delta] ELSE Item(t)]
  /\ Emit("InventoryAdjusted", s)
  /\ UNCHANGED <<status, items, shipments, processed, idempotency>>

HasShortage(o) ==
  \E i \in DOMAIN items[o] : Shortage(items[o][i].sku, items[o][i].quantity)

\* The tail of ReserveInventoryUseCase.execute when a line is short: the rows
\* added for unknown SKUs are committed along with the rejection.
RejectLines(o) ==
  /\ HasShortage(o)
  /\ MarkInventoryRejected(o)
  /\ inventory' = [s \in DOMAIN inventory \cup SkusOf(items[o]) |-> Item(s)]
  /\ Emit("InventoryRejected", o)

\* The tail when no line is short.  reserve() runs once a line and raises if
\* the lines seen so far exceed what is available, which comes to comparing
\* the demand of each SKU.
ReserveLines(o) ==
  /\ ~HasShortage(o)
  /\ \A s \in SkusOf(items[o]) : CanReserve(s, Demand(items[o], s))
  /\ MarkInventoryReserved(o)
  /\ inventory' = [s \in DOMAIN inventory \cup SkusOf(items[o]) |->
                     IF s \in SkusOf(items[o])
                       THEN [Item(s) EXCEPT !.reserved = @ + Demand(items[o], s)]
                       ELSE Item(s)]
  /\ Emit("InventoryReserved", o)

\* The inventory worker handles event e.
ReserveInventory(e) ==
  /\ event_log[e].event_type = "OrderCreated"
  /\ TryInsert("inventory-worker", e)
  /\ RejectLines(event_log[e].key) \/ ReserveLines(event_log[e].key)
  /\ UNCHANGED <<items, shipments, idempotency>>

NewShipment(o) == o \notin shipments

\* The shipping worker handles event e.  When the order has a shipment only
\* the processed_events row is committed.
CreateShipment(e) ==
  LET o == event_log[e].key IN
    /\ event_log[e].event_type = "InventoryReserved"
    /\ TryInsert("shipping-worker", e)
    /\ IF NewShipment(o)
         THEN /\ shipments' = shipments \cup {o}
              /\ MarkShipmentCreated(o)
              /\ Emit("ShipmentCreated", o)
         ELSE UNCHANGED <<shipments, status, event_log>>
    /\ UNCHANGED <<items, inventory, idempotency>>

Next ==
  \/ \E k \in Keys, o \in Orders, cart \in Carts : CreateOrder(k, o, cart)
  \/ \E s \in Skus, delta \in Deltas : AdjustInventory(s, delta)
  \/ \E e \in DOMAIN event_log : ReserveInventory(e) \/ CreateShipment(e)

Spec == Init /\ [][Next]_vars

-----------------------------------------------------------------------------
\* Stock is never promised twice: what is reserved is on hand, whatever the
\* lines of the orders, the adjustments and the redeliveries
\* (InventoryItem.adjust and reserve).
NeverOversold ==
  \A s \in DOMAIN inventory : inventory[s].reserved <= inventory[s].on_hand

Holding == { o \in Orders : status[o] \in {"inventory_reserved", "shipment_created"} }

\* The reserved column of a SKU is exactly what the reserved and shipped
\* orders ask of it: no event is applied twice, and no line is left out.
ReservationsBalance ==
  \A s \in Skus :
    Item(s).reserved = MapThenSumSet(LAMBDA o : Demand(items[o], s), Holding)

\* The processed_events row of a worker and the order it worked on agree, so
\* that a redelivered event finds its work either wholly done or not begun.
ProcessedMatchesStatus ==
  \A e \in DOMAIN event_log :
    LET o == event_log[e].key IN
      /\ event_log[e].event_type = "OrderCreated" =>
           (<<"inventory-worker", e>> \in processed <=> status[o] # "created")
      /\ event_log[e].event_type = "InventoryReserved" =>
           (<<"shipping-worker", e>> \in processed <=> status[o] = "shipment_created")

\* The statuses an order can have once the event is in the log.
StatusAfter(event_type) ==
  CASE event_type = "OrderCreated" -> OrderStatus
    [] event_type = "InventoryReserved" -> {"inventory_reserved", "shipment_created"}
    [] event_type = "InventoryRejected" -> {"inventory_rejected"}
    [] event_type = "ShipmentCreated" -> {"shipment_created"}

\* The log holds an event of this type about the order.
Logged(event_type, o) ==
  \E e \in DOMAIN event_log : event_log[e] = [event_type |-> event_type, key |-> o]

\* The log tells the story the tables tell: an order has an event of a type
\* exactly when its status says so, and it has a shipment row exactly when it
\* is shipped.  The relay therefore announces nothing that was rolled back
\* and omits nothing that was committed.
LogMatchesTables ==
  /\ \A o \in Orders, event_type \in OrderEventType :
       Logged(event_type, o) <=> status[o] \in StatusAfter(event_type)
  /\ shipments = { o \in Orders : status[o] = "shipment_created" }

\* An order is created, decided and shipped at most once, however often its
\* events are delivered: no two events of the log say the same of one order.
NoEventTwice ==
  \A d, e \in DOMAIN event_log :
    (event_log[d] = event_log[e] /\ event_log[d].event_type # "InventoryAdjusted") => d = e

\* The log as a whole: what the relay will announce is what the tables hold,
\* each fact of an order once, through any redelivery.
LogFaithful == LogMatchesTables /\ NoEventTwice

\* An event whose handler has not done its work is one the handler can do it
\* for: the test of the lines and InventoryItem.reserve never disagree, and
\* the order is where the status change wants it, whichever orders, events and
\* adjustments came in between.  Only an order that repeats a SKU is at odds.
HandlersCanSucceed ==
  \A e \in DOMAIN event_log :
    LET o == event_log[e].key IN
      /\ (event_log[e].event_type = "OrderCreated" /\ <<"inventory-worker", e>> \notin processed) =>
           /\ status[o] = "created"
           /\ \/ RepeatsSku(items[o])
              \/ HasShortage(o)
              \/ \A s \in SkusOf(items[o]) : CanReserve(s, Demand(items[o], s))
      /\ (event_log[e].event_type = "InventoryReserved" /\ <<"shipping-worker", e>> \notin processed) =>
           status[o] = "inventory_reserved" /\ NewShipment(o)

\* The promise of Fulfilment, read off the tables.
Promise == INSTANCE Fulfilment WITH
  stage <- status, cart <- items, free <- [s \in Skus |-> Available(s)]

\* Under at-least-once, unordered delivery every order is still decided once
\* against the stock that is free at that moment, all lines or none, and
\* shipped once.
ImplementsFulfilment == Promise!Spec

\* Mutant: the shipment is read before the order.
ShipmentReadFirst(o, read) ==
  [status |-> status[o], items |-> items[o], shipment |-> read = "shipment_created"]

\* What GET /orders/{order_id} answers now if it read the status before: each
\* SELECT sees what is committed when it runs, the shipment comes last.
OrderDetails(o, read) ==
  [status |-> read, items |-> items[o], shipment |-> o \in shipments]

\* The answer may be torn between commits, and is still one an order can have:
\* an order that was there is shown with its lines, a shipped one with its
\* shipment, and one that was rejected with none.
OrderDetailsFit ==
  \A o \in Orders, read \in OrderStatus :
    [](status[o] = read =>
         [](LET details == OrderDetails(o, read) IN
              /\ details.items \in Carts
              /\ details.status = "shipment_created" => details.shipment
              /\ details.shipment => details.status # "inventory_rejected"))

-----------------------------------------------------------------------------
(***************************************************************************)
(* Liveness.  The relay sends an event until it is marked published, and a *)
(* message stays pending until a handler returns (or the event is moved to *)
(* the dead letters), so a worker whose handler can succeed is fair.       *)
(* Clients owe nothing.                                                    *)
(***************************************************************************)
EventBound == 3 * Cardinality(Orders) + MaxAdjustments

HandlesEvent(e) == e \in DOMAIN event_log /\ (ReserveInventory(e) \/ CreateShipment(e))

FairSpec == Spec /\ \A e \in 1..EventBound : WF_vars(HandlesEvent(e))

\* Every order that is created is eventually reserved or rejected.
EveryOrderDecided ==
  \A o \in Orders : status[o] = "created" ~> status[o] \in OrderStatus \ {"created"}

\* The same for the orders whose lines name distinct SKUs: no adjustment, no
\* other order and no redelivery leaves such an order undecided for ever.
EveryPlainOrderDecided ==
  \A o \in Orders :
    (status[o] = "created" /\ ~RepeatsSku(items[o])) ~>
      status[o] \in OrderStatus \ {"created"}

\* Every order whose stock was reserved eventually gets its shipment.
EveryReservationShipped ==
  \A o \in Orders : status[o] = "inventory_reserved" ~> o \in shipments
=============================================================================
