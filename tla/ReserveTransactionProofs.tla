--------------------- MODULE ReserveTransactionProofs ---------------------
(***************************************************************************)
(* Proofs about ReserveTransaction for any sessions, carts and stock: the  *)
(* locks isolate the transactions, each commit is a step of OrderFlow, and *)
(* carts in one common order never deadlock.                               *)
(*                                                                         *)
(* The three parts support each other.  IsolationInv makes a commit a step *)
(* of OrderFlow; the invariant FlowInv of OrderFlow then tells what status *)
(* a claimed order has, which the next commit needs.                       *)
(***************************************************************************)
EXTENDS ReserveTransaction, OrderFlowProofs, FiniteSetTheorems, WellFoundedInduction

-----------------------------------------------------------------------------
(***************************************************************************)
(* Isolation.  SessionGood says of a transaction r what IsolationInv says  *)
(* of the one session s has.                                               *)
(***************************************************************************)
SessionGood(s, r) ==
  /\ r \in Txn
  /\ r.lines = <<>> => r = Idle
  /\ \A k \in r.held : k \in DOMAIN inventory /\ r.seen[k] = inventory[k]
  /\ \A k \in r.added : k \notin DOMAIN inventory
  /\ \A k \in r.added \cup r.missed : r.seen[k] = NewItem
  /\ DOMAIN r.seen = r.held \cup r.added \cup r.missed
  /\ r.missed \cap (r.held \cup r.added) = {}
  /\ \A t \in Sessions \ {s} :
       r.held \cap txn[t].held = {} /\ r.added \cap txn[t].added = {}
  /\ r.next \in 1..Len(r.lines) + 1
  /\ DOMAIN r.seen = { r.lines[i] : i \in 1..r.next - 1 }
  /\ \A k \in r.missed : r.missed = {k} /\ k = r.lines[r.next - 1]
  /\ s \in Workers /\ r.lines # <<>> =>
       /\ r.event \in DOMAIN event_log
       /\ event_log[r.event].event_type = "OrderCreated"
       /\ <<"inventory-worker", r.event>> \notin processed
       /\ \A v \in Workers \ {s} : txn[v].event # r.event
       /\ Len(r.lines) = Len(items[event_log[r.event].key])
       /\ \A i \in DOMAIN r.lines : r.lines[i] = items[event_log[r.event].key][i].sku
  /\ s \in Admins /\ r.lines # <<>> => Len(r.lines) = 1 /\ r.delta \in Deltas

\* IsolationInv, session by session.
LEMMA Sessionwise ==
  ASSUME TypeOK, faults \in 0..MaxFaults, txn \in [Sessions -> Txn]
  PROVE  IsolationInv <=> \A s \in Sessions : SessionGood(s, txn[s])
  BY DEF IsolationInv, TxnTypeOK, LocksHold, LinesRead, ClaimHolds, AdjustmentHolds,
         SessionGood, Open, Sessions

\* The same one step later.
LEMMA SessionwiseNext ==
  ASSUME TypeOK', faults' \in 0..MaxFaults, txn' \in [Sessions -> Txn],
         \A s \in Sessions : SessionGood(s, txn[s])'
  PROVE  IsolationInv'
  BY DEF IsolationInv, TxnTypeOK, LocksHold, LinesRead, ClaimHolds, AdjustmentHolds,
         SessionGood, Open, Sessions

\* A session that is not open breaks nothing.
LEMMA IdleGood ==
  ASSUME NEW s \in Sessions
  PROVE  SessionGood(s, Idle)
  <1> DEFINE none == [k \in {} |-> 0]
  <1>1. none \in UNION { [D -> InventoryItem] : D \in SUBSET Skus }
    <2>1. none \in [{} -> InventoryItem] /\ {} \in SUBSET Skus
      OBVIOUS
    <2> QED
      BY <2>1
  <1>2. Idle \in Txn
    BY <1>1 DEF Idle, Txn
  <1>3. DOMAIN none = {} /\ Len(<<>>) = 0
    OBVIOUS
  <1> QED
    BY <1>2, <1>3 DEF SessionGood, Idle

\* One session moves on and the tables do not.
LEMMA SessionStep ==
  ASSUME IsolationInv, NEW s \in Sessions, NEW r, SessionGood(s, r),
         txn' = [txn EXCEPT ![s] = r],
         UNCHANGED vars, faults' \in 0..MaxFaults
  PROVE  IsolationInv'
  <1>1. /\ TypeOK /\ txn \in [Sessions -> Txn] /\ faults \in 0..MaxFaults
        /\ \A t \in Sessions : SessionGood(t, txn[t])
    BY Sessionwise DEF IsolationInv, TxnTypeOK
  <1>2. r \in Txn
    BY DEF SessionGood
  <1>3. /\ txn' \in [Sessions -> Txn]
        /\ txn'[s] = r
        /\ \A t \in Sessions \ {s} : txn'[t] = txn[t]
    BY <1>1, <1>2
  <1>4. TypeOK'
    BY <1>1 DEF TypeOK, vars
  <1>5. SessionGood(s, r)'
    BY <1>3 DEF SessionGood, vars, Idle
  <1>6. ASSUME NEW t \in Sessions \ {s}
        PROVE  SessionGood(t, txn[t])'
    <2>1. SessionGood(t, txn[t])
      BY <1>1
    <2>2. /\ r.held \cap txn[t].held = {}
          /\ r.added \cap txn[t].added = {}
      BY DEF SessionGood
    <2>3. s \in Workers /\ t \in Workers /\ txn[t].lines # <<>> => txn[t].event # r.event
      <3>1. CASE r.lines = <<>>
        <4>1. r.event = 0
          BY <3>1 DEF SessionGood, Idle
        <4>2. txn[t].lines # <<>> /\ t \in Workers => txn[t].event \in DOMAIN event_log
          BY <2>1 DEF SessionGood
        <4>3. 0 \notin DOMAIN event_log
          BY <1>1 DEF TypeOK
        <4> QED
          BY <4>1, <4>2, <4>3
      <3>2. CASE r.lines # <<>>
        BY <3>2 DEF SessionGood
      <3> QED
        BY <3>1, <3>2
    <2> QED
      BY <1>3, <2>1, <2>2, <2>3 DEF SessionGood, vars, Idle
  <1>7. \A t \in Sessions : SessionGood(t, txn[t])'
    BY <1>3, <1>5, <1>6
  <1> QED
    BY <1>3, <1>4, <1>7, SessionwiseNext

\* A commit takes the rows it has locked or inserted and leaves the others.
LEMMA CommitIsolates ==
  ASSUME IsolationInv, TypeOK', NEW s \in Sessions,
         txn' = [txn EXCEPT ![s] = Idle],
         UNCHANGED <<items, faults>>,
         DOMAIN inventory' = DOMAIN inventory \cup txn[s].added,
         \A k \in DOMAIN inventory \ txn[s].held : inventory'[k] = inventory[k],
         \A e \in DOMAIN event_log :
           e \in DOMAIN event_log' /\ event_log'[e] = event_log[e],
         \A e : <<"inventory-worker", e>> \in processed' =>
           \/ <<"inventory-worker", e>> \in processed
           \/ s \in Workers /\ txn[s].lines # <<>> /\ e = txn[s].event
  PROVE  IsolationInv'
  <1>1. /\ TypeOK /\ txn \in [Sessions -> Txn] /\ faults \in 0..MaxFaults
        /\ \A t \in Sessions : SessionGood(t, txn[t])
    BY Sessionwise DEF IsolationInv, TxnTypeOK
  <1>2. Idle \in Txn
    BY IdleGood DEF SessionGood
  <1>3. /\ txn' \in [Sessions -> Txn]
        /\ txn'[s] = Idle
        /\ \A t \in Sessions \ {s} : txn'[t] = txn[t]
    BY <1>1, <1>2
  <1>4. SessionGood(s, txn[s])'
    <2>1. SessionGood(s, Idle)
      BY IdleGood
    <2>2. Idle.lines = <<>> /\ Idle.held = {} /\ Idle.added = {} /\ Idle.missed = {}
      BY DEF Idle
    <2> QED
      BY <1>3, <2>1, <2>2 DEF SessionGood
  <1>5. ASSUME NEW t \in Sessions \ {s}
        PROVE  SessionGood(t, txn[t])'
    <2>1. SessionGood(t, txn[t]) /\ SessionGood(s, txn[s])
      BY <1>1
    <2>2. \A k \in txn[t].held : k \in DOMAIN inventory' /\ txn[t].seen[k] = inventory'[k]
      BY <2>1 DEF SessionGood
    <2>3. \A k \in txn[t].added : k \notin DOMAIN inventory'
      BY <2>1 DEF SessionGood
    <2>4. \A v \in Sessions \ {t} :
            /\ txn[t].held \cap txn'[v].held = {}
            /\ txn[t].added \cap txn'[v].added = {}
      BY <1>3, <2>1 DEF SessionGood, Idle
    <2>5. ASSUME t \in Workers, txn[t].lines # <<>>
          PROVE  /\ txn[t].event \in DOMAIN event_log'
                 /\ event_log'[txn[t].event] = event_log[txn[t].event]
                 /\ <<"inventory-worker", txn[t].event>> \notin processed'
                 /\ \A v \in Workers \ {t} : txn'[v].event # txn[t].event
      <3>1. txn[t].event \in DOMAIN event_log /\ txn[t].event # 0
        BY <1>1, <2>1, <2>5 DEF SessionGood, TypeOK
      <3>2. \A v \in Workers \ {t} : txn'[v].event # txn[t].event
        BY <1>3, <2>1, <2>5, <3>1 DEF SessionGood, Idle, Sessions
      <3> QED
        BY <2>1, <2>5, <3>1, <3>2 DEF SessionGood
    <2>6. txn'[t] = txn[t] /\ items' = items
      BY <1>3
    <2> QED
      BY <2>1, <2>2, <2>3, <2>4, <2>5, <2>6 DEF SessionGood, Idle
  <1>6. \A t \in Sessions : SessionGood(t, txn[t])'
    BY <1>4, <1>5
  <1> QED
    BY <1>1, <1>3, <1>6, SessionwiseNext

\* An order that is placed is new, and no session works on a new order.
LEMMA PlaceOrderIsolates ==
  ASSUME IsolationInv, FlowInv, TypeOK', NEW o \in Orders, NEW cart \in Carts,
         PlaceOrder(o, cart)
  PROVE  IsolationInv'
  <1>1. /\ TypeOK /\ txn \in [Sessions -> Txn] /\ faults \in 0..MaxFaults
        /\ \A t \in Sessions : SessionGood(t, txn[t])
    BY Sessionwise DEF IsolationInv, TxnTypeOK
  <1>2. [event_type |-> "OrderCreated", key |-> o] \in DomainEvent
    BY DEF DomainEvent, OrderEventType
  <1>3. /\ Emit("OrderCreated", o)
        /\ status[o] = "absent"
        /\ items' = [items EXCEPT ![o] = cart]
        /\ UNCHANGED <<inventory, processed, txn, faults>>
    BY DEF PlaceOrder, CreateOrder
  <1>4. /\ event_log \in Seq(DomainEvent)
        /\ items \in [Orders -> Carts \cup {<<>>}]
    BY <1>1 DEF TypeOK
  <1>5. \A e \in DOMAIN event_log : e \in DOMAIN event_log' /\ event_log'[e] = event_log[e]
    BY <1>2, <1>3, <1>4, EmitAppends
  <1>6. ASSUME NEW t \in Sessions
        PROVE  SessionGood(t, txn[t])'
    <2>1. SessionGood(t, txn[t])
      BY <1>1
    <2>2. ASSUME t \in Workers, txn[t].lines # <<>>
          PROVE  items'[event_log[txn[t].event].key] = items[event_log[txn[t].event].key]
      <3>1. /\ txn[t].event \in DOMAIN event_log
            /\ event_log[txn[t].event].event_type = "OrderCreated"
            /\ <<"inventory-worker", txn[t].event>> \notin processed
        BY <2>1, <2>2 DEF SessionGood
      <3>2. status[event_log[txn[t].event].key] = "created"
        BY <3>1 DEF FlowInv, ProcessedMatchesStatus
      <3>3. event_log[txn[t].event].key \in Orders
        BY <1>4, <3>1, EventKey DEF OrderEventType
      <3> QED
        BY <1>3, <1>4, <3>2, <3>3
    <2> QED
      BY <1>3, <1>5, <2>1, <2>2 DEF SessionGood, Idle
  <1> QED
    BY <1>1, <1>3, <1>6, SessionwiseNext

-----------------------------------------------------------------------------
(***************************************************************************)
(* The commits.  Once every line is read, what the session has seen is     *)
(* what the table holds, so the statements amount to one step of OrderFlow.*)
(***************************************************************************)
LEMMA ReadIsCurrent ==
  ASSUME IsolationInv, NEW s \in Sessions, AllRead(s)
  PROVE  /\ DOMAIN txn[s].seen = { txn[s].lines[i] : i \in 1..Len(txn[s].lines) }
         /\ DOMAIN txn[s].seen \subseteq Skus
         /\ \A k \in DOMAIN txn[s].seen : txn[s].seen[k] = Item(k)
         /\ DOMAIN inventory \cup txn[s].added = DOMAIN inventory \cup DOMAIN txn[s].seen
         /\ txn[s].added \subseteq DOMAIN txn[s].seen
         /\ \A k \in DOMAIN inventory \cap DOMAIN txn[s].seen : k \in txn[s].held
  <1>1. SessionGood(s, txn[s])
    BY Sessionwise DEF IsolationInv, TxnTypeOK
  <1>2. /\ txn[s].missed = {}
        /\ txn[s].next = Len(txn[s].lines) + 1
        /\ Len(txn[s].lines) \in Nat
    BY <1>1 DEF AllRead, SessionGood, Txn
  <1>3. txn[s].next - 1 = Len(txn[s].lines)
    BY <1>2
  <1>4. DOMAIN txn[s].seen \subseteq Skus
    BY <1>1 DEF SessionGood, Txn
  <1>5. DOMAIN txn[s].seen = txn[s].held \cup txn[s].added
    BY <1>1, <1>2 DEF SessionGood
  <1>6. \A k \in DOMAIN txn[s].seen : txn[s].seen[k] = Item(k)
    BY <1>1, <1>5 DEF SessionGood, Item, NewItem
  <1> QED
    BY <1>1, <1>3, <1>4, <1>5, <1>6 DEF SessionGood

\* The order of an open worker exists and is undecided, and its lines are the
\* lines the session reads.
LEMMA ClaimedOrder ==
  ASSUME IsolationInv, FlowInv, NEW w \in Workers, Open(w)
  PROVE  /\ txn[w].event \in DOMAIN event_log
         /\ event_log[txn[w].event].event_type = "OrderCreated"
         /\ <<"inventory-worker", txn[w].event>> \notin processed
         /\ OrderOf(w) \in Orders
         /\ status[OrderOf(w)] = "created"
         /\ items[OrderOf(w)] \in Carts
         /\ { txn[w].lines[i] : i \in 1..Len(txn[w].lines) } = SkusOf(items[OrderOf(w)])
  <1>1. SessionGood(w, txn[w]) /\ w \in Sessions
    BY Sessionwise DEF IsolationInv, TxnTypeOK, Sessions
  <1>2. /\ txn[w].event \in DOMAIN event_log
        /\ event_log[txn[w].event].event_type = "OrderCreated"
        /\ <<"inventory-worker", txn[w].event>> \notin processed
        /\ Len(txn[w].lines) = Len(items[OrderOf(w)])
        /\ \A i \in DOMAIN txn[w].lines : txn[w].lines[i] = items[OrderOf(w)][i].sku
    BY <1>1 DEF SessionGood, Open, OrderOf
  <1>3. TypeOK
    BY DEF IsolationInv, TxnTypeOK
  <1>4. OrderOf(w) \in Orders
    BY <1>2, <1>3, EventKey DEF TypeOK, OrderOf, OrderEventType
  <1>5. status[OrderOf(w)] = "created"
    BY <1>2 DEF FlowInv, ProcessedMatchesStatus, OrderOf
  <1>6. items[OrderOf(w)] \in Carts
    BY <1>3, <1>4, <1>5 DEF TypeOK
  <1>7. /\ items[OrderOf(w)] \in Seq(Line)
        /\ txn[w].lines \in Seq(Skus)
    BY <1>1, <1>6, CartAssumption DEF SessionGood, Txn
  <1>8. /\ DOMAIN txn[w].lines = 1..Len(txn[w].lines)
        /\ DOMAIN items[OrderOf(w)] = 1..Len(txn[w].lines)
    BY <1>2, <1>7
  <1>9. { txn[w].lines[i] : i \in 1..Len(txn[w].lines) } = SkusOf(items[OrderOf(w)])
    BY <1>2, <1>8 DEF SkusOf
  <1> QED
    BY <1>2, <1>4, <1>5, <1>6, <1>9

\* A rejection is the rejection of OrderFlow.
LEMMA RejectionCommits ==
  ASSUME IsolationInv, FlowInv, NEW w \in Workers, CommitRejection(w)
  PROVE  ReserveInventory(txn[w].event)
  <1> DEFINE o == OrderOf(w)
             cart == items[o]
  <1>1. Open(w) /\ AllRead(w) /\ w \in Sessions
    BY DEF CommitRejection, AllRead, Sessions
  <1>2. DOMAIN txn[w].seen = SkusOf(cart)
    BY <1>1, ReadIsCurrent, ClaimedOrder
  <1>3. /\ status[o] = "created"
        /\ event_log[txn[w].event].event_type = "OrderCreated"
        /\ <<"inventory-worker", txn[w].event>> \notin processed
    BY <1>1, ClaimedOrder
  <1>4. \A i \in DOMAIN cart : cart[i].sku \in SkusOf(cart)
    BY DEF SkusOf
  <1>5. \A k \in SkusOf(cart) : SeenAvailable(w, k) = Available(k)
    BY <1>1, <1>2, ReadIsCurrent DEF SeenAvailable, Available
  <1>6. HasShortage(o)
    BY <1>4, <1>5 DEF CommitRejection, IsShort, HasShortage, Shortage
  <1>7. inventory' = [k \in DOMAIN inventory \cup SkusOf(cart) |-> Item(k)]
    <2>1. inventory' = [k \in DOMAIN inventory \cup txn[w].added |->
                          IF k \in txn[w].added THEN txn[w].seen[k] ELSE inventory[k]]
      BY DEF CommitRejection, WriteRows
    <2>2. DOMAIN inventory \cup txn[w].added = DOMAIN inventory \cup SkusOf(cart)
      BY <1>1, <1>2, ReadIsCurrent
    <2>3. \A k \in txn[w].added : txn[w].seen[k] = Item(k)
      BY <1>1, ReadIsCurrent
    <2>4. \A k \in (DOMAIN inventory \cup txn[w].added) \ txn[w].added : inventory[k] = Item(k)
      BY DEF Item
    <2> QED
      BY <2>1, <2>2, <2>3, <2>4
  <1>8. RejectLines(o)
    BY <1>3, <1>6, <1>7 DEF CommitRejection, RejectLines, MarkInventoryRejected
  <1> QED
    BY <1>3, <1>8 DEF CommitRejection, ReserveInventory, TryInsert, Processed, OrderOf

\* A reservation is the reservation of OrderFlow.
LEMMA ReservationCommits ==
  ASSUME IsolationInv, FlowInv, NEW w \in Workers, CommitReservation(w)
  PROVE  ReserveInventory(txn[w].event)
  <1> DEFINE o == OrderOf(w)
             cart == items[o]
  <1>1. Open(w) /\ AllRead(w) /\ w \in Sessions
    BY DEF CommitReservation, AllRead, Sessions
  <1>2. DOMAIN txn[w].seen = SkusOf(cart)
    BY <1>1, ReadIsCurrent, ClaimedOrder
  <1>3. /\ status[o] = "created"
        /\ event_log[txn[w].event].event_type = "OrderCreated"
        /\ <<"inventory-worker", txn[w].event>> \notin processed
    BY <1>1, ClaimedOrder
  <1>4. \A i \in DOMAIN cart : cart[i].sku \in SkusOf(cart)
    BY DEF SkusOf
  <1>5. \A k \in SkusOf(cart) : SeenAvailable(w, k) = Available(k)
    BY <1>1, <1>2, ReadIsCurrent DEF SeenAvailable, Available
  <1>6. ~HasShortage(o)
    BY <1>4, <1>5 DEF CommitReservation, IsShort, HasShortage, Shortage
  <1>7. \A k \in SkusOf(cart) : CanReserve(k, Demand(cart, k))
    BY <1>5 DEF CommitReservation, Reservable, CanReserve
  <1>8. inventory' = [k \in DOMAIN inventory \cup SkusOf(cart) |->
                        IF k \in SkusOf(cart)
                          THEN [Item(k) EXCEPT !.reserved = @ + Demand(cart, k)]
                          ELSE Item(k)]
    <2>1. inventory' = [k \in DOMAIN inventory \cup SkusOf(cart) |->
                          IF k \in SkusOf(cart)
                            THEN [txn[w].seen[k] EXCEPT !.reserved = @ + Demand(cart, k)]
                            ELSE inventory[k]]
      BY <1>2 DEF CommitReservation, WriteRows
    <2>2. \A k \in SkusOf(cart) : txn[w].seen[k] = Item(k)
      BY <1>1, <1>2, ReadIsCurrent
    <2>3. \A k \in (DOMAIN inventory \cup SkusOf(cart)) \ SkusOf(cart) : inventory[k] = Item(k)
      BY DEF Item
    <2> QED
      BY <2>1, <2>2, <2>3
  <1>9. ReserveLines(o)
    BY <1>3, <1>6, <1>7, <1>8 DEF CommitReservation, ReserveLines, MarkInventoryReserved
  <1> QED
    BY <1>3, <1>9 DEF CommitReservation, ReserveInventory, TryInsert, Processed, OrderOf

\* An adjustment is the adjustment of OrderFlow.
LEMMA AdjustmentCommits ==
  ASSUME IsolationInv, NEW a \in Admins, CommitAdjustment(a)
  PROVE  /\ txn[a].lines[1] \in Skus /\ txn[a].delta \in Deltas
         /\ AdjustInventory(txn[a].lines[1], txn[a].delta)
         /\ DOMAIN txn[a].seen = {txn[a].lines[1]}
  <1> DEFINE k == txn[a].lines[1]
  <1>1. Open(a) /\ AllRead(a) /\ a \in Sessions
    BY DEF CommitAdjustment, AllRead, Sessions
  <1>2. Len(txn[a].lines) = 1 /\ txn[a].delta \in Deltas
    BY <1>1 DEF IsolationInv, AdjustmentHolds
  <1>3. DOMAIN txn[a].seen = {k} /\ k \in Skus /\ txn[a].seen[k] = Item(k)
    BY <1>1, <1>2, ReadIsCurrent
  <1>4. CanAdjust(k, txn[a].delta) /\ Cardinality(Adjustments) < MaxAdjustments
    BY <1>3 DEF CommitAdjustment, Adjustable, CanAdjust
  <1>5. inventory' = [t \in DOMAIN inventory \cup {k} |->
                        IF t = k THEN [Item(t) EXCEPT !.on_hand = @ + txn[a].delta] ELSE Item(t)]
    <2>1. inventory' = [t \in DOMAIN inventory \cup {k} |->
                          IF t \in {k} THEN [txn[a].seen[t] EXCEPT !.on_hand = @ + txn[a].delta]
                          ELSE inventory[t]]
      BY DEF CommitAdjustment, WriteRows
    <2>2. \A t \in (DOMAIN inventory \cup {k}) \ {k} : inventory[t] = Item(t)
      BY DEF Item
    <2> QED
      BY <1>3, <2>1, <2>2
  <1> QED
    BY <1>2, <1>3, <1>4, <1>5 DEF CommitAdjustment, AdjustInventory

-----------------------------------------------------------------------------
\* Every step is a step of OrderFlow or leaves the tables alone.
LEMMA UseCaseStep ==
  ASSUME IsolationInv, FlowInv, [TxnNext]_txnVars
  PROVE  [Next]_vars
  <1>1. ASSUME NEW o \in Orders, NEW cart \in Carts, PlaceOrder(o, cart)
        PROVE  Next
    <2>1. o \in Keys
      BY ReserveTransactionAssumption
    <2> QED
      BY <1>1, <2>1 DEF PlaceOrder, Next
  <1>2. ASSUME NEW w \in Workers, FinishReservation(w)
        PROVE  [Next]_vars
    <2>1. CASE CommitRejection(w) \/ CommitReservation(w)
      <3>1. ReserveInventory(txn[w].event)
        BY <2>1, RejectionCommits, ReservationCommits
      <3>2. txn[w].event \in DOMAIN event_log
        BY <2>1, ClaimedOrder DEF CommitRejection, CommitReservation, AllRead
      <3> QED
        BY <3>1, <3>2 DEF Next
    <2>2. CASE FailReservation(w)
      BY <2>2 DEF FailReservation, Rollback
    <2> QED
      BY <1>2, <2>1, <2>2 DEF FinishReservation
  <1>3. ASSUME NEW a \in Admins, FinishAdjustment(a)
        PROVE  [Next]_vars
    <2>1. CASE CommitAdjustment(a)
      BY <2>1, AdjustmentCommits DEF Next
    <2>2. CASE FailAdjustment(a)
      BY <2>2 DEF FailAdjustment, Rollback
    <2> QED
      BY <1>3, <2>1, <2>2 DEF FinishAdjustment
  <1>4. ASSUME NEW s \in Sessions, Statement(s) \/ DeadlockVictim(s) \/ Fault(s)
        PROVE  UNCHANGED vars
    BY <1>4 DEF Statement, ReadRow, MissRow, FlushInsert, DeadlockVictim, Fault, Rollback
  <1>5. ASSUME NEW w \in Workers, NEW e \in DOMAIN event_log, ClaimEvent(w, e)
        PROVE  UNCHANGED vars
    BY <1>5 DEF ClaimEvent
  <1>6. ASSUME NEW a \in Admins, NEW k \in Skus, NEW delta \in Deltas,
               BeginAdjustment(a, k, delta)
        PROVE  UNCHANGED vars
    BY <1>6 DEF BeginAdjustment
  <1>7. CASE UNCHANGED txnVars
    BY <1>7 DEF txnVars
  <1> QED
    BY <1>1, <1>2, <1>3, <1>4, <1>5, <1>6, <1>7 DEF TxnNext

\* A rolled-back session leaves the others as they are.
LEMMA RollbackIsolates ==
  ASSUME IsolationInv, NEW s \in Sessions,
         txn' = [txn EXCEPT ![s] = Idle], UNCHANGED vars, faults' \in 0..MaxFaults
  PROVE  IsolationInv'
  BY IdleGood, SessionStep

\* A worker starts with the lines of an event that nobody else has.
LEMMA ClaimEventIsolates ==
  ASSUME IsolationInv, FlowInv, NEW w \in Workers, NEW e \in DOMAIN event_log,
         ClaimEvent(w, e)
  PROVE  IsolationInv'
  <1> DEFINE o == event_log[e].key
             lines == [i \in DOMAIN items[o] |-> items[o][i].sku]
             r == [Idle EXCEPT !.event = e, !.lines = lines]
  <1>1. TypeOK /\ w \in Sessions /\ w \notin Admins /\ faults \in 0..MaxFaults
    BY ReserveTransactionAssumption DEF IsolationInv, TxnTypeOK, Sessions
  <1>2. /\ event_log \in Seq(DomainEvent)
        /\ event_log[e].event_type = "OrderCreated"
        /\ <<"inventory-worker", e>> \notin processed
        /\ \A v \in Workers : txn[v].event # e
        /\ e \in Nat
    BY <1>1 DEF ClaimEvent, Claimed, TypeOK
  <1>3. o \in Orders /\ status[o] = "created"
    BY <1>2, EventKey DEF FlowInv, ProcessedMatchesStatus, OrderEventType
  <1>4. items[o] \in Seq(Line)
    BY <1>1, <1>3, CartAssumption DEF TypeOK
  <1>5. /\ lines \in Seq(Skus)
        /\ Len(lines) = Len(items[o])
        /\ \A i \in DOMAIN lines : lines[i] = items[o][i].sku
    <2>1. /\ Len(items[o]) \in Nat
          /\ DOMAIN items[o] = 1..Len(items[o])
          /\ \A i \in 1..Len(items[o]) : items[o][i] \in Line
      BY <1>4
    <2>2. lines \in [1..Len(items[o]) -> Skus]
      BY <2>1 DEF Line
    <2> QED
      BY <2>1, <2>2
  <1>6. SessionGood(w, Idle)
    BY <1>1, IdleGood
  <1>7. /\ r.event = e /\ r.lines = lines /\ r.delta = Idle.delta
        /\ r.next = Idle.next /\ r.seen = Idle.seen /\ r.held = Idle.held
        /\ r.added = Idle.added /\ r.missed = Idle.missed
    BY DEF Idle
  <1>8. r \in Txn
    BY <1>2, <1>5, <1>6 DEF SessionGood, Idle, Txn
  <1>9. /\ Idle.next = 1 /\ DOMAIN Idle.seen = {}
        /\ Idle.held = {} /\ Idle.added = {} /\ Idle.missed = {}
    BY DEF Idle
  <1> HIDE DEF lines, r
  <1>10. 1 \in 1..Len(lines) + 1 /\ Len(lines) \in Nat
    BY <1>5
  <1>11. r.lines = <<>> => Len(items[o]) = 0
    BY <1>5, <1>7
  <1>12. items[o] # <<>>
    BY <1>1, <1>3, CartAssumption DEF TypeOK
  <1>13. r.lines # <<>>
    BY <1>4, <1>11, <1>12
  <1>14. SessionGood(w, r)
    BY <1>1, <1>2, <1>5, <1>7, <1>8, <1>9, <1>10, <1>13 DEF SessionGood
  <1>15. txn' = [txn EXCEPT ![w] = r]
    BY DEF ClaimEvent, r, lines
  <1> QED
    BY <1>1, <1>14, <1>15, SessionStep DEF ClaimEvent, vars

LEMMA BeginAdjustmentIsolates ==
  ASSUME IsolationInv, NEW a \in Admins, NEW k \in Skus, NEW delta \in Deltas,
         BeginAdjustment(a, k, delta)
  PROVE  IsolationInv'
  <1> DEFINE r == [Idle EXCEPT !.delta = delta, !.lines = <<k>>]
  <1>1. a \in Sessions /\ a \notin Workers /\ faults \in 0..MaxFaults
    BY ReserveTransactionAssumption DEF IsolationInv, TxnTypeOK, Sessions
  <1>2. SessionGood(a, Idle)
    BY <1>1, IdleGood
  <1>3. r \in Txn
    <2>1. Idle \in Txn /\ <<k>> \in Seq(Skus) /\ delta \in Deltas \cup {0}
      BY <1>2 DEF SessionGood
    <2> QED
      BY <2>1 DEF Txn
  <1>4. /\ r.lines = <<k>> /\ r.delta = delta /\ r.next = 1 /\ DOMAIN r.seen = {}
        /\ r.held = {} /\ r.added = {} /\ r.missed = {}
    BY DEF Idle
  <1>5. Len(<<k>>) = 1 /\ <<k>> # <<>>
    OBVIOUS
  <1> HIDE DEF r
  <1>6. SessionGood(a, r)
    BY <1>1, <1>3, <1>4, <1>5 DEF SessionGood
  <1>7. txn' = [txn EXCEPT ![a] = r]
    BY DEF BeginAdjustment, r
  <1> QED
    BY <1>1, <1>6, <1>7, SessionStep DEF BeginAdjustment, vars

\* Reading a row locks it, unless this session has inserted it.
LEMMA ReadRowIsolates ==
  ASSUME IsolationInv, NEW s \in Sessions, ReadRow(s)
  PROVE  IsolationInv'
  <1> DEFINE k == NextSku(s)
             q == txn[s]
             view == IF k \in DOMAIN q.seen THEN q.seen
                     ELSE [j \in DOMAIN q.seen \cup {k} |->
                             IF j = k THEN inventory[k] ELSE q.seen[j]]
             r == [q EXCEPT !.next = q.next + 1, !.held = q.held \cup ({k} \ q.added),
                            !.seen = view]
  <1>1. /\ SessionGood(s, q) /\ TypeOK /\ faults \in 0..MaxFaults
        /\ txn \in [Sessions -> Txn] /\ q \in Txn
    BY Sessionwise DEF IsolationInv, TxnTypeOK
  <1>2. /\ q.missed = {} /\ q.next \in DOMAIN q.lines /\ k = q.lines[q.next]
        /\ k \in DOMAIN inventory \cup q.added
        /\ \A t \in Sessions \ {s} : k \notin txn[t].held
    BY DEF ReadRow, Reading, NextSku, RowHeld
  <1>3. /\ q.lines \in Seq(Skus) /\ q.next \in 1..Len(q.lines) /\ k \in Skus
        /\ q.lines # <<>>
    BY <1>1, <1>2 DEF Txn
  <1>4. DOMAIN q.seen \subseteq Skus /\ q.seen \in [DOMAIN q.seen -> InventoryItem]
    BY <1>1 DEF Txn
  <1>5. k \notin q.added => k \in DOMAIN inventory /\ inventory[k] \in InventoryItem
    BY <1>1, <1>2 DEF TypeOK
  <1>6. DOMAIN q.seen = q.held \cup q.added
    BY <1>1, <1>2 DEF SessionGood
  <1>7. /\ DOMAIN view = DOMAIN q.seen \cup {k}
        /\ \A j \in DOMAIN q.seen : view[j] = q.seen[j]
        /\ k \notin DOMAIN q.seen => view[k] = inventory[k]
        /\ view \in [DOMAIN q.seen \cup {k} -> InventoryItem]
    BY <1>4, <1>5, <1>6
  <1>8. k \notin q.added => view[k] = inventory[k]
    BY <1>1, <1>6, <1>7 DEF SessionGood
  <1>9. /\ r.event = q.event /\ r.delta = q.delta /\ r.lines = q.lines
        /\ r.next = q.next + 1 /\ r.held = q.held \cup ({k} \ q.added)
        /\ r.seen = view /\ r.added = q.added /\ r.missed = {}
    BY <1>1, <1>2 DEF Txn
  <1>10. r \in Txn
    <2>1. view \in UNION { [D -> InventoryItem] : D \in SUBSET Skus }
      BY <1>3, <1>4, <1>7
    <2>2. /\ q.event \in Nat /\ q.delta \in Deltas \cup {0} /\ q.lines \in Seq(Skus)
          /\ q.next + 1 \in Nat /\ q.held \subseteq Skus /\ q.added \subseteq Skus
      BY <1>1 DEF Txn
    <2> HIDE DEF view, k
    <2> QED
      BY <1>1, <1>3, <2>1, <2>2 DEF Txn
  <1>11. txn' = [txn EXCEPT ![s] = r]
    BY <1>1 DEF ReadRow, Txn
  <1> HIDE DEF r, view, k
  <1>12. /\ \A j \in r.held : j \in DOMAIN inventory /\ r.seen[j] = inventory[j]
         /\ \A j \in r.added : j \notin DOMAIN inventory
         /\ \A j \in r.added \cup r.missed : r.seen[j] = NewItem
         /\ DOMAIN r.seen = r.held \cup r.added \cup r.missed
    BY <1>1, <1>2, <1>5, <1>6, <1>7, <1>8, <1>9 DEF SessionGood
  <1>13. \A t \in Sessions \ {s} :
           r.held \cap txn[t].held = {} /\ r.added \cap txn[t].added = {}
    BY <1>1, <1>2, <1>9 DEF SessionGood
  <1>14. r.next \in 1..Len(r.lines) + 1 /\ r.next - 1 = q.next
    <2>1. Len(q.lines) \in Nat
      BY <1>3
    <2> QED
      BY <1>3, <1>9, <2>1
  <1>15. DOMAIN r.seen = { r.lines[i] : i \in 1..r.next - 1 }
    <2>1. DOMAIN q.seen = { q.lines[i] : i \in 1..q.next - 1 }
      BY <1>1 DEF SessionGood
    <2>2. 1..q.next = 1..(q.next - 1) \cup {q.next}
      BY <1>3
    <2> QED
      BY <1>2, <1>7, <1>9, <1>14, <2>1, <2>2
  <1>16. SessionGood(s, r)
    BY <1>1, <1>3, <1>9, <1>10, <1>12, <1>13, <1>14, <1>15 DEF SessionGood
  <1> QED
    BY <1>1, <1>11, <1>16, SessionStep DEF ReadRow, vars

\* A row that is missing is added, and queued for the next statement.
LEMMA MissRowIsolates ==
  ASSUME IsolationInv, NEW s \in Sessions, MissRow(s)
  PROVE  IsolationInv'
  <1> DEFINE k == NextSku(s)
             q == txn[s]
             view == [j \in DOMAIN q.seen \cup {k} |-> IF j = k THEN NewItem ELSE q.seen[j]]
             r == [q EXCEPT !.next = q.next + 1, !.missed = {k}, !.seen = view]
  <1>1. /\ SessionGood(s, q) /\ TypeOK /\ faults \in 0..MaxFaults
        /\ txn \in [Sessions -> Txn] /\ q \in Txn
    BY Sessionwise DEF IsolationInv, TxnTypeOK
  <1>2. /\ q.missed = {} /\ q.next \in DOMAIN q.lines /\ k = q.lines[q.next]
        /\ k \notin DOMAIN inventory \cup q.added
    BY DEF MissRow, Reading, NextSku
  <1>3. /\ q.lines \in Seq(Skus) /\ q.next \in 1..Len(q.lines) /\ k \in Skus
        /\ q.lines # <<>>
    BY <1>1, <1>2 DEF Txn
  <1>4. DOMAIN q.seen \subseteq Skus /\ q.seen \in [DOMAIN q.seen -> InventoryItem]
    BY <1>1 DEF Txn
  <1>5. NewItem \in InventoryItem
    BY CartAssumption DEF NewItem, InventoryItem
  <1>6. DOMAIN q.seen = q.held \cup q.added /\ k \notin q.held \cup q.added
    BY <1>1, <1>2 DEF SessionGood
  <1>7. /\ DOMAIN view = DOMAIN q.seen \cup {k}
        /\ \A j \in DOMAIN q.seen : view[j] = q.seen[j]
        /\ view[k] = NewItem
        /\ view \in [DOMAIN q.seen \cup {k} -> InventoryItem]
    BY <1>4, <1>5, <1>6
  <1>8. /\ r.event = q.event /\ r.delta = q.delta /\ r.lines = q.lines
        /\ r.next = q.next + 1 /\ r.held = q.held
        /\ r.seen = view /\ r.added = q.added /\ r.missed = {k}
    BY <1>1, <1>2 DEF Txn
  <1>9. r \in Txn
    <2>1. view \in UNION { [D -> InventoryItem] : D \in SUBSET Skus }
      BY <1>3, <1>4, <1>7
    <2>2. /\ q.event \in Nat /\ q.delta \in Deltas \cup {0} /\ q.lines \in Seq(Skus)
          /\ q.next + 1 \in Nat /\ q.held \subseteq Skus /\ q.added \subseteq Skus
      BY <1>1 DEF Txn
    <2> HIDE DEF view, k
    <2> QED
      BY <1>1, <1>3, <2>1, <2>2 DEF Txn
  <1>10. txn' = [txn EXCEPT ![s] = r]
    BY <1>1 DEF MissRow, Txn
  <1> HIDE DEF r, view, k
  <1>11. /\ \A j \in r.held : j \in DOMAIN inventory /\ r.seen[j] = inventory[j]
         /\ \A j \in r.added : j \notin DOMAIN inventory
         /\ \A j \in r.added \cup r.missed : r.seen[j] = NewItem
         /\ DOMAIN r.seen = r.held \cup r.added \cup r.missed
         /\ r.missed \cap (r.held \cup r.added) = {}
    BY <1>1, <1>2, <1>6, <1>7, <1>8 DEF SessionGood
  <1>12. \A t \in Sessions \ {s} :
           r.held \cap txn[t].held = {} /\ r.added \cap txn[t].added = {}
    BY <1>1, <1>8 DEF SessionGood
  <1>13. r.next \in 1..Len(r.lines) + 1 /\ r.next - 1 = q.next
    BY <1>3, <1>8
  <1>14. DOMAIN r.seen = { r.lines[i] : i \in 1..r.next - 1 }
    <2>1. DOMAIN q.seen = { q.lines[i] : i \in 1..q.next - 1 }
      BY <1>1 DEF SessionGood
    <2>2. 1..q.next = 1..(q.next - 1) \cup {q.next}
      BY <1>3
    <2> QED
      BY <1>2, <1>7, <1>8, <1>13, <2>1, <2>2
  <1>15. \A j \in r.missed : r.missed = {j} /\ j = r.lines[r.next - 1]
    BY <1>2, <1>8, <1>13
  <1>16. SessionGood(s, r)
    BY <1>1, <1>3, <1>8, <1>9, <1>11, <1>12, <1>13, <1>14, <1>15 DEF SessionGood
  <1> QED
    BY <1>1, <1>10, <1>16, SessionStep DEF MissRow, vars

\* The queued INSERT takes a SKU nobody else has, or the session rolls back.
LEMMA FlushInsertIsolates ==
  ASSUME IsolationInv, NEW s \in Sessions, FlushInsert(s)
  PROVE  IsolationInv'
  <1> DEFINE q == txn[s]
  <1>1. /\ SessionGood(s, q) /\ TypeOK /\ faults \in 0..MaxFaults
        /\ txn \in [Sessions -> Txn] /\ q \in Txn
    BY Sessionwise DEF IsolationInv, TxnTypeOK
  <1>2. PICK k \in q.missed :
          /\ \A t \in Sessions : ~InsertPending(t, s, k)
          /\ IF SkuIsNew(k)
               THEN /\ txn' = [txn EXCEPT ![s].added = @ \cup {k}, ![s].missed = {}]
                    /\ UNCHANGED <<vars, faults>>
               ELSE Rollback(s)
    BY DEF FlushInsert
  <1>3. CASE SkuIsNew(k)
    <2> DEFINE r == [q EXCEPT !.added = q.added \cup {k}, !.missed = {}]
    <2>1. /\ r.event = q.event /\ r.delta = q.delta /\ r.lines = q.lines
          /\ r.next = q.next /\ r.held = q.held /\ r.seen = q.seen
          /\ r.added = q.added \cup {k} /\ r.missed = {}
      BY <1>1 DEF Txn
    <2>2. k \in Skus /\ q.missed = {k}
      BY <1>1 DEF SessionGood, Txn
    <2>3. r \in Txn
      BY <1>1, <2>2 DEF Txn
    <2>4. txn' = [txn EXCEPT ![s] = r]
      BY <1>1, <1>2, <1>3 DEF Txn
    <2>5. k \notin DOMAIN inventory /\ \A t \in Sessions \ {s} : k \notin txn[t].added
      BY <1>2, <1>3 DEF SkuIsNew, InsertPending
    <2>6. r.lines # <<>>
      BY <1>1, <2>1, <2>2 DEF SessionGood, Idle
    <2> HIDE DEF r
    <2>7. SessionGood(s, r)
      BY <1>1, <2>1, <2>2, <2>3, <2>5, <2>6 DEF SessionGood
    <2> QED
      BY <1>1, <1>2, <1>3, <2>4, <2>7, SessionStep DEF vars
  <1>4. CASE ~SkuIsNew(k)
    BY <1>1, <1>2, <1>4, RollbackIsolates DEF Rollback, EndTransaction, vars
  <1> QED
    BY <1>3, <1>4

-----------------------------------------------------------------------------
(***************************************************************************)
(* One induction for both invariants.                                      *)
(***************************************************************************)
TxnInv == IsolationInv /\ FlowInv

\* The tables change as a use case changes them: the types and FlowInv of
\* OrderFlow stay true.
LEMMA TablesStep ==
  ASSUME TxnInv, [TxnNext]_txnVars
  PROVE  TypeOK' /\ FlowInv'
  <1>1. [Next]_vars
    BY UseCaseStep DEF TxnInv
  <1> QED
    BY <1>1, TypeStep, FlowStep DEF TxnInv, IsolationInv, TxnTypeOK

LEMMA FinishReservationIsolates ==
  ASSUME TxnInv, TypeOK', NEW w \in Workers, FinishReservation(w)
  PROVE  IsolationInv'
  <1>1. w \in Sessions /\ faults \in 0..MaxFaults /\ event_log \in Seq(DomainEvent)
    BY DEF TxnInv, IsolationInv, TxnTypeOK, TypeOK, Sessions
  <1>2. CASE CommitRejection(w) \/ CommitReservation(w)
    <2>1. AllRead(w) /\ Open(w)
      BY <1>2 DEF CommitRejection, CommitReservation, AllRead
    <2>2. /\ DOMAIN inventory \cup txn[w].added = DOMAIN inventory \cup DOMAIN txn[w].seen
          /\ txn[w].added \subseteq DOMAIN txn[w].seen
          /\ \A k \in DOMAIN inventory \cap DOMAIN txn[w].seen : k \in txn[w].held
      BY <1>1, <2>1, ReadIsCurrent DEF TxnInv
    <2>3. /\ DOMAIN inventory' = DOMAIN inventory \cup txn[w].added
          /\ \A k \in DOMAIN inventory \ txn[w].held : inventory'[k] = inventory[k]
      <3>1. CASE CommitRejection(w)
        <4>1. inventory' = [k \in DOMAIN inventory \cup txn[w].added |->
                             IF k \in txn[w].added THEN txn[w].seen[k] ELSE inventory[k]]
          BY <3>1 DEF CommitRejection, WriteRows
        <4> QED
          BY <2>2, <4>1
      <3>2. CASE CommitReservation(w)
        <4> DEFINE row(k) == [txn[w].seen[k] EXCEPT
                                !.reserved = @ + Demand(items[OrderOf(w)], k)]
        <4>1. inventory' = [k \in DOMAIN inventory \cup DOMAIN txn[w].seen |->
                             IF k \in DOMAIN txn[w].seen THEN row(k) ELSE inventory[k]]
          BY <3>2 DEF CommitReservation, WriteRows
        <4> HIDE DEF row
        <4> QED
          BY <2>2, <4>1
      <3> QED
        BY <1>2, <3>1, <3>2
    <2>4. OrderOf(w) \in Orders
      BY <2>1, ClaimedOrder DEF TxnInv
    <2>5. PICK type \in {"InventoryRejected", "InventoryReserved"} : Emit(type, OrderOf(w))
      BY <1>2 DEF CommitRejection, CommitReservation
    <2>6. [event_type |-> type, key |-> OrderOf(w)] \in DomainEvent
      BY <2>4 DEF DomainEvent, OrderEventType
    <2>7. \A e \in DOMAIN event_log : e \in DOMAIN event_log' /\ event_log'[e] = event_log[e]
      BY <1>1, <2>5, <2>6, EmitAppends
    <2>8. /\ txn' = [txn EXCEPT ![w] = Idle]
          /\ UNCHANGED <<items, faults>>
          /\ processed' = processed \cup {<<"inventory-worker", txn[w].event>>}
      BY <1>2 DEF CommitRejection, CommitReservation, EndTransaction, Processed
    <2> QED
      BY <1>1, <2>1, <2>3, <2>7, <2>8, CommitIsolates DEF TxnInv, Open
  <1>3. CASE FailReservation(w)
    BY <1>1, <1>3, RollbackIsolates
       DEF FailReservation, Rollback, EndTransaction, TxnInv, vars
  <1> QED
    BY <1>2, <1>3 DEF FinishReservation

LEMMA FinishAdjustmentIsolates ==
  ASSUME TxnInv, TypeOK', NEW a \in Admins, FinishAdjustment(a)
  PROVE  IsolationInv'
  <1>1. a \in Sessions /\ faults \in 0..MaxFaults /\ event_log \in Seq(DomainEvent)
    BY DEF TxnInv, IsolationInv, TxnTypeOK, TypeOK, Sessions
  <1>2. CASE CommitAdjustment(a)
    <2> DEFINE k == txn[a].lines[1]
    <2>1. k \in Skus /\ DOMAIN txn[a].seen = {k} /\ Emit("InventoryAdjusted", k)
      BY <1>2, AdjustmentCommits DEF TxnInv, CommitAdjustment
    <2>2. /\ DOMAIN inventory \cup txn[a].added = DOMAIN inventory \cup DOMAIN txn[a].seen
          /\ \A j \in DOMAIN inventory \cap DOMAIN txn[a].seen : j \in txn[a].held
      BY <1>1, <1>2, ReadIsCurrent DEF TxnInv, CommitAdjustment
    <2>3. /\ DOMAIN inventory' = DOMAIN inventory \cup txn[a].added
          /\ \A j \in DOMAIN inventory \ txn[a].held : inventory'[j] = inventory[j]
      BY <1>2, <2>1, <2>2 DEF CommitAdjustment, WriteRows
    <2>4. [event_type |-> "InventoryAdjusted", key |-> k] \in DomainEvent
      BY <2>1 DEF DomainEvent
    <2>5. \A e \in DOMAIN event_log : e \in DOMAIN event_log' /\ event_log'[e] = event_log[e]
      BY <1>1, <2>1, <2>4, EmitAppends
    <2>6. txn' = [txn EXCEPT ![a] = Idle] /\ UNCHANGED <<items, faults, processed>>
      BY <1>2 DEF CommitAdjustment, EndTransaction
    <2> QED
      BY <1>1, <2>3, <2>5, <2>6, CommitIsolates DEF TxnInv
  <1>3. CASE FailAdjustment(a)
    BY <1>1, <1>3, RollbackIsolates
       DEF FailAdjustment, Rollback, EndTransaction, TxnInv, vars
  <1> QED
    BY <1>2, <1>3 DEF FinishAdjustment

LEMMA IsolationStep ==
  ASSUME TxnInv, [TxnNext]_txnVars
  PROVE  TxnInv'
  <1>1. TypeOK' /\ FlowInv'
    BY TablesStep
  <1>2. ASSUME NEW o \in Orders, NEW cart \in Carts, PlaceOrder(o, cart)
        PROVE  IsolationInv'
    BY <1>1, <1>2, PlaceOrderIsolates DEF TxnInv
  <1>3. ASSUME NEW w \in Workers, NEW e \in DOMAIN event_log, ClaimEvent(w, e)
        PROVE  IsolationInv'
    BY <1>3, ClaimEventIsolates DEF TxnInv
  <1>4. ASSUME NEW a \in Admins, NEW k \in Skus, NEW delta \in Deltas,
               BeginAdjustment(a, k, delta)
        PROVE  IsolationInv'
    BY <1>4, BeginAdjustmentIsolates DEF TxnInv
  <1>5. ASSUME NEW s \in Sessions, Statement(s)
        PROVE  IsolationInv'
    BY <1>5, ReadRowIsolates, MissRowIsolates, FlushInsertIsolates DEF TxnInv, Statement
  <1>6. ASSUME NEW s \in Sessions, DeadlockVictim(s) \/ Fault(s)
        PROVE  IsolationInv'
    <2>1. faults \in 0..MaxFaults /\ MaxFaults \in Nat
      BY ReserveTransactionAssumption DEF TxnInv, IsolationInv, TxnTypeOK
    <2>2. faults' \in 0..MaxFaults
      BY <1>6, <2>1 DEF DeadlockVictim, Rollback, Fault
    <2>3. txn' = [txn EXCEPT ![s] = Idle] /\ UNCHANGED vars
      BY <1>6 DEF DeadlockVictim, Rollback, Fault, EndTransaction
    <2> QED
      BY <2>2, <2>3, RollbackIsolates DEF TxnInv
  <1>7. ASSUME NEW w \in Workers, FinishReservation(w)
        PROVE  IsolationInv'
    BY <1>1, <1>7, FinishReservationIsolates
  <1>8. ASSUME NEW a \in Admins, FinishAdjustment(a)
        PROVE  IsolationInv'
    BY <1>1, <1>8, FinishAdjustmentIsolates
  <1>9. CASE UNCHANGED txnVars
    <2>1. /\ TypeOK /\ txn \in [Sessions -> Txn] /\ faults \in 0..MaxFaults
          /\ \A t \in Sessions : SessionGood(t, txn[t])
      BY Sessionwise DEF TxnInv, IsolationInv, TxnTypeOK
    <2>2. \A t \in Sessions : SessionGood(t, txn[t])'
      <3> TAKE t \in Sessions
      <3>1. SessionGood(t, txn[t])
        BY <2>1
      <3>2. /\ txn' = txn /\ inventory' = inventory /\ event_log' = event_log
            /\ processed' = processed /\ items' = items
        BY <1>9 DEF txnVars, vars
      <3> QED
        BY <3>1, <3>2 DEF SessionGood, Idle
    <2>3. txn' \in [Sessions -> Txn] /\ faults' \in 0..MaxFaults
      BY <1>9, <2>1 DEF txnVars
    <2>4. IsolationInv'
      BY <1>1, <2>2, <2>3, SessionwiseNext
    <2> QED
      BY <1>1, <2>4 DEF TxnInv
  <1> QED
    BY <1>1, <1>2, <1>3, <1>4, <1>5, <1>6, <1>7, <1>8, <1>9 DEF TxnNext, TxnInv

LEMMA TxnCorrect == TxnSpec => []TxnInv
  <1>1. TxnInit => TxnInv
    <2> SUFFICES ASSUME TxnInit
                 PROVE  TxnInv
      OBVIOUS
    <2>1. TypeOK
      BY DEF TxnInit, Init, TypeOK, OrderStatus, DomainEvent
    <2>2. FlowInv
      BY DEF TxnInit, Init, FlowInv, ProcessedMatchesStatus, LogMatchesTables, Logged,
             NoEventTwice, StatusAfter, OrderStatus, OrderEventType
    <2>3. faults \in 0..MaxFaults
      BY ReserveTransactionAssumption DEF TxnInit
    <2>4. \A s \in Sessions : SessionGood(s, Idle)
      BY IdleGood
    <2>5. txn = [s \in Sessions |-> Idle]
      BY DEF TxnInit
    <2>6. txn \in [Sessions -> Txn]
      BY <2>4, <2>5 DEF SessionGood
    <2> QED
      BY <2>1, <2>2, <2>3, <2>4, <2>5, <2>6, Sessionwise DEF TxnInv
  <1> QED
    BY <1>1, IsolationStep, PTL DEF TxnSpec

\* No update of an inventory row is lost, no row is inserted twice and no
\* event is worked on twice, for any number of workers and adjustments and
\* any interleaving of their statements, rollbacks, deadlocks and faults.
THEOREM Isolation == TxnSpec => []IsolationInv
  BY TxnCorrect, PTL DEF TxnInv

\* The statements under their locks implement the atomic use cases, so what
\* is proved of OrderFlow holds of the code's transactions.
THEOREM UseCases == TxnSpec => ImplementsUseCases
  <1>1. TxnInit => Init
    BY DEF TxnInit
  <1>2. TxnInv /\ [TxnNext]_txnVars => [Next]_vars
    BY UseCaseStep DEF TxnInv
  <1> QED
    BY <1>1, <1>2, TxnCorrect, PTL DEF TxnSpec, Spec, ImplementsUseCases

-----------------------------------------------------------------------------
(***************************************************************************)
(* Deadlock.  Want(s) is the SKU whose row a waiting session asks for.  In *)
(* a common order of the SKUs it comes after all that the session has, so  *)
(* along a chain of waiting sessions it only moves up.                     *)
(***************************************************************************)
Want(s) == txn[s].lines[IF txn[s].missed = {} THEN txn[s].next ELSE txn[s].next - 1]

Owned(s) == txn[s].held \cup txn[s].added

\* A session waits for a row of another session, and has others itself.
LEMMA WaitsForRow ==
  ASSUME IsolationInv, NEW s \in Sessions, NEW t \in Sessions, Waits(s, t)
  PROVE  /\ t # s
         /\ Want(s) \in Skus
         /\ Want(s) \in Owned(t)
         /\ \A k \in Owned(s) :
              /\ k # Want(s)
              /\ \E i, j \in DOMAIN txn[s].lines :
                   i < j /\ txn[s].lines[i] = k /\ txn[s].lines[j] = Want(s)
  <1> DEFINE q == txn[s]
  <1>1. SessionGood(s, q) /\ SessionGood(t, txn[t])
    BY Sessionwise DEF IsolationInv, TxnTypeOK
  <1>2. /\ q \in Txn /\ q.lines \in Seq(Skus) /\ Len(q.lines) \in Nat
        /\ DOMAIN q.lines = 1..Len(q.lines)
        /\ q.next \in 1..Len(q.lines) + 1
        /\ DOMAIN q.seen = q.held \cup q.added \cup q.missed
        /\ DOMAIN q.seen = { q.lines[i] : i \in 1..q.next - 1 }
    BY <1>1 DEF SessionGood, Txn
  <1>3. CASE /\ Reading(s)
             /\ NextSku(s) \in DOMAIN inventory
             /\ RowHeld(t, s, NextSku(s))
    <2>1. /\ q.missed = {} /\ q.next \in 1..Len(q.lines)
          /\ Want(s) = q.lines[q.next]
          /\ Want(s) \in DOMAIN inventory
          /\ Want(s) \in txn[t].held
          /\ t # s
      BY <1>2, <1>3 DEF Reading, NextSku, RowHeld, Want
    <2>2. Want(s) \notin Owned(s)
      BY <1>1, <2>1 DEF SessionGood, Owned
    <2>3. ASSUME NEW k \in Owned(s)
          PROVE  \E i \in 1..q.next - 1 : q.lines[i] = k
      BY <1>2 DEF Owned
    <2>4. \A i \in 1..q.next - 1 : i < q.next /\ i \in 1..Len(q.lines)
      BY <1>2
    <2> QED
      BY <1>2, <2>1, <2>2, <2>3, <2>4 DEF Owned
  <1>4. CASE \E k \in q.missed : InsertPending(t, s, k)
    <2>1. PICK k \in q.missed : InsertPending(t, s, k)
      BY <1>4
    <2>2. /\ q.missed = {k} /\ k = q.lines[q.next - 1]
          /\ q.missed \cap (q.held \cup q.added) = {}
      BY <1>1 DEF SessionGood
    <2>3. q.next - 1 \in 1..Len(q.lines)
      <3>1. 1..q.next - 1 # {}
        BY <1>2, <2>1
      <3> QED
        BY <1>2, <3>1
    <2>4. Want(s) = k /\ k \in txn[t].added /\ t # s
      BY <2>1, <2>2 DEF Want, InsertPending
    <2>5. ASSUME NEW j \in Owned(s)
          PROVE  \E i \in 1..q.next - 1 : q.lines[i] = j /\ i # q.next - 1
      BY <1>2, <2>2 DEF Owned
    <2>6. \A i \in 1..q.next - 1 : i # q.next - 1 => i < q.next - 1 /\ i \in 1..Len(q.lines)
      BY <1>2
    <2>7. q.lines[q.next - 1] = Want(s)
      BY <2>2, <2>4
    <2>8. ASSUME NEW j \in Owned(s)
          PROVE  \E i, m \in 1..Len(q.lines) : i < m /\ q.lines[i] = j /\ q.lines[m] = Want(s)
      <3>1. PICK i \in 1..q.next - 1 : q.lines[i] = j /\ i # q.next - 1
        BY <2>5
      <3> QED
        BY <2>3, <2>6, <2>7, <3>1
    <2>9. Want(s) \in Skus /\ Want(s) \in Owned(t) /\ \A j \in Owned(s) : j # Want(s)
      BY <1>2, <2>2, <2>3, <2>4 DEF Owned
    <2> QED
      BY <1>2, <2>4, <2>8, <2>9
  <1> QED
    BY <1>3, <1>4 DEF Waits

\* An adjustment that waits has no row yet, so nobody waits for it.
LEMMA OnlyReservationsDeadlock ==
  ASSUME IsolationInv, NEW S \in SUBSET Sessions, Deadlocked(S)
  PROVE  S \subseteq Workers
  <1> SUFFICES ASSUME NEW a \in S, a \in Admins
               PROVE  FALSE
    BY DEF Sessions
  <1>1. PICK t \in S : Waits(a, t)
    BY DEF Deadlocked
  <1>2. PICK u \in S : Waits(u, a)
    BY DEF Deadlocked
  <1>3. Owned(a) # {}
    BY <1>2, WaitsForRow
  <1>4. PICK i \in DOMAIN txn[a].lines, j \in DOMAIN txn[a].lines : i < j
    BY <1>1, <1>3, WaitsForRow
  <1>5. SessionGood(a, txn[a]) /\ a \in Sessions
    BY Sessionwise DEF IsolationInv, TxnTypeOK
  <1>6. txn[a].lines \in Seq(Skus)
    BY <1>5 DEF SessionGood, Txn
  <1>7. txn[a].lines # <<>>
    BY <1>4, <1>6
  <1>8. Len(txn[a].lines) = 1
    BY <1>5, <1>7 DEF SessionGood
  <1> QED
    BY <1>4, <1>6, <1>8

\* Sessions whose lines follow one order of the SKUs do not wait in a circle:
\* the one that wants the last SKU waits for nobody.
LEMMA CommonOrderNeverDeadlocks ==
  ASSUME IsolationInv, NEW S \in SUBSET Sessions, Deadlocked(S),
         NEW rank \in [Skus -> 1..Cardinality(Skus)],
         \A s \in S : Sorted(txn[s].lines, rank)
  PROVE  FALSE
  <1> DEFINE N == Cardinality(Skus)
             below(s) == N - rank[Want(s)]
             T == { below(s) : s \in S }
  <1>1. N \in Nat
    BY ReserveTransactionAssumption, FS_CardinalityType
  <1>2. \A s \in S : \E t \in S : Waits(s, t)
    BY DEF Deadlocked
  <1>3. \A s \in S : Want(s) \in Skus
    BY <1>2, WaitsForRow
  <1>4. \A s \in S : rank[Want(s)] \in 1..N
    BY <1>3
  <1>5. ASSUME NEW s \in S
        PROVE  \E t \in S : below(t) < below(s)
    <2>1. PICK t \in S : Waits(s, t)
      BY <1>2
    <2>2. PICK u \in S : Waits(t, u)
      BY <1>2
    <2>3. Want(s) \in Owned(t)
      BY <2>1, WaitsForRow
    <2>4. /\ Want(s) # Want(t)
          /\ \E i, j \in DOMAIN txn[t].lines :
               i < j /\ txn[t].lines[i] = Want(s) /\ txn[t].lines[j] = Want(t)
      BY <2>2, <2>3, WaitsForRow
    <2>5. rank[Want(s)] < rank[Want(t)]
      BY <2>4 DEF Sorted
    <2> QED
      BY <1>1, <1>4, <2>5
  <1>6. \A s \in S : below(s) \in Nat
    BY <1>1, <1>4
  <1> HIDE DEF below
  <1>7. T \subseteq Nat /\ T # {}
    BY <1>6 DEF Deadlocked
  <1>8. PICK x \in T : \A y \in T : ~(<<y, x>> \in OpToRel(<, Nat))
    <2> HIDE DEF T
    <2> QED
      BY <1>7, NatLessThanWellFounded, WFMin
  <1>9. \A y \in T : ~(y < x)
    BY <1>7, <1>8 DEF OpToRel
  <1> QED
    BY <1>5, <1>9

\* A deadlock takes two reservations whose lines name the SKUs in different
\* orders.
THEOREM Deadlocks == TxnSpec => []DeadlocksAreOpposedReservations
  <1>1. IsolationInv => DeadlocksAreOpposedReservations
    <2> SUFFICES ASSUME IsolationInv, NEW S \in SUBSET Sessions, Deadlocked(S)
                 PROVE  /\ \E v, w \in S \cap Workers : v # w
                        /\ S \subseteq Workers
                        /\ ~\E rank \in [Skus -> 1..Cardinality(Skus)] :
                              \A s \in S : Sorted(txn[s].lines, rank)
      BY DEF DeadlocksAreOpposedReservations
    <2>1. S \subseteq Workers
      BY OnlyReservationsDeadlock
    <2>2. \E v, w \in S : v # w
      BY WaitsForRow DEF Deadlocked
    <2> QED
      BY <2>1, <2>2, CommonOrderNeverDeadlocks
  <1> QED
    BY <1>1, Isolation, PTL

-----------------------------------------------------------------------------
\* Row by row, with the locks and the claims alone to keep transactions apart,
\* the shop keeps the promise of Fulfilment.
THEOREM PromiseUnderLocks == TxnSpec => ImplementsFulfilment
  BY UseCases, Refinement DEF ImplementsUseCases
=============================================================================
