------------------------ MODULE ReserveTransaction ------------------------
(***************************************************************************)
(* The inventory rows under concurrency: ReserveInventoryUseCase and       *)
(* AdjustInventoryUseCase statement by statement, with the row locks and   *)
(* the unique constraints of PostgreSQL they rely on.  OrderFlow takes     *)
(* each of them for one step; here the step is earned.                     *)
(*                                                                         *)
(* A session is a transaction in progress: a POST /inventory/adjustments,  *)
(* or an inventory worker, of which there may be more than one (a second   *)
(* instance, or a restarted one whose predecessor is not rolled back yet). *)
(* get_for_update is a SELECT ... FOR UPDATE: it waits for the session     *)
(* that holds the row, and finds no row while its INSERT is uncommitted.   *)
(* inventory.add only queues an INSERT, which autoflush sends with the     *)
(* next statement: it waits for another session's INSERT of the same SKU   *)
(* and fails once that is committed.  The processed_events row and the     *)
(* order row are locked by the claim that opens a worker's transaction; a  *)
(* session that waits for a claim holds nothing yet.                       *)
(***************************************************************************)
EXTENDS OrderFlow

CONSTANTS
  Workers,   \* transactions of inventory workers
  Admins,    \* transactions of POST /inventory/adjustments
  MaxFaults  \* bound: sessions that end by a crash or a lost connection

Sessions == Workers \cup Admins

ASSUME ReserveTransactionAssumption ==
  /\ Workers \cap Admins = {}
  /\ MaxFaults \in Nat
  /\ Orders \subseteq Keys  \* the key of an order matters in no step here
  /\ IsFiniteSet(Skus)

VARIABLES
  txn,     \* the transaction of each session
  faults   \* how many sessions a fault has ended

txnVars == <<vars, txn, faults>>

Txn ==
  [event  : Nat,           \* the event a worker has claimed, 0 for none
   delta  : Deltas \cup {0},
   lines  : Seq(Skus),     \* the SKUs of the lines to read; <<>> when idle
   next   : Nat,           \* the line to read next
   seen   : UNION { [D -> InventoryItem] : D \in SUBSET Skus },
                           \* inventory_items of the handler: what it read
   held   : SUBSET Skus,   \* committed rows locked FOR UPDATE
   added  : SUBSET Skus,   \* rows inserted, visible to this session only
   missed : SUBSET Skus]   \* rows added to the Session, not yet flushed

Idle ==
  [event |-> 0, delta |-> 0, lines |-> <<>>, next |-> 1,
   seen |-> [k \in {} |-> 0], held |-> {}, added |-> {}, missed |-> {}]

Open(s) == txn[s].lines # <<>>

TxnTypeOK ==
  /\ TypeOK
  /\ txn \in [Sessions -> Txn]
  /\ faults \in 0..MaxFaults

NewItem == [on_hand |-> 0, reserved |-> 0]

-----------------------------------------------------------------------------
\* Mutant: a plain SELECT, which waits for nobody.
SelectWithoutLock(t, s, k) == FALSE

\* Mutant: the lock is not of this session (a second connection took it).
RowHeldByAny(t, s, k) == k \in txn[t].held

\* Session t holds the row that session s asks for; FOR UPDATE is re-entrant.
RowHeld(t, s, k) == t # s /\ k \in txn[t].held

\* Session t has inserted, and not committed, the row s wants to insert.
InsertPending(t, s, k) == t # s /\ k \in txn[t].added

NextSku(s) == txn[s].lines[txn[s].next]

Reading(s) == txn[s].missed = {} /\ txn[s].next \in DOMAIN txn[s].lines

AllRead(s) ==
  Open(s) /\ txn[s].missed = {} /\ txn[s].next = Len(txn[s].lines) + 1

\* Session s waits for a lock of session t.
Waits(s, t) ==
  \/ /\ Reading(s)
     /\ NextSku(s) \in DOMAIN inventory
     /\ RowHeld(t, s, NextSku(s))
  \/ \E k \in txn[s].missed : InsertPending(t, s, k)

\* Sessions that wait for each other in a circle.
Deadlocked(S) ==
  /\ S # {}
  /\ \A s \in S : (\E t \in S : Waits(s, t)) /\ (\E t \in S : Waits(t, s))

\* Mutant: the session is neither rolled back nor closed and keeps its locks.
LeaveOpen(s) == txn' = [txn EXCEPT ![s].next = Len(txn[s].lines) + 2]

\* SqlAlchemyUnitOfWork.__exit__, and PostgreSQL when a connection ends.
EndTransaction(s) == txn' = [txn EXCEPT ![s] = Idle]

Rollback(s) == EndTransaction(s) /\ UNCHANGED <<vars, faults>>

-----------------------------------------------------------------------------
TxnInit ==
  /\ Init
  /\ txn = [s \in Sessions |-> Idle]
  /\ faults = 0

\* POST /orders, whose rows no session here has locked.
PlaceOrder(o, cart) == CreateOrder(o, o, cart) /\ UNCHANGED <<txn, faults>>

\* Mutant: try_insert does not see another session's uncommitted row.
ClaimsOverlap(e) == FALSE

Claimed(e) == \E w \in Workers : txn[w].event = e

\* A worker opens a unit of work: try_insert and orders.get_for_update.
ClaimEvent(w, e) ==
  /\ ~Open(w)
  /\ event_log[e].event_type = "OrderCreated"
  /\ <<"inventory-worker", e>> \notin processed
  /\ ~Claimed(e)
  /\ txn' = [txn EXCEPT ![w] = [Idle EXCEPT
               !.event = e,
               !.lines = [i \in DOMAIN items[event_log[e].key] |->
                            items[event_log[e].key][i].sku]]]
  /\ UNCHANGED <<vars, faults>>

BeginAdjustment(a, k, delta) ==
  /\ ~Open(a)
  /\ Cardinality(Adjustments) < MaxAdjustments
  /\ txn' = [txn EXCEPT ![a] = [Idle EXCEPT !.delta = delta, !.lines = <<k>>]]
  /\ UNCHANGED <<vars, faults>>

\* get_for_update for the next line: the row, once nobody else holds it, and
\* as this session changed or read it if it has it already.
ReadRow(s) ==
  LET k == NextSku(s) IN
    /\ Reading(s)
    /\ k \in DOMAIN inventory \cup txn[s].added
    /\ \A t \in Sessions : ~RowHeld(t, s, k)
    /\ txn' = [txn EXCEPT
                 ![s].next = @ + 1,
                 ![s].held = @ \cup ({k} \ txn[s].added),
                 ![s].seen = IF k \in DOMAIN @ THEN @
                             ELSE [j \in DOMAIN @ \cup {k} |->
                                     IF j = k THEN inventory[k] ELSE @[j]]]
    /\ UNCHANGED <<vars, faults>>

\* get_for_update finds no row: a new InventoryItem, and inventory.add.
MissRow(s) ==
  LET k == NextSku(s) IN
    /\ Reading(s)
    /\ k \notin DOMAIN inventory \cup txn[s].added
    /\ txn' = [txn EXCEPT
                 ![s].next = @ + 1,
                 ![s].missed = {k},
                 ![s].seen = [j \in DOMAIN @ \cup {k} |->
                                IF j = k THEN NewItem ELSE @[j]]]
    /\ UNCHANGED <<vars, faults>>

\* Mutant: inventory_items.sku is not a primary key.
InsertAccepted(k) == TRUE

SkuIsNew(k) == k \notin DOMAIN inventory

\* Autoflush of the queued INSERT; IntegrityError when the SKU is taken.
FlushInsert(s) ==
  \E k \in txn[s].missed :
    /\ \A t \in Sessions : ~InsertPending(t, s, k)
    /\ IF SkuIsNew(k)
         THEN /\ txn' = [txn EXCEPT ![s].added = @ \cup {k}, ![s].missed = {}]
              /\ UNCHANGED <<vars, faults>>
         ELSE Rollback(s)

-----------------------------------------------------------------------------
SeenAvailable(s, k) == txn[s].seen[k].on_hand - txn[s].seen[k].reserved

OrderOf(w) == event_log[txn[w].event].key

IsShort(w) ==
  LET cart == items[OrderOf(w)] IN
    \E i \in DOMAIN cart : SeenAvailable(w, cart[i].sku) < cart[i].quantity

\* reserve() raises at the line that takes more than is left.
Reservable(w) ==
  \A k \in SkusOf(items[OrderOf(w)]) :
    Demand(items[OrderOf(w)], k) <= SeenAvailable(w, k)

\* The rows of inventory_items after a commit that leaves row(k) for each
\* SKU k of Changed.
WriteRows(Changed, row(_)) ==
  inventory' = [k \in DOMAIN inventory \cup Changed |->
                  IF k \in Changed THEN row(k) ELSE inventory[k]]

Processed(w) == processed' = processed \cup {<<"inventory-worker", txn[w].event>>}

CommitRejection(w) ==
  /\ AllRead(w)
  /\ IsShort(w)
  /\ WriteRows(txn[w].added, LAMBDA k : txn[w].seen[k])
  /\ status' = [status EXCEPT ![OrderOf(w)] = "inventory_rejected"]
  /\ Emit("InventoryRejected", OrderOf(w))
  /\ Processed(w)
  /\ EndTransaction(w)
  /\ UNCHANGED <<items, shipments, idempotency, faults>>

CommitReservation(w) ==
  /\ AllRead(w)
  /\ ~IsShort(w)
  /\ Reservable(w)
  /\ WriteRows(DOMAIN txn[w].seen,
               LAMBDA k : [txn[w].seen[k] EXCEPT
                             !.reserved = @ + Demand(items[OrderOf(w)], k)])
  /\ status' = [status EXCEPT ![OrderOf(w)] = "inventory_reserved"]
  /\ Emit("InventoryReserved", OrderOf(w))
  /\ Processed(w)
  /\ EndTransaction(w)
  /\ UNCHANGED <<items, shipments, idempotency, faults>>

\* InsufficientInventory out of reserve().
FailReservation(w) == AllRead(w) /\ ~IsShort(w) /\ ~Reservable(w) /\ Rollback(w)

\* What adjust() and the column let through, and the bound of OrderFlow.
Adjustable(a, k) ==
  /\ Cardinality(Adjustments) < MaxAdjustments
  /\ txn[a].seen[k].on_hand + txn[a].delta \in 0..MaxInt
  /\ txn[a].seen[k].on_hand + txn[a].delta >= txn[a].seen[k].reserved

CommitAdjustment(a) ==
  LET k == txn[a].lines[1] IN
    /\ AllRead(a)
    /\ Adjustable(a, k)
    /\ WriteRows({k}, LAMBDA j : [txn[a].seen[j] EXCEPT !.on_hand = @ + txn[a].delta])
    /\ Emit("InventoryAdjusted", k)
    /\ EndTransaction(a)
    /\ UNCHANGED <<status, items, shipments, processed, idempotency, faults>>

\* ValueError out of adjust(), or a value the column refuses.
FailAdjustment(a) == AllRead(a) /\ ~Adjustable(a, txn[a].lines[1]) /\ Rollback(a)

\* PostgreSQL ends one session of a circle with an error.
DeadlockVictim(s) == (\E S \in SUBSET Sessions : s \in S /\ Deadlocked(S)) /\ Rollback(s)

\* The process, its connection or a statement fails before the commit.
Fault(s) ==
  /\ Open(s)
  /\ faults < MaxFaults
  /\ faults' = faults + 1
  /\ EndTransaction(s)
  /\ UNCHANGED vars

Statement(s) == ReadRow(s) \/ MissRow(s) \/ FlushInsert(s)

FinishReservation(w) == CommitRejection(w) \/ CommitReservation(w) \/ FailReservation(w)

FinishAdjustment(a) == CommitAdjustment(a) \/ FailAdjustment(a)

TxnNext ==
  \/ \E o \in Orders, cart \in Carts : PlaceOrder(o, cart)
  \/ \E w \in Workers, e \in DOMAIN event_log : ClaimEvent(w, e)
  \/ \E a \in Admins, k \in Skus, delta \in Deltas : BeginAdjustment(a, k, delta)
  \/ \E s \in Sessions : Statement(s) \/ DeadlockVictim(s) \/ Fault(s)
  \/ \E w \in Workers : FinishReservation(w)
  \/ \E a \in Admins : FinishAdjustment(a)

TxnSpec == TxnInit /\ [][TxnNext]_txnVars

-----------------------------------------------------------------------------
\* What the locks keep true of an open transaction: nobody else has its rows,
\* and what it read of them is still what the table holds.
LocksHold(s) ==
  /\ \A k \in txn[s].held : k \in DOMAIN inventory /\ txn[s].seen[k] = inventory[k]
  /\ \A k \in txn[s].added : k \notin DOMAIN inventory
  /\ \A k \in txn[s].added \cup txn[s].missed : txn[s].seen[k] = NewItem
  /\ DOMAIN txn[s].seen = txn[s].held \cup txn[s].added \cup txn[s].missed
  /\ txn[s].missed \cap (txn[s].held \cup txn[s].added) = {}
  /\ \A t \in Sessions \ {s} :
       txn[s].held \cap txn[t].held = {} /\ txn[s].added \cap txn[t].added = {}

\* A session has read the rows of the lines before the next one, and has at
\* most one INSERT queued, that of the line it read last.  When it is not open
\* it has nothing.
LinesRead(s) ==
  /\ ~Open(s) => txn[s] = Idle
  /\ txn[s].next \in 1..Len(txn[s].lines) + 1
  /\ DOMAIN txn[s].seen = { txn[s].lines[i] : i \in 1..txn[s].next - 1 }
  /\ \A k \in txn[s].missed : txn[s].missed = {k} /\ k = txn[s].lines[txn[s].next - 1]

\* An open worker works on an undecided order that no other session has.
ClaimHolds(w) ==
  LET e == txn[w].event IN
    Open(w) =>
      /\ e \in DOMAIN event_log
      /\ event_log[e].event_type = "OrderCreated"
      /\ <<"inventory-worker", e>> \notin processed
      /\ \A v \in Workers \ {w} : txn[v].event # e
      /\ Len(txn[w].lines) = Len(items[event_log[e].key])
      /\ \A i \in DOMAIN txn[w].lines : txn[w].lines[i] = items[event_log[e].key][i].sku

\* An open adjustment works on one row.
AdjustmentHolds(a) == Open(a) => Len(txn[a].lines) = 1 /\ txn[a].delta \in Deltas

\* The rows a transaction has read stay its own until it ends: no update of
\* inventory_items is lost between get_for_update and save, no row is inserted
\* twice, and no event is worked on twice.
IsolationInv ==
  /\ TxnTypeOK
  /\ \A s \in Sessions : LocksHold(s) /\ LinesRead(s)
  /\ \A w \in Workers : ClaimHolds(w)
  /\ \A a \in Admins : AdjustmentHolds(a)

\* Every commit is one step of OrderFlow, and everything else is none: the use
\* cases are as atomic as that module takes them to be.
ImplementsUseCases == Spec

\* The lines name SKUs in the order that rank gives them.
Sorted(lines, rank) ==
  \A i, j \in DOMAIN lines :
    i < j => (rank[lines[i]] < rank[lines[j]] \/ lines[i] = lines[j])

\* A circle of waiting sessions takes two reservations, whose lines name the
\* same SKUs in different orders; an adjustment or a cart that names a SKU
\* twice never closes one, and neither do carts in one common order.
DeadlocksAreOpposedReservations ==
  \A S \in SUBSET Sessions : Deadlocked(S) =>
    /\ \E v, w \in S \cap Workers : v # w
    /\ S \subseteq Workers
    /\ ~\E rank \in [Skus -> 1..Cardinality(Skus)] :
          \A s \in S : Sorted(txn[s].lines, rank)

Progress(s) ==
  Statement(s) \/ (s \in Workers /\ FinishReservation(s)) \/ (s \in Admins /\ FinishAdjustment(s))

ClaimOrder(o) ==
  \E w \in Workers, e \in DOMAIN event_log : event_log[e].key = o /\ ClaimEvent(w, e)

\* PostgreSQL queues the sessions that wait for a row, so one that waits gets
\* its turn, and it breaks every deadlock; a message stays pending until its
\* handler returns.  Clients owe nothing and faults are few.
FairTxnSpec ==
  /\ TxnSpec
  /\ \A s \in Sessions : SF_txnVars(Progress(s))
  /\ \A o \in Orders : SF_txnVars(ClaimOrder(o))
  /\ WF_txnVars(\E s \in Sessions : DeadlockVictim(s))

NoDeadlock == ~\E S \in SUBSET Sessions : Deadlocked(S)

\* Lock waits, lost insert races and faults delay an order and do not lose it:
\* it is decided, unless two of its lines name one SKU, or sessions run into
\* a deadlock again and again.
OrderDecidedDespiteLocks ==
  <>[]NoDeadlock =>
    \A o \in Orders :
      (status[o] = "created" /\ ~RepeatsSku(items[o])) ~>
        status[o] \in OrderStatus \ {"created"}
=============================================================================
