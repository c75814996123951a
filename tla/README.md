# TLA+ models of Mini EC

A verification project for the event-driven shop in `src/app`: what its tables,
outbox, stream and workers do, and what can be relied on when requests race,
calls fail, processes die and messages come twice. TLC checks the modules on
small instances; TLAPS proves all of the safety for every instance.

## The system

Clients call a FastAPI process. It writes PostgreSQL, and each write appends its
domain event to `event_log` in the same transaction. An outbox relay copies
unpublished rows to one Redis stream. Three workers, each a consumer group of its
own, read the stream, do their work in one transaction, append further events,
and acknowledge. Communication is through these two stores alone.

| Component | State it keeps | Operations | What makes it correct |
| --- | --- | --- | --- |
| Orders, inventory, shipping (`domain/`) | `orders`, `order_items`, `inventory_items`, `shipments` | guarded status changes, `adjust`, `reserve` | stock never promised twice; an order is decided once, on all its lines or none |
| Create order (`create_order.py`) | `idempotency_keys` | `POST /orders` | one order for each key; order, event and key appear together; answers agree |
| Adjust inventory | `inventory_items` | `POST /inventory/adjustments` | never below zero, below what is reserved, or past an INTEGER |
| Reserve inventory (`inventory-worker`) | `processed_events` | `OrderCreated` → `InventoryReserved` or `InventoryRejected` | a redelivered event changes nothing; every order is decided |
| Create shipment (`shipping-worker`) | `processed_events`, `shipments` | `InventoryReserved` → `ShipmentCreated` | one shipment for each reserved order |
| Order summary (`projection-worker`, API) | `order_summary_read_model` | projection, rebuild, read | no increment lost or doubled |
| Outbox relay (`relay.py`) | `event_log.published_at`, row locks | select a batch, XADD each, mark, commit | no committed event lost, nothing sent that was rolled back |
| Redis consumer (`consumer.py`) | pending entries list, failure counts in memory | read pending, read new, handle, XACK, dead-letter | nothing acknowledged unsettled; no message hides another for ever |
| Dead letters, replay, redrive | `dead_letter_events` | insert, publish again | extra copies do no harm; a letter is work that can be taken up again |
| Start-up (`session.py`, `main.py`, `runner.py`, `relay.py`) | the schema, an advisory lock | `init_database`, `ensure_group` | no service runs on half a schema; no group misses what was sent before it |
| API layer, queries, fault injection, UI, configuration | none of their own | forward, read, validate | see "Not modelled" |

What is hard here: two requests with one key; commits in another order than ids;
failures between XADD and commit, between a handler's commit and its XACK, and
inside the dead letter handler; redelivery at any later time; two sessions
creating the same row, or locking two rows in opposite order; a rebuild that
overlaps projections; an order naming one SKU twice; a Redis that comes back
without its stream; services that create the schema side by side. `PROJECT.json`
lists each hazard at its line with the properties aimed at it.

## Modules

| Module | Models | Composed with |
| --- | --- | --- |
| `Cart` | the lines of an order, and what they ask of a SKU together | extended by `OrderFlow`, `IdempotentOrders` |
| `Fulfilment` | the abstract promise: place once, decide once against the free stock, ship once | refined by `OrderFlow` |
| `OrderFlow` | the tables and the use cases that write them, a committed unit of work per step, under arbitrary delivery | extends `Cart`, instantiates `Fulfilment` |
| `IdempotentOrders` | `POST /orders` statement by statement | instantiates `OrderFlow` as its abstraction |
| `ReserveTransaction` | reserving and adjusting statement by statement, by sessions side by side: row locks, autoflush, insert races, deadlocks | extends `OrderFlow`, which is also its abstraction |
| `OutboxRelay` | `list_unpublished`, XADD, `mark_published`, commit, for several relays | |
| `StreamConsumer` | `run_forever` and `run_once`, call by call, over a consumer group | instantiates `ConsumerGroup` |
| `ConsumerGroup` | the abstract promise of a group and its worker: a copy of an event leaves by committed work, by a dead letter of its own, or, when Redis stops, with all of its data | refined by `StreamConsumer`, and by `Pipeline` for each group |
| `Pipeline` | clients, relay, stream, groups, workers, dead letters, replay and redrive around the tables | extends `OrderFlow`, which is also its abstraction; instantiates `ConsumerGroup` twice |
| `OrderSummary` | projection and rebuild transactions, with the row lock and both unique constraints | instantiates `ReadModel` |
| `ReadModel` | the abstract promise of the summary: one event counted once, or a count of a prefix of the log | refined by `OrderSummary` |
| `SchemaStart` | `init_database` of all services | |
| `MC*` | the small instances TLC checks | each extends its module |
| `OrderFlowProofs`, `IdempotentOrdersProofs`, `ReserveTransactionProofs`, `OutboxRelayProofs`, `StreamConsumerProofs`, `PipelineProofs`, `OrderSummaryProofs`, `SchemaStartProofs` | theorems | each extends its module |

`Fulfilment` <- `OrderFlow` <- `IdempotentOrders`, `ReserveTransaction` and
`Pipeline` are refinements, and so are `ConsumerGroup` <- `StreamConsumer` and
`Pipeline`, and `ReadModel` <- `OrderSummary`: what is shown of an abstract module
holds of the detailed ones.

`OutboxRelay` and `StreamConsumer` look inside two parts that `Pipeline` cuts down
to the one event each step is about. For the worker the cut is justified by the
promise both modules keep, `ConsumerGroup`. For the relay it is an argument:
`Publish` does XADD and mark in one step, since nobody but the relay reads
`published_at`, and `SpareSend` is the XADD whose mark is not committed.

### How state and actions correspond to the code

*OrderFlow.* `status`, `items`, `inventory`, `shipments`, `event_log`,
`processed` and `idempotency` are the tables. `CreateOrder`, `AdjustInventory`,
`ReserveInventory(e)` and `CreateShipment(e)` are `execute` of the four use
cases, from their first guard to `uow.commit()`. A call that raises is rolled
back by `SqlAlchemyUnitOfWork.__exit__` and is no step. Workers may be handed
any event of the log at any time: relay, pending list, replay and redrive can do
no more, so what holds here holds under all of them. A duplicate changes
nothing (`TryInsert` is false) and is no step either. When `reserve()` is called
for the lines of one SKU one after the other it raises exactly if their sum
exceeds what is available, which is how `ReserveLines` puts it.
`OrderDetails(o, read)` is the answer of `GET /orders/{order_id}`: the status was
`read` at some earlier commit, the shipment is looked up now.

*IdempotentOrders.* `pc[r]` is the statement request `r` has reached:
`Check`/`AnswerRecorded` (`idempotency.get`), `FlushOrder` (`orders.add`,
`events.append`), `InsertKey`/`KeyConflict` (the flush inside `commit()`, which
waits while another transaction holds the key), `Commit`. `Fails` is any
statement or commit that raises, with or without the commit having happened.

*OutboxRelay.* `row[e]` is the fate of the transaction that appended row `e`:
ids are drawn when rows are flushed and become visible in any order. `batch[r]`
is what `list_unpublished` returned to relay `r`, locked until the transaction
ends; `unsent[r]` is what its loop has left. `published` changes at the commit.

*StreamConsumer.* `pc` names the next call of `run_once`. Each call succeeds or
raises, and a call that raises may still have had its effect. A handler is what
it does to the `processed_events` rows of its worker. `failures` is lost when the
process ends; `pending`, `processed` and `dead_letters` are not.

*OrderSummary.* A session begins (`TryInsert` of a projection, `ListAll` of a
rebuild), gets the summary row (`LockRow`, or `MissRow` and `InsertRow`, or
`RowExists` for the loser of that race) and commits. `drift` is a history
variable: by how much the last rebuild differed from the projected events.

*ReserveTransaction.* `txn[s]` is the open transaction of session `s`: what it
has claimed, the lines it has still to read, the rows it has `seen`, and those it
has locked (`held`), inserted (`added`) or queued an INSERT for (`missed`).
`ReadRow` and `MissRow` are `inventory.get_for_update`, `FlushInsert` is the
autoflush of `inventory.add` before the next statement or the commit. The rest is
`CommitRejection`, `CommitReservation`, `CommitAdjustment`, the calls that raise,
and what PostgreSQL does to a circle of waiters (`DeadlockVictim`). Claiming the
event and locking its order row is one step: a session that waits there holds
nothing yet.

*Pipeline.* `Publish` is a relay pass for one event, `Handle`,
`HandleWithoutAck` and `GiveUp` are the outcomes of a worker's `run_once` for
one message, `Replay` and `Redrive` the admin endpoints. A worker may give up an
event whose work and acknowledgement are done (`AckedUnseen`): its XACK raised
though Redis had carried it out, and the failure was counted. `SpareSend` stands for
every send without bookkeeping: a relay or redrive transaction that fails after
its XADD, a replay of an event that is not lost, a second redrive. `stream[e]`
and `unacked[g][e]` count copies of an event. A message whose handler ignores
its type is acknowledged without effect and is not counted. Redis keeps or loses
all of its data when it stops, as `docker-compose.yml` gives it no volume; a
message in a worker's hands when they are lost counts as one whose handling has
not begun. `lost` is a history variable: the work that was only in a lost stream.

*SchemaStart.* `stage[s]` follows one call of `init_database`: waiting for the
advisory lock, in `create_all` (`LookUp` one table after the other, then
`Create`), `unlocked` by the `finally` block, `up` after the commit. The lock is
released before the commit, `session.py:24`, so a second service may look up
tables that are there and not yet visible.

One assumption is more than a bound, a type or a set that is finite or not
empty: `ReserveTransaction` uses an order's own name as its key, since keys play
no part there.

## Runs

| Run | Shows |
| --- | --- |
| `OrderFlow` | `NeverOversold`, `ReservationsBalance` (the reserved column is the sum of the demands of the reserved orders), `ProcessedMatchesStatus`, `LogFaithful` (the log says what the tables say, once), `HandlersCanSucceed` (the handler of an undone event finds the state it needs, repeated SKUs excepted); that the tables implement `Fulfilment`; `OrderDetailsFit` (an answer of `GET /orders` put together from two commits is one an order can have); `EveryPlainOrderDecided` (carts that name a SKU once) and `EveryReservationShipped` |
| `IdempotentOrders_safety` | `OrdersInv`, `OneOrderPerKey`, `AnswersAgree`, `EveryRequestAnswered`, and that the statements implement `CreateOrder` of `OrderFlow` |
| `ReserveTransaction` | `IsolationInv` (rows read stay a session's own and unchanged), `DeadlocksAreOpposedReservations`, `OrderDecidedDespiteLocks`, and that every commit is one step of `OrderFlow` |
| `OutboxRelay` | `RelayInv`, `PublishedIsSent`, `CopiesNeedFaults`, `EveryEventPublished` |
| `StreamConsumer` | `ConsumerInv` (with `AckedIsSettled`: nothing leaves the group without its work or its letter), `PendingFitsOneRead`, `DeadLettersNeedFaults`, `DeadLettersBounded`, `EveryMessageAcked` for a worker that is restarted; that the loop implements `ConsumerGroup` |
| `Pipeline` | `DeliveryInv`, `NothingStranded` (undone work is always in one of five places), `EveryOrderCompletes`; that each group implements `ConsumerGroup` |
| `OrderSummary` | `SummaryInv`, `SummaryExplained`, `EveryEventProjected`; that the committed counters implement `ReadModel` |
| `SchemaStart` | `SchemaInv`, `AtMostOneStartFails`, `EveryServiceStarts` |

Four runs show where the code departs from what the repository says of it; each
ends in a counterexample:

* `OrderFlow_repeated_sku`: an order with two lines of one SKU, each within the
  stock and together beyond it, is never decided. `reserve_inventory.py:43`
  compares single lines, `reserve()` then raises on every delivery.
* `StreamConsumer_db_outage`: during a PostgreSQL outage the handler fails five
  times within moments (a failing handler does not sleep), the dead letter
  handler fails too, its error passes `except RedisError` and the process ends.
  `docker-compose.yml` has no restart policy, so the message stays pending after
  the outage.
* `IdempotentOrders_race`: the loser of a race for one key gets 503 though the
  database is fine; its repetition gets the recorded result.
* `OrderSummary_rebuild`: rebuild counts an event of the log that is not yet
  projected; the projection then counts it again, and the counter ends above the
  log (`NoEventCountedTwice`).

### Bounds, and why they are enough

* `OrderFlow`: two orders, two keys, two SKUs, stock up to 3, three adjustments
  of -1 or 2 (235,697 states). Carts: one line of 1 or 2, two SKUs, one SKU twice.
  Two orders compete for stock that covers one, share a SKU, and span two;
  negative adjustments meet reserved stock. The log has at most nine events, all
  of which may be redelivered for ever. No symmetry, as the run checks liveness.
* `ReserveTransaction`: two workers, one adjustment at a time, two SKUs, two
  orders, one fault (150,182 states). Carts name the SKUs in either order, or one
  twice: enough for a circle of two, for insert races of worker with worker and
  worker with adjustment, and for a session that meets its own lock or insert.
* `Pipeline`: one order of one or two lines of one SKU, one adjustment, two dead
  letters, one stop of Redis, one spare send (485,060 states). Both workers
  crash any number of times; a copy may be dead-lettered, redriven and
  dead-lettered again, and the stream may be lost with the work of either worker
  in it. Several orders at once are the business of `OrderFlow`, which
  `Pipeline` is proved to implement.
* `SchemaStart`: three services, two tables, two stops (2,022 states): a winner,
  a loser and a third that finds either; a stop in any stage. What two tables
  show is a schema that is there in part.
* `OutboxRelay`: four rows, batches of two, two relays, two faults: a batch may
  fail in the middle, be taken over by the other relay and fail again, and a low
  id may commit after two batches.
* `StreamConsumer`: four messages of three kinds of event, reads of two, two
  failures to a dead letter, three faults: full batches, a second copy of an
  event, a fault during the handling of a fault. `MaxFailures = 2` stands for 5;
  the outage run has the deployed numbers, 5 and 10.
* `IdempotentOrders_safety`: four requests over two keys, three of them with one
  key and one of these with other lines; two faults.
* `OrderSummary`: two events, two counters, two projections, one rebuild, a fault.

### Fairness

Nothing is assumed of clients, writers, administrators or failures.
* `OrderFlow!FairSpec`: a handler that could succeed for ever is run. The relay
  sends an event until it is marked; a message stays pending until a handler
  returns. An event that is dead-lettered needs an operator to redrive it.
* `ReserveTransaction`: strong fairness for the next statement of a session, as
  PostgreSQL queues those that wait for a row, and for the delivery of an
  undecided order; weak for the end of a deadlock, which PostgreSQL looks for.
  The property is conditional: sessions that meet in a deadlock for ever decide
  nothing. An event is delivered without limit here, while a worker gives it up
  after five failures; then it takes a redrive, as in `Pipeline`.
* `OutboxRelay`: each relay keeps taking steps; `main` loops over every exception.
* `StreamConsumer`: `run_forever` keeps taking steps. `Restarted` says whether
  something starts a process that has ended; the passing run assumes it, the
  outage run does not.
* `Pipeline`: the relay and the workers loop. Strong fairness for a worker,
  which may crash in between any number of times but gets through in the end.
  The operator owes the rest (`Operator`): ended workers and Redis are started
  again, dead letters redriven, lost events replayed. None of this happens by
  itself.
* `IdempotentOrders`: the API goes on with a request it has begun, and a client
  repeats one that was not answered.
* `OrderSummary`: strong fairness for a session waiting for the row, since
  PostgreSQL queues lock waiters, and for the delivery of an unprojected event.
* `SchemaStart`: a service that has ended is started again, by an operator, since
  `docker-compose.yml` has no restart policy.

## Proofs

All proofs hold for every value of the constants that meets the assumptions: any
orders, SKUs, sessions, copies and bounds.

`OrderFlowProofs` has every safety property of the run `OrderFlow`:
`TypeCorrect`, `Oversell`, `Redelivery`, `LogAgrees` (from `Outbox` and
`AtMostOnce`), `Balance`, `Handleable`, `Refinement`, `Queries`.

* It begins with finite sums. `MapThenSumSet` is a recursive function over the
  subsets of a set, and the library's induction theorems take operators the
  provers cannot instantiate. `SubsetInduction` states the induction with a set
  of good subsets instead, and is proved from the least size of a bad one. With
  it the function exists (`IterExists`), is unique (`IterUnique`) and sums in any
  order (`IterAdds`). `CartDemand` and `DemandAdds` are what the rest uses.
* `TypeOK` is inductive by itself, given that the demand of a cart is a natural
  number: `CanAdjust` and `CanReserve` keep both columns in range.
* `NeverOversold` is inductive relative to `TypeOK`.
* `ProcessedMatchesStatus`, `LogMatchesTables` and `NoEventTwice` need one
  another, and are proved as the one invariant `FlowInv`: that an order is
  `created` when its `OrderCreated` event is unprocessed needs the first, that
  the log then has no `InventoryReserved` of it the second, that the new event
  is the only one of its kind the second again.
* `Refinement` maps each step to a step of `Fulfilment`: `CreateOrder` to
  `Place`, `AdjustInventory` to `Supply`, `ReserveInventory` to `Reserve` or
  `Reject`, `CreateShipment` to `Ship`. `FlowInv` excludes the branches in which
  a status is marked a second time. A rejection must not fit: the shortage of a
  line exceeds the demand of its SKU by `CartDemand`.
* `Balance` is inductive with the finiteness of the set of orders that hold
  stock: only a reservation changes that set or a reserved column, for an order
  `FlowInv` says is undecided, and it adds the same demand to both.
* `Handleable`: `HandlersCanSucceed` needs no induction of its own. `FlowInv` puts
  the order of an undone event into the one status its handler accepts. If no
  line is short and no SKU is repeated, a line is the whole demand of its SKU, so
  `reserve()` accepts what the comparison let through.
* `Queries`: `OrderDetailsFit` is derived from the promise and not from the
  tables. `StillFits` relates the answer to the status that was read, and every
  step of `Fulfilment` keeps it: statuses only advance, and a rejected order is
  never shipped. `LogMatchesTables` gives the shipment rows.

`OutboxRelayProofs`, for any number of relays, batch size and number of faults:

* `Locking`: `RelayInv` is inductive. Rows in a batch are committed, unpublished
  and locked by one relay; a relay that is not in a transaction holds none.
* `NothingLost`: `PublishedIsSent`, relative to `RelayInv`. A row is marked only
  by the commit of a relay whose `unsent` is empty, and the batch was sent before.
* `CopiesBounded`: `CopiesNeedFaults`. The bound alone is not inductive:
  `CopiesInv` adds that a row has a copy for each fault at most, and one more
  only while it is accounted for, by its mark or by the transaction that has
  just sent it. A fault takes that transaction's account away and adds one to
  the bound.

`StreamConsumerProofs`, for any events, batch size, limit and number of faults:

* `WorkSound`: `WorkInv`, the first part of `ConsumerInv`, is inductive. Its part
  `WorkInHand` says that what the worker has in hand is pending, or was taken off
  by an XACK whose reply was lost; and what each call may rely on: before the XACK the event is processed
  or ignored, before the insert it has failed `MaxFailures` times, before the
  second XACK it is among the dead letters.
* `NoWorkSkipped`: `AckedIsSettled`, the second part; the whole is `LoopSound`.
  What is settled stays settled, and a message leaves the pending list only in an
  XACK whose event `WorkInHand` says is settled.
* `DeadLettersEarned`: `DeadLettersNeedFaults`, since an event that can succeed
  has no more failures than there were faults.
* `NothingHidden`: `PendingFitsOneRead`. New messages are read only when nothing
  is pending, and a read of an interval of the stream returns at most `Count`.
* `LettersAccounted`: `DeadLettersBounded`. The bound alone is not inductive.
  `Account` sets the acknowledged copies of an event and the faults against its
  dead letters, with one in advance while the message in hand is about to be
  acknowledged, and one in reserve when that message has already left the
  pending list through an XACK that raised.
* `LoopIsGroup`: `StreamConsumer` implements `ConsumerGroup`. A copy counts as long
  as its message is not acknowledged, delivered or not; a letter counts from the
  attempt to acknowledge its message, so that insert and XACK become one step.
  `WorkInHand` gives each XACK its done event or its letter. An XACK that was
  carried out and raised leaves a done event that may still get a letter, which
  is why the promise allows that. Redis stays up here (`redis <- TRUE`), so that
  no copy can leave as lost data would.

`IdempotentOrdersProofs`:

* `Apartness`: `OrdersInv` is inductive. A request in flight under a key excludes
  another that has inserted it, and order ids are fresh.
* `OneOrder`: `OneOrderPerKey` with the finiteness of the set of orders, which
  the counting of `order_created` events needs; only a commit changes the
  tables, and what it adds is new by `OrdersInv`.
* `Answers`: `AnswersAgree`. A recorded key keeps its order and payload, so an
  answer that was true stays true; a new answer repeats what was just read.
* `Atomicity`: the commit is `CreateOrder` of `OrderFlow` for the lines in hand,
  every other statement a stutter.

`ReserveTransactionProofs`:

* `Isolation`: `IsolationInv` is inductive. Its parts need one another: rows of
  two sessions are disjoint by the lock, what was seen is unchanged because only
  the session that holds a row writes it, and the claim keeps the order undecided.
* `UseCases`: `TxnSpec` implements `OrderFlow!Spec`. With `IsolationInv` the rows
  in memory are those of the table, so a commit writes what the atomic use case
  would; a missing row reads as the new item OrderFlow takes it for.
* `Deadlocks`: an adjustment that waits has no row yet, so nobody waits for it.
  Of reservations whose lines follow one order of the SKUs, the one that wants
  the last SKU waits for nobody, as whoever has that row has read all before it.
* `PromiseUnderLocks`: with `UseCases` and `Refinement`, the statements keep the
  promise of `Fulfilment`.

`PipelineProofs`:

* `GroupsAgree`: `DeliveryInv` is inductive.
* `Database`: each step of the pipeline is a step of `OrderFlow` or leaves the
  tables alone.
* `Stranded`: `NothingStranded` from both, one case for each place the work of a
  worker can leave: sent from the outbox, acknowledged, given up, redriven,
  lost, replayed.
* `Groups`: each step is, for each group, a step of `ConsumerGroup` or a stutter;
  `Database` says that what is settled stays settled. The attempt to prove this
  is what showed that `GiveUp` has to cover `AckedUnseen`.
* `PromiseEndToEnd`, `StockEndToEnd`: the results about `OrderFlow` carried over
  to the whole pipeline.

`OrderSummaryProofs`:

* `RowAlone`: `SummaryInv` is inductive: one session has the row, and a
  projection that has it holds the committed counters.
* `Explained`: `SummaryExplained`. Lemmas about `Tally` say that a new event
  leaves it alone and that projecting one adds one to its counter; with
  `RowAlone` the increment is applied to the committed row, and a rebuild moves
  the difference into `drift`.
* `SummaryIsReadModel`: a commit is one step of `ReadModel`. A rebuild waits for
  the row with counts that grow old, so the invariant `CountsLog` is needed: what
  it holds is the tally of a prefix of the log. Events are only appended, which
  leaves the tally of a prefix alone.

`SchemaStartProofs`:

* `WholeSchema`: `SchemaInv` is inductive: the schema is empty or complete.
* `OneLoser`: `AtMostOneStartFails`. A start fails only if it looked the tables
  up before the first commit and creates them after it, and the lock lets one
  session at a time be there.

Only model-checked: all liveness (the properties named `Every...`
and `OrderDecidedDespiteLocks`), since fairness is beyond this prover. Every safety
property of every run is proved.

## Observations that are not counterexamples

* Start-up: since the advisory lock is released before the commit, one service
  may fail to start on an empty database (`relation already exists`). At most one
  does, and nothing starts it again but an operator.
* Redis without a volume: rows stay marked `published` though the stream they
  were sent to is gone. Nothing is stranded, in that replay brings each such
  event back, but replay is a manual request for one event at a time.
* A rebuild may also lose an increment: it counts the log, an event is then
  appended and projected, and the rebuild commits its older count over it. The
  counter stays too low until the next rebuild. `ReadModel` allows both, by letting
  a rebuild put in the count of any prefix of the log.
* Two reservations whose carts name two SKUs in opposite order deadlock. With one
  inventory worker, as deployed, it takes a restarted worker whose predecessor is
  not rolled back yet.

## Not modelled

* `GET /inventory/{sku}` is one SELECT. `GET` of the summary inserts a row and
  rolls it back.
* `init_database` for databases other than PostgreSQL, which only tests use.
* Configuration, serialisation, the UI, the Toxiproxy client, DTOs, Protocols and
  logging hold no state the rest depends on. `StoredEvent`s survive the stream
  unchanged; the modules name them. Timestamps and `publish_attempts` are written
  and never read.
* A Redis that loses a part of its data. It loses all or nothing here.

## Plan

Done: `OrderFlow` first, being what all the rest serves; then the two delivery
modules; then those that open up transactions `OrderFlow` takes as atomic
(`IdempotentOrders`, `OrderSummary`, `ReserveTransaction`); then the composition
(`Pipeline`) and the start (`SchemaStart`); and for each the proof of its safety.

Left: a `Pipeline` with several orders, which is too large for TLC with liveness;
and a proof that `OutboxRelay` implements the `Publish` of `Pipeline`, which needs
a prophecy of the commit at the time of the XADD.
