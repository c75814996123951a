----------------------------- MODULE Pipeline -----------------------------
(***************************************************************************)
(* The system from POST /orders to the shipment: the use cases of          *)
(* OrderFlow, the outbox relay, the Redis stream with its consumer groups, *)
(* the inventory and shipping workers as processes, the dead letters and   *)
(* the two admin endpoints that send an event again.  OutboxRelay and      *)
(* StreamConsumer look inside the relay and the worker loop; here each of  *)
(* their passes is cut to the one event it is about.                       *)
(*                                                                         *)
(* Redis keeps no volume in docker-compose.yml, so a restart may lose the  *)
(* stream with its groups.  A message is named by its event: XADD gives    *)
(* each copy its own id, and what matters is how many copies there are.    *)
(* A message its handler ignores (HandlerResult(handled=False)) is acked   *)
(* without any effect and is left out of the counts.  A message in the     *)
(* hands of a worker when Redis loses the stream counts as not begun.      *)
(***************************************************************************)
EXTENDS OrderFlow

CONSTANTS
  MaxDeadLetters,  \* bound: how many rows dead_letter_events gets
  MaxLosses,       \* bound: how often Redis stops, with or without its data
  MaxSpares        \* bound: sends that no bookkeeping asks for (below)

ASSUME PipelineAssumption ==
  MaxDeadLetters \in Nat /\ MaxLosses \in Nat /\ MaxSpares \in Nat

VARIABLES
  published,     \* the events whose published_at is set
  stream,        \* how many copies of each event the stream holds
  groups,        \* the consumer groups the stream has
  unacked,       \* per group and event, the copies not acked yet
  dead_letters,  \* dead_letter_events in order of id
  running,       \* the workers that run
  redis,         \* whether Redis answers
  losses,        \* how often Redis has stopped
  spares,        \* how many superfluous sends there were
  lost           \* history: the work that was only in a stream Redis lost

delivery == <<published, stream, groups, unacked, dead_letters,
              running, redis, losses, spares, lost>>

pipeVars == <<vars, delivery>>

Events == 1..EventBound

DeadLetter ==
  [consumer_name : Consumers, event : Events, redriven : BOOLEAN]

PipeTypeOK ==
  /\ TypeOK
  /\ published \subseteq DOMAIN event_log \cap Events
  /\ stream \in [Events -> Nat]
  /\ groups \subseteq Consumers
  /\ unacked \in [Consumers -> [Events -> Nat]]
  /\ dead_letters \in Seq(DeadLetter)
  /\ running \subseteq Consumers
  /\ redis \in BOOLEAN
  /\ losses \in 0..MaxLosses
  /\ spares \in 0..MaxSpares
  /\ lost \subseteq Consumers \X Events

Empty == [e \in Events |-> 0]

\* The events whose handler in group g does something.
Concerns(g, e) ==
  /\ e \in DOMAIN event_log
  /\ event_log[e].event_type =
       IF g = "inventory-worker" THEN "OrderCreated" ELSE "InventoryReserved"

Settled(g, e) == <<g, e>> \in processed

-----------------------------------------------------------------------------
PipeInit ==
  /\ Init
  /\ published = {}
  /\ stream = Empty
  /\ groups = {}
  /\ unacked = [g \in Consumers |-> Empty]
  /\ dead_letters = <<>>
  /\ running = {}
  /\ redis = TRUE
  /\ losses = 0
  /\ spares = 0
  /\ lost = {}

\* POST /orders and POST /inventory/adjustments need no Redis.
Client ==
  /\ \/ \E k \in Keys, o \in Orders, cart \in Carts : CreateOrder(k, o, cart)
     \/ \E s \in Skus, delta \in Deltas : AdjustInventory(s, delta)
  /\ UNCHANGED delivery

\* RedisStreamPublisher.publish: XADD, which every group that exists will
\* read.  A group it matters to is no longer waiting for lost work.
Send(e) ==
  /\ redis
  /\ stream' = [stream EXCEPT ![e] = @ + 1]
  /\ unacked' = [g \in Consumers |->
                   [unacked[g] EXCEPT ![e] = @ + (IF g \in groups /\ Concerns(g, e) THEN 1 ELSE 0)]]
  /\ lost' = { m \in lost : m[2] # e }

\* Mutant: the row is marked whether or not the send succeeds.
MarkWithoutSend(e) ==
  /\ e \in DOMAIN event_log \ published
  /\ published' = published \cup {e}
  /\ UNCHANGED <<vars, stream, unacked, lost, groups, dead_letters, running, redis, losses, spares>>

\* OutboxRelay.run_once for one row: sent, marked and committed.
Publish(e) ==
  /\ e \in DOMAIN event_log \ published
  /\ Send(e)
  /\ published' = published \cup {e}
  /\ UNCHANGED <<vars, groups, dead_letters, running, redis, losses, spares>>

\* A send whose bookkeeping is not committed (the relay's or the redrive's
\* transaction fails after it), or that none was due for: a replay of an
\* event that is not lost, a redrive of a letter redriven before.
SpareSend(e) ==
  /\ e \in DOMAIN event_log
  /\ spares < MaxSpares
  /\ spares' = spares + 1
  /\ Send(e)
  /\ UNCHANGED <<vars, published, groups, dead_letters, running, redis, losses>>

\* POST /admin/events/{event_id}/replay for an event Redis has lost.
Replay(e) ==
  /\ e \in DOMAIN event_log
  /\ \E g \in Consumers : <<g, e>> \in lost
  /\ Send(e)
  /\ UNCHANGED <<vars, published, groups, dead_letters, running, redis, losses, spares>>

\* POST /admin/dlq/{dead_letter_id}/redrive: sent, then marked.
Redrive(i) ==
  /\ ~dead_letters[i].redriven
  /\ Send(dead_letters[i].event)
  /\ dead_letters' = [dead_letters EXCEPT ![i].redriven = TRUE]
  /\ UNCHANGED <<vars, published, groups, running, redis, losses, spares>>

-----------------------------------------------------------------------------
\* Mutant: xgroup_create with id="$": the group starts at the end.
GroupFromEnd(g) == Empty

\* ensure_group creates a group at id 0: it will read all the stream holds.
GroupFromStart(g) == [e \in Events |-> IF Concerns(g, e) THEN stream[e] ELSE 0]

\* A worker process is started.  Its first ensure_group is outside the try of
\* run_forever: with Redis down the process ends at once.
StartWorker(g) ==
  /\ g \notin running
  /\ redis
  /\ running' = running \cup {g}
  /\ UNCHANGED <<vars, published, stream, groups, unacked, dead_letters, redis, losses, spares, lost>>

\* ensure_group, which comes before every read.
EnsureGroup(g) ==
  /\ g \in running \ groups
  /\ redis
  /\ groups' = groups \cup {g}
  /\ unacked' = [unacked EXCEPT ![g] = GroupFromStart(g)]
  /\ UNCHANGED <<vars, published, stream, dead_letters, running, redis, losses, spares, lost>>

\* A worker ends, by a crash or because dead_letter_handler raises.
StopWorker(g) ==
  /\ g \in running
  /\ running' = running \ {g}
  /\ UNCHANGED <<vars, published, stream, groups, unacked, dead_letters, redis, losses, spares, lost>>

\* Mutant: XREAD by position, which serves what the group has acked again.
ReadsAcked(g, e) == g \in running \cap groups /\ stream[e] > 0 /\ Concerns(g, e)

\* XREADGROUP has served the message, or serves it now.
Has(g, e) == g \in running /\ unacked[g][e] > 0

Ack(g, e) == redis /\ unacked' = [unacked EXCEPT ![g][e] = @ - 1]

Work(g, e) == IF g = "inventory-worker" THEN ReserveInventory(e) ELSE CreateShipment(e)

\* The handler commits its work or finds it done, and the message is acked.
Handle(g, e) ==
  /\ Has(g, e)
  /\ IF Settled(g, e) THEN UNCHANGED vars ELSE Work(g, e)
  /\ Ack(g, e)
  /\ UNCHANGED <<published, stream, groups, dead_letters, running, redis, losses, spares, lost>>

\* The handler commits and the ack does not arrive: a crash, or no Redis.
HandleWithoutAck(g, e) ==
  /\ Has(g, e)
  /\ ~Settled(g, e)
  /\ Work(g, e)
  /\ UNCHANGED delivery

NewDeadLetter(g, e) ==
  dead_letters' = Append(dead_letters, [consumer_name |-> g, event |-> e, redriven |-> FALSE])

\* An XACK raised although Redis carried it out: the event of this message is
\* done, its copy acked, and yet the worker counts a failure.
AckedUnseen(g, e) == g \in running /\ Concerns(g, e) /\ Settled(g, e)

\* Mutant: acked first, and the process ends before the row is there.
AckedWithoutLetter(g, e) ==
  /\ Has(g, e)
  /\ Ack(g, e)
  /\ UNCHANGED <<vars, published, stream, groups, dead_letters, running, redis, losses, spares, lost>>

\* The message failed max_failures times: a row of dead_letter_events, then
\* the ack.  Without the ack the message is tried again later.
GiveUp(g, e) ==
  /\ Len(dead_letters) < MaxDeadLetters
  /\ NewDeadLetter(g, e)
  /\ \/ Has(g, e) /\ Ack(g, e)
     \/ (Has(g, e) \/ AckedUnseen(g, e)) /\ UNCHANGED unacked
  /\ UNCHANGED <<vars, published, stream, groups, running, redis, losses, spares, lost>>

-----------------------------------------------------------------------------
OnlyInStream(g, e) ==
  /\ Concerns(g, e) /\ e \in published /\ ~Settled(g, e)
  /\ IF g \in groups THEN unacked[g][e] > 0 ELSE stream[e] > 0

\* Redis stops.  Its data survive or are lost, as a whole.
StopRedis ==
  /\ redis
  /\ losses < MaxLosses
  /\ losses' = losses + 1
  /\ redis' = FALSE
  /\ \/ UNCHANGED <<stream, groups, unacked, lost>>
     \/ /\ stream' = Empty
        /\ groups' = {}
        /\ unacked' = [g \in Consumers |-> Empty]
        /\ lost' = lost \cup { m \in Consumers \X Events : OnlyInStream(m[1], m[2]) }
  /\ UNCHANGED <<vars, published, dead_letters, running, spares>>

StartRedis ==
  /\ ~redis
  /\ redis' = TRUE
  /\ UNCHANGED <<vars, published, stream, groups, unacked, dead_letters, running, losses, spares, lost>>

PipeNext ==
  \/ Client
  \/ \E e \in Events : Publish(e) \/ SpareSend(e) \/ Replay(e)
  \/ \E i \in DOMAIN dead_letters : Redrive(i)
  \/ \E g \in Consumers : StartWorker(g) \/ EnsureGroup(g) \/ StopWorker(g)
  \/ \E g \in Consumers, e \in Events :
       Handle(g, e) \/ HandleWithoutAck(g, e) \/ GiveUp(g, e)
  \/ StopRedis
  \/ StartRedis

PipeSpec == PipeInit /\ [][PipeNext]_pipeVars

-----------------------------------------------------------------------------
\* The consumer groups and the stream agree: a group has no more to ack than
\* the stream holds, nothing before it exists and nothing it ignores; what is
\* published, dead-lettered or lost is an event of the log.
DeliveryInv ==
  /\ PipeTypeOK
  /\ \A g \in Consumers, e \in Events :
       /\ unacked[g][e] <= stream[e]
       /\ unacked[g][e] > 0 => g \in groups /\ Concerns(g, e)
       /\ <<g, e>> \in lost => Concerns(g, e)
  /\ \A e \in Events : stream[e] > 0 => e \in DOMAIN event_log
  /\ \A i \in DOMAIN dead_letters : Concerns(dead_letters[i].consumer_name, dead_letters[i].event)

\* Where the work that event e means for group g is, until it is done.
AwaitsRelay(e) == e \notin published

InStream(g, e) == IF g \in groups THEN unacked[g][e] > 0 ELSE stream[e] > 0

InDeadLetters(g, e) ==
  \E i \in DOMAIN dead_letters :
    dead_letters[i] = [consumer_name |-> g, event |-> e, redriven |-> FALSE]

\* No step loses work: an event a worker has not done is in the outbox, in
\* the stream, in the dead letters, or was lost with the stream.
NothingStranded ==
  \A g \in Consumers, e \in DOMAIN event_log :
    Concerns(g, e) =>
      \/ Settled(g, e)
      \/ AwaitsRelay(e)
      \/ InStream(g, e)
      \/ InDeadLetters(g, e)
      \/ <<g, e>> \in lost

\* The promise of ConsumerGroup, for each of the two groups.
Done(g) == { e \in Events : Settled(g, e) }

LetterCount(g) ==
  [e \in Events |-> Cardinality({ i \in DOMAIN dead_letters :
     dead_letters[i].consumer_name = g /\ dead_letters[i].event = e })]

Inventory == INSTANCE ConsumerGroup WITH
  unacked <- unacked["inventory-worker"],
  done <- Done("inventory-worker"),
  letters <- LetterCount("inventory-worker")

Shipping == INSTANCE ConsumerGroup WITH
  unacked <- unacked["shipping-worker"],
  done <- Done("shipping-worker"),
  letters <- LetterCount("shipping-worker")

\* Each worker, with everything around it, is to the outside what the loop of
\* StreamConsumer was shown to be: a copy leaves its group only by work that
\* is committed, by a letter of its own, or with the data of Redis.
ImplementsGroups == Inventory!Spec /\ Shipping!Spec

-----------------------------------------------------------------------------
(***************************************************************************)
(* Liveness.  The relay and the workers loop for ever, and a message that  *)
(* is pending is read again.  Nothing restarts a service on its own, so    *)
(* the operator owes the rest: ended workers and Redis are started again,  *)
(* dead letters are redriven and lost events replayed.  A worker may crash *)
(* any number of times, which makes handling a matter of strong fairness.  *)
(***************************************************************************)
Operator ==
  /\ WF_pipeVars(StartRedis)
  /\ \A g \in Consumers : WF_pipeVars(StartWorker(g))
  /\ WF_pipeVars(\E i \in DOMAIN dead_letters : Redrive(i))
  /\ WF_pipeVars(\E e \in Events : Replay(e))

FairPipeSpec ==
  /\ PipeSpec
  /\ WF_pipeVars(\E e \in Events : Publish(e))
  /\ \A g \in Consumers : SF_pipeVars(EnsureGroup(g))
  /\ \A g \in Consumers : SF_pipeVars(\E e \in Events : Handle(g, e))
  /\ Operator

\* Whatever crashes, outages, losses and dead letters come in between, and
\* however often events are sent, an order whose lines name distinct SKUs is
\* in the end rejected or shipped.
EveryOrderCompletes ==
  \A o \in Orders :
    (status[o] = "created" /\ ~RepeatsSku(items[o])) ~>
      status[o] \in {"inventory_rejected", "shipment_created"}
=============================================================================
