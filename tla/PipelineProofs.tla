-------------------------- MODULE PipelineProofs --------------------------
(***************************************************************************)
(* Proofs about Pipeline: the database it drives is that of OrderFlow, the *)
(* groups agree with the stream, and no work is stranded.                  *)
(***************************************************************************)
EXTENDS Pipeline, OrderFlowProofs

\* What the log holds, it holds for good.
LEMMA LogGrows ==
  ASSUME TypeOK, [Next]_vars
  PROVE  \A e \in DOMAIN event_log :
           e \in DOMAIN event_log' /\ event_log'[e] = event_log[e]
  <1>1. ASSUME NEW k, NEW x, event_log' = Append(event_log, [event_type |-> k, key |-> x])
        PROVE  \A e \in DOMAIN event_log :
                 e \in DOMAIN event_log' /\ event_log'[e] = event_log[e]
    <2> DEFINE new == [event_type |-> k, key |-> x]
    <2>1. event_log \in Seq(DomainEvent \cup {new}) /\ new \in DomainEvent \cup {new}
      BY DEF TypeOK
    <2>2. event_log' = Append(event_log, new)
      BY <1>1
    <2> HIDE DEF new
    <2> QED
      BY <2>1, <2>2
  <1>2. \/ event_log' = event_log
        \/ \E k, x : event_log' = Append(event_log, [event_type |-> k, key |-> x])
    <2>1. CASE UNCHANGED vars
      BY <2>1 DEF vars
    <2>2. CASE \E k \in Keys, o \in Orders, cart \in Carts : CreateOrder(k, o, cart)
      BY <2>2 DEF CreateOrder, Emit
    <2>3. CASE \E s \in Skus, delta \in Deltas : AdjustInventory(s, delta)
      BY <2>3 DEF AdjustInventory, Emit
    <2>4. CASE \E e \in DOMAIN event_log : ReserveInventory(e) \/ CreateShipment(e)
      <3>1. PICK e \in DOMAIN event_log : ReserveInventory(e) \/ CreateShipment(e)
        BY <2>4
      <3>2. CASE ReserveInventory(e)
        BY <3>2 DEF ReserveInventory, RejectLines, ReserveLines, Emit
      <3>3. CASE CreateShipment(e)
        BY <3>3 DEF CreateShipment, Emit
      <3> QED
        BY <3>1, <3>2, <3>3
    <2> QED
      BY <2>1, <2>2, <2>3, <2>4 DEF Next
  <1> QED
    BY <1>1, <1>2

\* An event that concerns a group goes on to do so.
LEMMA ConcernsLasts ==
  ASSUME TypeOK, [Next]_vars
  PROVE  \A g \in Consumers, e \in Events : Concerns(g, e) => Concerns(g, e)'
  BY LogGrows DEF Concerns

-----------------------------------------------------------------------------
\* Every step of the pipeline is a step of the database, or leaves it alone.
LEMMA DatabaseStep ==
  ASSUME DeliveryInv, [PipeNext]_pipeVars
  PROVE  [Next]_vars
  <1>1. CASE Client
    BY <1>1 DEF Client, Next
  <1>2. ASSUME NEW g \in Consumers, NEW e \in Events,
               Handle(g, e) \/ HandleWithoutAck(g, e)
        PROVE  [Next]_vars
    <2>1. Work(g, e) \/ UNCHANGED vars
      BY <1>2 DEF Handle, HandleWithoutAck
    <2>2. Concerns(g, e)
      BY <1>2 DEF Handle, HandleWithoutAck, Has, DeliveryInv
    <2> QED
      BY <2>1, <2>2 DEF Work, Concerns, Next
  <1>3. CASE \E e \in Events : Publish(e) \/ SpareSend(e) \/ Replay(e)
    BY <1>3 DEF Publish, SpareSend, Replay
  <1>4. CASE \E i \in DOMAIN dead_letters : Redrive(i)
    BY <1>4 DEF Redrive
  <1>5. CASE \E g \in Consumers : StartWorker(g) \/ EnsureGroup(g) \/ StopWorker(g)
    BY <1>5 DEF StartWorker, EnsureGroup, StopWorker
  <1>6. CASE \E g \in Consumers, e \in Events : GiveUp(g, e)
    BY <1>6 DEF GiveUp
  <1>7. CASE StopRedis \/ StartRedis
    BY <1>7 DEF StopRedis, StartRedis
  <1>8. CASE UNCHANGED pipeVars
    BY <1>8 DEF pipeVars
  <1> QED
    BY <1>1, <1>2, <1>3, <1>4, <1>5, <1>6, <1>7, <1>8 DEF PipeNext

\* The rows of dead_letter_events.
LEMMA Letters ==
  ASSUME PipeTypeOK
  PROVE  \A i \in DOMAIN dead_letters :
           /\ dead_letters[i] \in DeadLetter
           /\ dead_letters[i].consumer_name \in Consumers
           /\ dead_letters[i].event \in Events
  <1>1. dead_letters \in Seq(DeadLetter)
    BY DEF PipeTypeOK
  <1>2. \A i \in DOMAIN dead_letters : dead_letters[i] \in DeadLetter
    BY <1>1
  <1> QED
    BY <1>2 DEF DeadLetter

-----------------------------------------------------------------------------
(***************************************************************************)
(* DeliveryInv is inductive.  A step that leaves the database alone leaves *)
(* Concerns alone; Send adds one copy to the stream and at most one to a   *)
(* group; the other steps only take copies away.                           *)
(***************************************************************************)
\* A step of the database that delivers nothing.
LEMMA ClientDelivers ==
  ASSUME DeliveryInv, [Next]_vars, UNCHANGED delivery
  PROVE  DeliveryInv'
  <1>1. TypeOK'
    BY TypeStep DEF DeliveryInv, PipeTypeOK
  <1>2. DOMAIN event_log \subseteq DOMAIN event_log'
    BY LogGrows DEF DeliveryInv, PipeTypeOK
  <1>3. \A g \in Consumers, e \in Events : Concerns(g, e) => Concerns(g, e)'
    BY ConcernsLasts DEF DeliveryInv, PipeTypeOK
  <1>4. PipeTypeOK'
    BY <1>1, <1>2 DEF DeliveryInv, PipeTypeOK, delivery
  <1>5. \A i \in DOMAIN dead_letters :
          dead_letters[i].consumer_name \in Consumers /\ dead_letters[i].event \in Events
    BY Letters DEF DeliveryInv
  <1> QED
    BY <1>2, <1>3, <1>4, <1>5 DEF DeliveryInv, delivery

\* A send of an event of the log.
LEMMA SendDelivers ==
  ASSUME DeliveryInv, NEW e \in Events, e \in DOMAIN event_log, Send(e),
         UNCHANGED <<vars, groups>>
  PROVE  /\ stream' \in [Events -> Nat]
         /\ unacked' \in [Consumers -> [Events -> Nat]]
         /\ lost' \subseteq lost
         /\ \A g \in Consumers, d \in Events :
              /\ unacked'[g][d] <= stream'[d]
              /\ unacked'[g][d] > 0 => g \in groups' /\ Concerns(g, d)'
         /\ \A d \in Events : stream'[d] > 0 => d \in DOMAIN event_log'
  <1> DEFINE copies(g) == IF g \in groups /\ Concerns(g, e) THEN 1 ELSE 0
  <1>1. stream' = [stream EXCEPT ![e] = @ + 1]
    BY DEF Send
  <1>2. \A g \in Consumers : unacked'[g] = [unacked[g] EXCEPT ![e] = @ + copies(g)]
    BY DEF Send
  <1>0. \A g \in Consumers :
          copies(g) \in {0, 1} /\ (copies(g) = 1 => g \in groups /\ Concerns(g, e))
    OBVIOUS
  <1> HIDE DEF copies
  <1>3. /\ stream \in [Events -> Nat]
        /\ unacked \in [Consumers -> [Events -> Nat]]
    BY DEF DeliveryInv, PipeTypeOK
  <1>4. stream' \in [Events -> Nat]
    BY <1>1, <1>3
  <1>5. ASSUME NEW g \in Consumers
        PROVE  /\ unacked'[g] \in [Events -> Nat]
               /\ unacked'[g][e] = unacked[g][e] + copies(g)
               /\ \A d \in Events \ {e} : unacked'[g][d] = unacked[g][d]
    <2>1. copies(g) \in Nat /\ unacked[g] \in [Events -> Nat]
      BY <1>0, <1>3
    <2>2. unacked'[g] = [unacked[g] EXCEPT ![e] = @ + copies(g)]
      BY <1>2
    <2> QED
      BY <2>1, <2>2
  <1>6. unacked' \in [Consumers -> [Events -> Nat]]
    BY <1>5 DEF Send
  <1>7. \A g \in Consumers, d \in Events : Concerns(g, d)' <=> Concerns(g, d)
    BY DEF Concerns, vars
  <1>8. ASSUME NEW g \in Consumers, NEW d \in Events
        PROVE  /\ unacked'[g][d] <= stream'[d]
               /\ unacked'[g][d] > 0 => g \in groups' /\ Concerns(g, d)'
    <2>1. /\ unacked[g][d] <= stream[d]
          /\ unacked[g][d] > 0 => g \in groups /\ Concerns(g, d)
          /\ unacked[g][d] \in Nat /\ stream[d] \in Nat
      BY <1>3 DEF DeliveryInv
    <2>2. CASE d = e
      BY <1>0, <1>1, <1>3, <1>5, <1>7, <2>1, <2>2 DEF Send
    <2>3. CASE d # e
      BY <1>1, <1>3, <1>5, <1>7, <2>1, <2>3
    <2> QED
      BY <2>2, <2>3
  <1>9. \A d \in Events : stream'[d] > 0 => d \in DOMAIN event_log'
    BY <1>1, <1>3 DEF DeliveryInv, vars
  <1> QED
    BY <1>4, <1>6, <1>8, <1>9 DEF Send

\* The relay, a spare send, a replay and a redrive.
LEMMA SendersDeliver ==
  ASSUME DeliveryInv,
         \/ \E e \in Events : Publish(e) \/ SpareSend(e) \/ Replay(e)
         \/ \E i \in DOMAIN dead_letters : Redrive(i)
  PROVE  DeliveryInv'
  <1>1. ASSUME NEW e \in Events, e \in DOMAIN event_log, Send(e),
               UNCHANGED <<vars, groups, running, redis, losses>>,
               published' \subseteq DOMAIN event_log \cap Events,
               spares' \in 0..MaxSpares,
               dead_letters' \in Seq(DeadLetter),
               \A i \in DOMAIN dead_letters' :
                 Concerns(dead_letters'[i].consumer_name, dead_letters'[i].event)
        PROVE  DeliveryInv'
    <2>1. /\ stream' \in [Events -> Nat]
          /\ unacked' \in [Consumers -> [Events -> Nat]]
          /\ lost' \subseteq lost
          /\ \A g \in Consumers, d \in Events :
               /\ unacked'[g][d] <= stream'[d]
               /\ unacked'[g][d] > 0 => g \in groups' /\ Concerns(g, d)'
          /\ \A d \in Events : stream'[d] > 0 => d \in DOMAIN event_log'
      BY <1>1, SendDelivers
    <2>2. TypeOK'
      BY <1>1 DEF DeliveryInv, PipeTypeOK, TypeOK, vars
    <2>3. PipeTypeOK'
      BY <1>1, <2>1, <2>2 DEF DeliveryInv, PipeTypeOK, vars
    <2>4. \A g, d : Concerns(g, d)' <=> Concerns(g, d)
      BY <1>1 DEF Concerns, vars
    <2> QED
      BY <1>1, <2>1, <2>3, <2>4 DEF DeliveryInv
  <1>2. ASSUME NEW e \in Events, Publish(e) \/ SpareSend(e) \/ Replay(e)
        PROVE  DeliveryInv'
    <2>1. /\ e \in DOMAIN event_log
          /\ Send(e)
          /\ UNCHANGED <<vars, groups, running, redis, losses, dead_letters>>
          /\ published' \subseteq DOMAIN event_log \cap Events
          /\ spares' \in 0..MaxSpares
      BY <1>2, PipelineAssumption
      DEF DeliveryInv, PipeTypeOK, Publish, SpareSend, Replay
    <2> QED
      BY <1>1, <2>1 DEF DeliveryInv, PipeTypeOK
  <1>3. ASSUME NEW i \in DOMAIN dead_letters, Redrive(i)
        PROVE  DeliveryInv'
    <2> DEFINE e == dead_letters[i].event
               g == dead_letters[i].consumer_name
    <2>1. dead_letters \in Seq(DeadLetter)
      BY DEF DeliveryInv, PipeTypeOK
    <2>2. /\ dead_letters[i] \in DeadLetter
          /\ g \in Consumers /\ e \in Events
      BY Letters DEF DeliveryInv
    <2>3. Concerns(g, e) /\ e \in DOMAIN event_log
      BY DEF DeliveryInv, Concerns
    <2>4. dead_letters' = [dead_letters EXCEPT ![i].redriven = TRUE]
      BY <1>3 DEF Redrive
    <2>5. dead_letters' = [dead_letters EXCEPT ![i] = [dead_letters[i] EXCEPT !.redriven = TRUE]]
      BY <2>4
    <2>6. /\ [dead_letters[i] EXCEPT !.redriven = TRUE] \in DeadLetter
          /\ [dead_letters[i] EXCEPT !.redriven = TRUE].event = e
          /\ [dead_letters[i] EXCEPT !.redriven = TRUE].consumer_name = g
      BY <2>2 DEF DeadLetter
    <2>7. dead_letters' \in Seq(DeadLetter)
      BY <2>1, <2>5, <2>6
    <2>8. \A j \in DOMAIN dead_letters' :
            Concerns(dead_letters'[j].consumer_name, dead_letters'[j].event)
      BY <2>1, <2>3, <2>5, <2>6 DEF DeliveryInv
    <2>9. /\ Send(e)
          /\ UNCHANGED <<vars, published, groups, running, redis, losses, spares>>
      BY <1>3 DEF Redrive
    <2> QED
      BY <1>1, <2>2, <2>3, <2>7, <2>8, <2>9 DEF DeliveryInv, PipeTypeOK
  <1> QED
    BY <1>2, <1>3

\* An ack takes one copy from one group.
LEMMA AckTakes ==
  ASSUME PipeTypeOK, NEW g \in Consumers, NEW e \in Events, Has(g, e), Ack(g, e)
  PROVE  /\ unacked' \in [Consumers -> [Events -> Nat]]
         /\ \A h \in Consumers, d \in Events :
              /\ unacked'[h][d] <= unacked[h][d]
              /\ <<h, d>> # <<g, e>> => unacked'[h][d] = unacked[h][d]
  <1>1. unacked \in [Consumers -> [Events -> Nat]] /\ unacked[g][e] \in Nat
    BY DEF PipeTypeOK
  <1>2. unacked[g][e] - 1 \in Nat
    BY <1>1 DEF Has
  <1>3. unacked' = [unacked EXCEPT ![g] = [unacked[g] EXCEPT ![e] = unacked[g][e] - 1]]
    BY DEF Ack
  <1> QED
    BY <1>1, <1>2, <1>3

\* A worker's step: the database may move, and copies are only taken away.
LEMMA WorkersDeliver ==
  ASSUME DeliveryInv, NEW g \in Consumers, NEW e \in Events,
         Handle(g, e) \/ HandleWithoutAck(g, e) \/ GiveUp(g, e)
  PROVE  DeliveryInv'
  <1>1. [Next]_vars
    <2>1. PipeNext
      BY DEF PipeNext
    <2> QED
      BY <2>1, DatabaseStep
  <1>2. CASE HandleWithoutAck(g, e)
    BY <1>1, <1>2, ClientDelivers DEF HandleWithoutAck
  <1>3. TypeOK' /\ DOMAIN event_log \subseteq DOMAIN event_log'
    BY <1>1, TypeStep, LogGrows DEF DeliveryInv, PipeTypeOK
  <1>4. \A h \in Consumers, d \in Events : Concerns(h, d) => Concerns(h, d)'
    BY <1>1, ConcernsLasts DEF DeliveryInv, PipeTypeOK
  <1>5. \A i \in DOMAIN dead_letters :
          /\ dead_letters[i].consumer_name \in Consumers /\ dead_letters[i].event \in Events
          /\ Concerns(dead_letters[i].consumer_name, dead_letters[i].event)
    BY Letters DEF DeliveryInv
  <1>6. ASSUME UNCHANGED <<published, stream, groups, running, redis, losses, spares, lost>>,
               /\ unacked' \in [Consumers -> [Events -> Nat]]
               /\ \A h \in Consumers, d \in Events : unacked'[h][d] <= unacked[h][d],
               /\ dead_letters' \in Seq(DeadLetter)
               /\ \A i \in DOMAIN dead_letters' :
                    \E h \in Consumers, d \in Events :
                      /\ Concerns(h, d)'
                      /\ dead_letters'[i].consumer_name = h /\ dead_letters'[i].event = d
        PROVE  DeliveryInv'
    <2>1. PipeTypeOK'
      BY <1>3, <1>6 DEF DeliveryInv, PipeTypeOK
    <2>2. ASSUME NEW h \in Consumers, NEW d \in Events
          PROVE  /\ unacked'[h][d] <= stream'[d]
                 /\ unacked'[h][d] > 0 => h \in groups' /\ Concerns(h, d)'
      <3>1. /\ unacked'[h][d] \in Nat /\ unacked[h][d] \in Nat /\ stream[d] \in Nat
            /\ unacked'[h][d] <= unacked[h][d]
            /\ unacked[h][d] <= stream[d]
        BY <1>6 DEF DeliveryInv, PipeTypeOK
      <3>2. unacked[h][d] > 0 => h \in groups /\ Concerns(h, d)
        BY DEF DeliveryInv
      <3> QED
        BY <1>4, <1>6, <3>1, <3>2
    <2> QED
      BY <1>3, <1>4, <1>6, <2>1, <2>2 DEF DeliveryInv
  <1>7. CASE Handle(g, e)
    <2>1. /\ Has(g, e) /\ Ack(g, e)
          /\ UNCHANGED <<published, stream, groups, dead_letters, running, redis,
                         losses, spares, lost>>
      BY <1>7 DEF Handle
    <2>2. \A i \in DOMAIN dead_letters' :
            \E h \in Consumers, d \in Events :
              /\ Concerns(h, d)'
              /\ dead_letters'[i].consumer_name = h /\ dead_letters'[i].event = d
      BY <1>4, <1>5, <2>1
    <2> QED
      BY <1>6, <2>1, <2>2, AckTakes DEF DeliveryInv, PipeTypeOK
  <1>8. CASE GiveUp(g, e)
    <2> DEFINE letter == [consumer_name |-> g, event |-> e, redriven |-> FALSE]
    <2>1. /\ (Has(g, e) /\ Ack(g, e)) \/ UNCHANGED unacked
          /\ Has(g, e) \/ AckedUnseen(g, e)
          /\ dead_letters' = Append(dead_letters, letter)
          /\ UNCHANGED <<vars, published, stream, groups, running, redis, losses, spares, lost>>
      BY <1>8 DEF GiveUp, NewDeadLetter
    <2>2. /\ unacked' \in [Consumers -> [Events -> Nat]]
          /\ \A h \in Consumers, d \in Events : unacked'[h][d] <= unacked[h][d]
      <3>1. CASE Has(g, e) /\ Ack(g, e)
        BY <3>1, AckTakes DEF DeliveryInv
      <3>2. CASE UNCHANGED unacked
        BY <3>2 DEF DeliveryInv, PipeTypeOK
      <3> QED
        BY <2>1, <3>1, <3>2
    <2>3. /\ letter \in DeadLetter
          /\ letter.consumer_name = g /\ letter.event = e
      BY DEF DeadLetter
    <2>4. Concerns(g, e)
      BY <2>1 DEF Has, AckedUnseen, DeliveryInv
    <2>5. dead_letters \in Seq(DeadLetter)
      BY DEF DeliveryInv, PipeTypeOK
    <2> HIDE DEF letter
    <2>6. /\ dead_letters' \in Seq(DeadLetter)
          /\ \A i \in DOMAIN dead_letters' :
               \/ dead_letters'[i] = letter
               \/ i \in DOMAIN dead_letters /\ dead_letters'[i] = dead_letters[i]
      BY <2>1, <2>3, <2>5
    <2>7. \A i \in DOMAIN dead_letters' :
            \E h \in Consumers, d \in Events :
              /\ Concerns(h, d)'
              /\ dead_letters'[i].consumer_name = h /\ dead_letters'[i].event = d
      BY <1>4, <1>5, <2>3, <2>4, <2>6
    <2> QED
      BY <1>6, <2>1, <2>2, <2>6, <2>7
  <1> QED
    BY <1>2, <1>7, <1>8

\* Processes, groups and Redis.
LEMMA ProcessesDeliver ==
  ASSUME DeliveryInv,
         \/ \E g \in Consumers : StartWorker(g) \/ EnsureGroup(g) \/ StopWorker(g)
         \/ StopRedis
         \/ StartRedis
  PROVE  DeliveryInv'
  <1>1. UNCHANGED vars /\ UNCHANGED dead_letters
    BY DEF StartWorker, EnsureGroup, StopWorker, StopRedis, StartRedis
  <1>2. /\ TypeOK'
        /\ \A g, e : Concerns(g, e)' <=> Concerns(g, e)
    BY <1>1 DEF DeliveryInv, PipeTypeOK, TypeOK, vars, Concerns
  <1>3. ASSUME NEW g \in Consumers, StartWorker(g) \/ StopWorker(g)
        PROVE  DeliveryInv'
    <2>1. UNCHANGED <<published, stream, groups, unacked, redis, losses, spares, lost>>
      BY <1>3 DEF StartWorker, StopWorker
    <2>2. running' \subseteq Consumers
      BY <1>3 DEF StartWorker, StopWorker, DeliveryInv, PipeTypeOK
    <2> QED
      BY <1>1, <1>2, <2>1, <2>2 DEF DeliveryInv, PipeTypeOK, vars
  <1>4. ASSUME NEW g \in Consumers, EnsureGroup(g)
        PROVE  DeliveryInv'
    <2>1. /\ groups' = groups \cup {g}
          /\ unacked' = [unacked EXCEPT ![g] = GroupFromStart(g)]
          /\ UNCHANGED <<published, stream, running, redis, losses, spares, lost>>
      BY <1>4 DEF EnsureGroup
    <2>2. /\ stream \in [Events -> Nat]
          /\ unacked \in [Consumers -> [Events -> Nat]]
      BY DEF DeliveryInv, PipeTypeOK
    <2>3. GroupFromStart(g) \in [Events -> Nat]
      BY <2>2 DEF GroupFromStart
    <2>4. unacked' \in [Consumers -> [Events -> Nat]]
      BY <2>1, <2>2, <2>3
    <2>5. PipeTypeOK'
      BY <1>1, <1>2, <2>1, <2>4 DEF DeliveryInv, PipeTypeOK, vars
    <2>6. ASSUME NEW h \in Consumers, NEW e \in Events
          PROVE  /\ unacked'[h][e] <= stream'[e]
                 /\ unacked'[h][e] > 0 => h \in groups' /\ Concerns(h, e)'
      <3>1. CASE h = g
        BY <1>2, <2>1, <2>2, <3>1 DEF GroupFromStart
      <3>2. CASE h # g
        BY <1>2, <2>1, <2>2, <3>2 DEF DeliveryInv
      <3> QED
        BY <3>1, <3>2
    <2> QED
      BY <1>1, <1>2, <2>1, <2>5, <2>6 DEF DeliveryInv, vars
  <1>5. CASE StopRedis
    <2>1. /\ losses' \in 0..MaxLosses
          /\ redis' \in BOOLEAN
          /\ UNCHANGED <<published, running, spares>>
      <3>1. losses \in 0..MaxLosses /\ losses < MaxLosses /\ losses' = losses + 1
        BY <1>5 DEF StopRedis, DeliveryInv, PipeTypeOK
      <3>2. losses' \in 0..MaxLosses
        BY <3>1, PipelineAssumption
      <3> QED
        BY <1>5, <3>2 DEF StopRedis
    <2>2. CASE UNCHANGED <<stream, groups, unacked, lost>>
      BY <1>1, <1>2, <2>1, <2>2 DEF DeliveryInv, PipeTypeOK, vars
    <2>3. CASE /\ stream' = Empty
               /\ groups' = {}
               /\ unacked' = [g \in Consumers |-> Empty]
               /\ lost' = lost \cup { m \in Consumers \X Events : OnlyInStream(m[1], m[2]) }
      <3>1. PipeTypeOK'
        BY <1>1, <1>2, <2>1, <2>3 DEF DeliveryInv, PipeTypeOK, Empty, vars
      <3>2. \A g \in Consumers, e \in Events : <<g, e>> \in lost' => Concerns(g, e)
        BY <2>3 DEF DeliveryInv, OnlyInStream
      <3> QED
        BY <1>1, <1>2, <2>3, <3>1, <3>2 DEF DeliveryInv, Empty
    <2> QED
      BY <1>5, <2>2, <2>3 DEF StopRedis
  <1>6. CASE StartRedis
    BY <1>1, <1>2, <1>6 DEF StartRedis, DeliveryInv, PipeTypeOK, vars
  <1> QED
    BY <1>3, <1>4, <1>5, <1>6

LEMMA DeliveryStep ==
  ASSUME DeliveryInv, [PipeNext]_pipeVars
  PROVE  DeliveryInv'
  <1>1. CASE Client \/ UNCHANGED pipeVars
    <2>1. [Next]_vars
      BY DatabaseStep
    <2>2. UNCHANGED delivery
      BY <1>1 DEF Client, pipeVars
    <2> QED
      BY <2>1, <2>2, ClientDelivers
  <1>2. CASE \/ \E e \in Events : Publish(e) \/ SpareSend(e) \/ Replay(e)
             \/ \E i \in DOMAIN dead_letters : Redrive(i)
    BY <1>2, SendersDeliver
  <1>3. CASE \E g \in Consumers, e \in Events :
               Handle(g, e) \/ HandleWithoutAck(g, e) \/ GiveUp(g, e)
    BY <1>3, WorkersDeliver
  <1>4. CASE \/ \E g \in Consumers : StartWorker(g) \/ EnsureGroup(g) \/ StopWorker(g)
             \/ StopRedis
             \/ StartRedis
    BY <1>4, ProcessesDeliver
  <1> QED
    BY <1>1, <1>2, <1>3, <1>4 DEF PipeNext

LEMMA DeliveryInit ==
  ASSUME PipeInit
  PROVE  DeliveryInv
  <1>1. Init => TypeOK
    BY DEF Init, TypeOK, OrderStatus, DomainEvent
  <1>2. dead_letters \in Seq(DeadLetter) /\ DOMAIN dead_letters = {}
    BY DEF PipeInit
  <1> QED
    BY <1>1, <1>2, PipelineAssumption DEF PipeInit, DeliveryInv, PipeTypeOK, Empty

\* The consumer groups and the stream agree, through restarts of the workers
\* and of Redis.
THEOREM GroupsAgree == PipeSpec => []DeliveryInv
  BY DeliveryInit, DeliveryStep, PTL DEF PipeSpec

\* The tables behave as OrderFlow says, whatever the delivery does: all that
\* is proved there holds here.
THEOREM Database == PipeSpec => Spec
  <1>1. PipeInit => Init
    BY DEF PipeInit
  <1>2. DeliveryInv /\ [PipeNext]_pipeVars => [Next]_vars
    BY DatabaseStep
  <1> QED
    BY <1>1, <1>2, GroupsAgree, PTL DEF PipeSpec, Spec

-----------------------------------------------------------------------------
(***************************************************************************)
(* No work is stranded.  Only an ack takes a copy from a group, and it     *)
(* comes after the processed_events row or the dead letter; only Redrive   *)
(* closes a letter, and it sends first; the rest is lost with the stream.  *)
(***************************************************************************)
\* What was processed stays processed.
LEMMA ProcessedGrows ==
  ASSUME [Next]_vars
  PROVE  processed \subseteq processed'
  <1>1. CASE \E e \in DOMAIN event_log : ReserveInventory(e) \/ CreateShipment(e)
    BY <1>1 DEF ReserveInventory, CreateShipment, TryInsert
  <1> QED
    BY <1>1 DEF Next, vars, CreateOrder, AdjustInventory

\* After a send its event is in the stream for every group it concerns.
LEMMA SendReaches ==
  ASSUME DeliveryInv, NEW e \in Events, Send(e), UNCHANGED <<vars, groups>>
  PROVE  /\ \A g \in Consumers : Concerns(g, e) => InStream(g, e)'
         /\ \A g \in Consumers, d \in Events \ {e} :
              /\ InStream(g, d) => InStream(g, d)'
              /\ <<g, d>> \in lost => <<g, d>> \in lost'
  <1>1. /\ stream \in [Events -> Nat]
        /\ unacked \in [Consumers -> [Events -> Nat]]
    BY DEF DeliveryInv, PipeTypeOK
  <1>2. stream' = [stream EXCEPT ![e] = @ + 1]
    BY DEF Send
  <1>3. stream'[e] > 0 /\ \A d \in Events \ {e} : stream'[d] = stream[d]
    BY <1>1, <1>2
  <1>4. ASSUME NEW g \in Consumers
        PROVE  /\ g \in groups /\ Concerns(g, e) => unacked'[g][e] > 0
               /\ \A d \in Events \ {e} : unacked'[g][d] = unacked[g][d]
    <2> DEFINE copies == IF g \in groups /\ Concerns(g, e) THEN 1 ELSE 0
    <2>1. unacked'[g] = [unacked[g] EXCEPT ![e] = @ + copies]
      BY DEF Send
    <2>2. copies \in {0, 1} /\ (g \in groups /\ Concerns(g, e) => copies = 1)
      OBVIOUS
    <2> HIDE DEF copies
    <2> QED
      BY <1>1, <2>1, <2>2
  <1> QED
    BY <1>3, <1>4 DEF InStream, Send

LEMMA StrandedStep ==
  ASSUME DeliveryInv, NothingStranded, [PipeNext]_pipeVars
  PROVE  NothingStranded'
  <1>1. [Next]_vars
    BY DatabaseStep
  <1>2. SUFFICES ASSUME NEW g \in Consumers, NEW e \in DOMAIN event_log',
                        Concerns(g, e)', e \in published', ~Settled(g, e)'
                 PROVE  InStream(g, e)' \/ InDeadLetters(g, e)' \/ <<g, e>> \in lost'
    BY DEF NothingStranded, AwaitsRelay
  <1>3. ~Settled(g, e)
    BY <1>1, <1>2, ProcessedGrows DEF Settled
  <1>4. ASSUME e \in published
        PROVE  /\ e \in Events /\ e \in DOMAIN event_log /\ Concerns(g, e)
               /\ InStream(g, e) \/ InDeadLetters(g, e) \/ <<g, e>> \in lost
    <2>1. e \in Events /\ e \in DOMAIN event_log
      BY <1>4 DEF DeliveryInv, PipeTypeOK
    <2>2. Concerns(g, e)
      BY <1>1, <1>2, <2>1, LogGrows DEF DeliveryInv, PipeTypeOK, Concerns
    <2> QED
      BY <1>3, <1>4, <2>1, <2>2 DEF NothingStranded, AwaitsRelay
  <1>5. ASSUME NEW d \in Events, Publish(d) \/ SpareSend(d) \/ Replay(d)
        PROVE  InStream(g, e)' \/ InDeadLetters(g, e)' \/ <<g, e>> \in lost'
    <2>1. /\ Send(d)
          /\ UNCHANGED <<vars, groups, dead_letters>>
          /\ published' \subseteq published \cup {d}
      BY <1>5 DEF Publish, SpareSend, Replay
    <2>2. CASE e = d
      BY <1>2, <2>1, <2>2, SendReaches DEF Concerns, vars
    <2>3. CASE e # d
      <3>1. e \in published
        BY <1>2, <2>1, <2>3
      <3> QED
        BY <1>4, <2>1, <2>3, <3>1, SendReaches DEF InDeadLetters
    <2> QED
      BY <2>2, <2>3
  <1>6. ASSUME NEW i \in DOMAIN dead_letters, Redrive(i)
        PROVE  InStream(g, e)' \/ InDeadLetters(g, e)' \/ <<g, e>> \in lost'
    <2> DEFINE d == dead_letters[i].event
    <2>1. /\ Send(d)
          /\ UNCHANGED <<vars, published, groups>>
          /\ dead_letters' = [dead_letters EXCEPT ![i].redriven = TRUE]
      BY <1>6 DEF Redrive
    <2>2. d \in Events
      BY Letters DEF DeliveryInv
    <2>3. CASE e = d
      BY <1>2, <2>1, <2>2, <2>3, SendReaches DEF Concerns, vars
    <2>4. CASE e # d
      <3>1. \A j \in DOMAIN dead_letters \ {i} :
              j \in DOMAIN dead_letters' /\ dead_letters'[j] = dead_letters[j]
        BY <2>1 DEF DeliveryInv, PipeTypeOK
      <3>2. InDeadLetters(g, e) => InDeadLetters(g, e)'
        BY <2>4, <3>1 DEF InDeadLetters
      <3> QED
        BY <1>2, <1>4, <2>1, <2>2, <2>4, <3>2, SendReaches
    <2> QED
      BY <2>3, <2>4
  <1>7. ASSUME NEW h \in Consumers, NEW d \in Events,
               Handle(h, d) \/ HandleWithoutAck(h, d) \/ GiveUp(h, d)
        PROVE  InStream(g, e)' \/ InDeadLetters(g, e)' \/ <<g, e>> \in lost'
    <2>1. e \in published /\ UNCHANGED <<groups, stream, lost>>
      BY <1>2, <1>7 DEF Handle, HandleWithoutAck, GiveUp, delivery
    <2>2. InDeadLetters(g, e) => InDeadLetters(g, e)'
      <3>1. CASE UNCHANGED dead_letters
        BY <3>1 DEF InDeadLetters
      <3>2. CASE GiveUp(h, d)
        <4> DEFINE letter == [consumer_name |-> h, event |-> d, redriven |-> FALSE]
        <4>1. dead_letters' = Append(dead_letters, letter)
          BY <3>2 DEF GiveUp, NewDeadLetter
        <4>2. dead_letters \in Seq(DeadLetter) /\ letter \in DeadLetter
          BY DEF DeliveryInv, PipeTypeOK, DeadLetter
        <4> HIDE DEF letter
        <4>3. \A j \in DOMAIN dead_letters :
                j \in DOMAIN dead_letters' /\ dead_letters'[j] = dead_letters[j]
          BY <4>1, <4>2
        <4> QED
          BY <4>3 DEF InDeadLetters
      <3> QED
        BY <1>7, <3>1, <3>2 DEF Handle, HandleWithoutAck, delivery
    <2>3. CASE UNCHANGED unacked
      BY <1>4, <2>1, <2>2, <2>3 DEF InStream
    <2>4. CASE Ack(h, d) /\ Has(h, d)
      <3>1. CASE <<h, d>> # <<g, e>>
        <4>1. unacked'[g][e] = unacked[g][e]
          BY <1>4, <2>1, <2>4, <3>1, AckTakes DEF DeliveryInv
        <4> QED
          BY <1>4, <2>1, <2>2, <4>1 DEF InStream
      <3>2. CASE <<h, d>> = <<g, e>>
        <4>1. h = g /\ d = e
          BY <3>2
        <4>2. CASE Handle(h, d)
          <5>1. Work(g, e)
            BY <1>3, <4>1, <4>2 DEF Handle
          <5>2. Settled(g, e)'
            BY <5>1 DEF Work, ReserveInventory, CreateShipment, TryInsert, Settled, Consumers
          <5> QED
            BY <1>2, <5>2
        <4>3. CASE GiveUp(h, d)
          <5> DEFINE letter == [consumer_name |-> g, event |-> e, redriven |-> FALSE]
          <5>1. dead_letters' = Append(dead_letters, letter)
            BY <4>1, <4>3 DEF GiveUp, NewDeadLetter
          <5>2. dead_letters \in Seq(DeadLetter) /\ letter \in DeadLetter
            BY <4>1 DEF DeliveryInv, PipeTypeOK, DeadLetter
          <5> HIDE DEF letter
          <5>3. \E j \in DOMAIN dead_letters' : dead_letters'[j] = letter
            <6>1. /\ Len(dead_letters) + 1 \in DOMAIN dead_letters'
                  /\ dead_letters'[Len(dead_letters) + 1] = letter
              BY <5>1, <5>2
            <6> QED
              BY <6>1
          <5> QED
            BY <5>3 DEF InDeadLetters, letter
        <4>4. CASE HandleWithoutAck(h, d)
          <5>1. unacked' = unacked
            BY <4>4 DEF HandleWithoutAck, delivery
          <5> QED
            BY <2>3, <5>1
        <4> QED
          BY <1>7, <4>2, <4>3, <4>4
      <3> QED
        BY <3>1, <3>2
    <2> QED
      BY <1>7, <2>3, <2>4 DEF Handle, HandleWithoutAck, GiveUp, delivery
  <1>8. ASSUME NEW h \in Consumers, EnsureGroup(h)
        PROVE  InStream(g, e)' \/ InDeadLetters(g, e)' \/ <<g, e>> \in lost'
    <2>1. /\ h \notin groups
          /\ groups' = groups \cup {h}
          /\ unacked' = [unacked EXCEPT ![h] = GroupFromStart(h)]
          /\ UNCHANGED <<published, stream, dead_letters, lost>>
      BY <1>8 DEF EnsureGroup
    <2>2. unacked \in [Consumers -> [Events -> Nat]]
      BY DEF DeliveryInv, PipeTypeOK
    <2>3. e \in Events /\ Concerns(g, e)
      BY <1>2, <1>4, <2>1
    <2>4. InStream(g, e) => InStream(g, e)'
      <3>1. CASE g = h
        BY <2>1, <2>2, <2>3, <3>1 DEF InStream, GroupFromStart
      <3>2. CASE g # h
        BY <2>1, <2>2, <3>2 DEF InStream
      <3> QED
        BY <3>1, <3>2
    <2> QED
      BY <1>2, <1>4, <2>1, <2>4 DEF InDeadLetters
  <1>9. CASE StopRedis
    <2>1. UNCHANGED <<published, dead_letters>>
      BY <1>9 DEF StopRedis
    <2>2. CASE UNCHANGED <<stream, groups, unacked, lost>>
      BY <1>2, <1>4, <2>1, <2>2 DEF InStream, InDeadLetters
    <2>3. CASE lost' = lost \cup { m \in Consumers \X Events : OnlyInStream(m[1], m[2]) }
      <3>1. InStream(g, e) => OnlyInStream(g, e)
        BY <1>2, <1>3, <1>4, <2>1 DEF InStream, OnlyInStream
      <3> QED
        BY <1>2, <1>4, <2>1, <2>3, <3>1 DEF InDeadLetters
    <2> QED
      BY <1>9, <2>2, <2>3 DEF StopRedis
  <1>10. CASE UNCHANGED <<published, stream, groups, unacked, dead_letters, lost>>
    BY <1>2, <1>4, <1>10 DEF InStream, InDeadLetters
  <1>11. \/ Client \/ StartRedis \/ UNCHANGED pipeVars
         \/ \E h \in Consumers : StartWorker(h) \/ StopWorker(h)
         => UNCHANGED <<published, stream, groups, unacked, dead_letters, lost>>
    BY DEF Client, StartRedis, StartWorker, StopWorker, delivery, pipeVars
  <1> QED
    BY <1>5, <1>6, <1>7, <1>8, <1>9, <1>10, <1>11 DEF PipeNext

\* An event a worker has not done yet is in the outbox, in the stream, in the
\* dead letters, or was lost with the stream: nothing else loses work.
THEOREM Stranded == PipeSpec => []NothingStranded
  <1>1. PipeInit => NothingStranded
    BY DEF PipeInit, Init, NothingStranded
  <1> QED
    BY <1>1, StrandedStep, GroupsAgree, PTL DEF PipeSpec

-----------------------------------------------------------------------------
(***************************************************************************)
(* The two groups keep the promise of ConsumerGroup.  Group(g) is that     *)
(* promise for either of them; a step of Pipeline is one of its steps for  *)
(* the group it is about and leaves the other group alone, but for what    *)
(* arrives and what Redis loses.                                           *)
(***************************************************************************)
Group(g) == INSTANCE ConsumerGroup WITH
  unacked <- unacked[g],
  done <- Done(g),
  letters <- LetterCount(g)

\* A redrive leaves consumer and event of its letter as they are.
LEMMA RedriveKeepsCount ==
  ASSUME DeliveryInv, NEW i \in DOMAIN dead_letters, Redrive(i), NEW g \in Consumers
  PROVE  LetterCount(g)' = LetterCount(g)
  <1>1. dead_letters \in Seq(DeadLetter)
    BY DEF DeliveryInv, PipeTypeOK
  <1>2. dead_letters' = [dead_letters EXCEPT ![i].redriven = TRUE]
    BY DEF Redrive
  <1>3. /\ DOMAIN dead_letters' = DOMAIN dead_letters
        /\ \A j \in DOMAIN dead_letters :
             /\ dead_letters'[j].consumer_name = dead_letters[j].consumer_name
             /\ dead_letters'[j].event = dead_letters[j].event
    BY <1>1, <1>2 DEF DeadLetter
  <1> QED
    BY <1>3 DEF LetterCount

\* A new letter counts for its consumer and its event.
LEMMA LetterAdds ==
  ASSUME DeliveryInv, NEW g \in Consumers, NEW e \in Events, NewDeadLetter(g, e),
         NEW h \in Consumers
  PROVE  LetterCount(h)' = IF h = g THEN [LetterCount(h) EXCEPT ![e] = @ + 1] ELSE LetterCount(h)
  <1> DEFINE new == [consumer_name |-> g, event |-> e, redriven |-> FALSE]
             n == Len(dead_letters)
             S(d) == { i \in DOMAIN dead_letters :
                        dead_letters[i].consumer_name = h /\ dead_letters[i].event = d }
             T(d) == { i \in DOMAIN dead_letters' :
                        dead_letters'[i].consumer_name = h /\ dead_letters'[i].event = d }
  <1>1. dead_letters \in Seq(DeadLetter) /\ new \in DeadLetter
    BY DEF DeliveryInv, PipeTypeOK, DeadLetter
  <1>2. dead_letters' = Append(dead_letters, new)
    BY DEF NewDeadLetter
  <1>3. new.consumer_name = g /\ new.event = e
    OBVIOUS
  <1> HIDE DEF new
  <1>4. /\ n \in Nat /\ DOMAIN dead_letters = 1..n /\ DOMAIN dead_letters' = 1..(n + 1)
        /\ dead_letters'[n + 1] = new
        /\ \A i \in 1..n : dead_letters'[i] = dead_letters[i]
    BY <1>1, <1>2
  <1> HIDE DEF n
  <1>5. \A d \in Events : T(d) = S(d) \cup (IF h = g /\ d = e THEN {n + 1} ELSE {})
    BY <1>3, <1>4
  <1>6. \A d \in Events : IsFiniteSet(S(d)) /\ n + 1 \notin S(d)
    <2> TAKE d \in Events
    <2>1. S(d) \subseteq 1..n /\ IsFiniteSet(1..n)
      BY <1>4, FS_Interval
    <2> QED
      BY <1>4, <2>1, FS_Subset
  <1>7. \A d \in Events :
          Cardinality(T(d)) = IF h = g /\ d = e THEN Cardinality(S(d)) + 1 ELSE Cardinality(S(d))
    BY <1>5, <1>6, FS_AddElement
  <1>8. /\ LetterCount(h) = [d \in Events |-> Cardinality(S(d))]
        /\ LetterCount(h)' = [d \in Events |-> Cardinality(T(d))]
    BY DEF LetterCount
  <1> HIDE DEF S, T
  <1> QED
    BY <1>7, <1>8

\* The handlers' rows: the work of one group, done once.
LEMMA WorkDoes ==
  ASSUME DeliveryInv, NEW g \in Consumers, NEW e \in Events, Work(g, e), NEW h \in Consumers
  PROVE  Done(h)' = IF h = g THEN Done(h) \cup {e} ELSE Done(h)
  <1>1. processed' = processed \cup {<<g, e>>}
    BY DEF Work, ReserveInventory, CreateShipment, TryInsert, Consumers
  <1> QED
    BY <1>1 DEF Done, Settled

\* What arrives is more for a group, or nothing.
LEMMA Arrives ==
  ASSUME DeliveryInv, DeliveryInv', NEW g \in Consumers,
         redis, UNCHANGED <<Done(g), LetterCount(g), redis>>,
         \A e \in Events : unacked'[g][e] >= unacked[g][e]
  PROVE  Group(g)!Arrive
  BY DEF Group!Arrive, DeliveryInv, PipeTypeOK

LEMMA GroupStep ==
  ASSUME DeliveryInv, DeliveryInv', [PipeNext]_pipeVars, NEW g \in Consumers
  PROVE  [Group(g)!Next]_(Group(g)!vars)
  <1>1. unacked \in [Consumers -> [Events -> Nat]]
    BY DEF DeliveryInv, PipeTypeOK
  <1>2. UNCHANGED processed => UNCHANGED Done(g)
    BY DEF Done, Settled
  <1>3. UNCHANGED dead_letters => UNCHANGED LetterCount(g)
    BY DEF LetterCount
  <1>4. UNCHANGED <<unacked, processed, dead_letters, redis>> => UNCHANGED Group(g)!vars
    BY <1>2, <1>3 DEF Group!vars
  <1>5. ASSUME NEW e \in Events, Send(e), UNCHANGED vars,
               UNCHANGED <<LetterCount(g), redis>>
        PROVE  Group(g)!Next
    <2> DEFINE copies == IF g \in groups /\ Concerns(g, e) THEN 1 ELSE 0
    <2>1. unacked'[g] = [unacked[g] EXCEPT ![e] = @ + copies]
      BY <1>5 DEF Send
    <2>2. copies \in {0, 1}
      OBVIOUS
    <2> HIDE DEF copies
    <2>3. \A d \in Events : unacked'[g][d] >= unacked[g][d]
      BY <1>1, <2>1, <2>2
    <2> QED
      BY <1>2, <1>5, <2>3, Arrives DEF Group!Next, Send, vars
  <1>6. ASSUME NEW h \in Consumers, NEW e \in Events,
               Handle(h, e) \/ HandleWithoutAck(h, e) \/ GiveUp(h, e)
        PROVE  [Group(g)!Next]_(Group(g)!vars)
    <2>1. Ack(h, e) => redis /\ unacked' = [unacked EXCEPT ![h] = [unacked[h] EXCEPT ![e] = @ - 1]]
      BY DEF Ack
    <2>2. CASE h = g
      <3>1. \/ Has(g, e) /\ redis /\ unacked'[g] = [unacked[g] EXCEPT ![e] = @ - 1]
            \/ (Has(g, e) \/ e \in Done(g)) /\ unacked'[g] = unacked[g]
        BY <1>1, <1>6, <2>1, <2>2 DEF Handle, HandleWithoutAck, GiveUp, delivery, AckedUnseen, Done
      <3>2. CASE GiveUp(h, e)
        <4>1. UNCHANGED <<Done(g), redis>> /\ LetterCount(g)' = [LetterCount(g) EXCEPT ![e] = @ + 1]
          BY <1>2, <2>2, <3>2, LetterAdds DEF GiveUp, vars
        <4> QED
          BY <3>1, <4>1 DEF Group!Next, Group!GiveUp, Group!Ack, Has
      <3>3. CASE Handle(h, e) \/ HandleWithoutAck(h, e)
        <4>1. /\ Has(g, e) /\ UNCHANGED <<LetterCount(g), redis>>
              /\ \/ unacked'[g] = unacked[g]
                 \/ redis /\ unacked'[g] = [unacked[g] EXCEPT ![e] = @ - 1]
          BY <1>3, <2>2, <3>1, <3>3 DEF Handle, HandleWithoutAck, delivery
        <4>2. Done(g)' = Done(g) \cup {e}
          <5>1. CASE Work(g, e)
            BY <5>1, WorkDoes
          <5>2. CASE Settled(g, e) /\ UNCHANGED vars
            BY <1>2, <5>2 DEF Done, vars
          <5> QED
            BY <2>2, <3>3, <5>1, <5>2 DEF Handle, HandleWithoutAck
        <4> QED
          BY <4>1, <4>2 DEF Group!Next, Group!Handle, Group!Ack, Has
      <3> QED
        BY <1>6, <3>2, <3>3
    <2>3. CASE h # g
      <3>1. unacked'[g] = unacked[g]
        BY <1>1, <1>6, <2>3 DEF Handle, HandleWithoutAck, GiveUp, Ack, delivery
      <3>2. UNCHANGED LetterCount(g)
        BY <1>3, <1>6, <2>3, LetterAdds DEF Handle, HandleWithoutAck, GiveUp, delivery
      <3>3. UNCHANGED <<Done(g), redis>>
        BY <1>2, <1>6, <2>3, WorkDoes DEF Handle, HandleWithoutAck, GiveUp, delivery, vars
      <3> QED
        BY <3>1, <3>2, <3>3 DEF Group!vars
    <2> QED
      BY <2>2, <2>3
  <1>7. ASSUME NEW i \in DOMAIN dead_letters, Redrive(i)
        PROVE  Group(g)!Next
    <2>1. dead_letters[i].event \in Events /\ UNCHANGED LetterCount(g)
      BY <1>7, Letters, RedriveKeepsCount DEF DeliveryInv
    <2> QED
      BY <1>5, <1>7, <2>1 DEF Redrive
  <1>8. ASSUME NEW h \in Consumers, EnsureGroup(h)
        PROVE  Group(g)!Next
    <2>1. /\ unacked' = [unacked EXCEPT ![h] = GroupFromStart(h)]
          /\ h \notin groups /\ redis
          /\ UNCHANGED <<vars, dead_letters, redis>>
      BY <1>8 DEF EnsureGroup
    <2>2. \A e \in Events : unacked'[g][e] >= unacked[g][e]
      <3>1. \A e \in Events : unacked'[g][e] \in Nat /\ unacked[g][e] \in Nat
        BY DEF DeliveryInv, PipeTypeOK
      <3>2. CASE g = h
        <4>1. \A e \in Events : ~(unacked[g][e] > 0)
          BY <2>1, <3>2 DEF DeliveryInv
        <4> QED
          BY <3>1, <4>1
      <3>3. CASE g # h
        BY <1>1, <2>1, <3>1, <3>3
      <3> QED
        BY <3>2, <3>3
    <2> QED
      BY <1>2, <1>3, <2>1, <2>2, Arrives DEF Group!Next, vars
  <1>9. CASE StopRedis
    <2>1. redis /\ ~redis' /\ UNCHANGED <<processed, dead_letters>>
      BY <1>9 DEF StopRedis, vars
    <2>2. UNCHANGED unacked[g] \/ unacked'[g] = [e \in Events |-> 0]
      BY <1>9 DEF StopRedis, Empty
    <2> QED
      BY <1>2, <1>3, <2>1, <2>2 DEF Group!Next, Group!Stop
  <1>10. CASE Client
    <2>1. UNCHANGED <<unacked, processed, dead_letters, redis>>
      BY <1>10 DEF Client, delivery, CreateOrder, AdjustInventory
    <2> QED
      BY <1>4, <2>1
  <1>11. CASE UNCHANGED pipeVars \/ \E h \in Consumers : StartWorker(h) \/ StopWorker(h)
    BY <1>4, <1>11 DEF StartWorker, StopWorker, pipeVars, vars, delivery
  <1>12. ASSUME NEW e \in Events, Publish(e) \/ SpareSend(e) \/ Replay(e)
         PROVE  Group(g)!Next
    BY <1>3, <1>5, <1>12 DEF Publish, SpareSend, Replay
  <1>13. CASE StartRedis
    BY <1>2, <1>3, <1>13 DEF StartRedis, Group!Next, Group!Start, vars
  <1> QED
    BY <1>6, <1>7, <1>8, <1>9, <1>10, <1>11, <1>12, <1>13 DEF PipeNext

LEMMA GroupInit ==
  ASSUME PipeInit, NEW g \in Consumers
  PROVE  Group(g)!Init
  <1>1. Done(g) = {}
    BY DEF PipeInit, Init, Done, Settled
  <1>2. LetterCount(g) = [e \in Events |-> 0]
    BY FS_EmptySet DEF PipeInit, LetterCount
  <1> QED
    BY <1>1, <1>2 DEF PipeInit, Group!Init, Empty

\* Both groups behave as ConsumerGroup says, which is what the loop inside a
\* worker was shown to provide (StreamConsumer): the cut of Pipeline asks no
\* more of a worker than its code gives.
THEOREM Groups == PipeSpec => ImplementsGroups
  <1>1. "inventory-worker" \in Consumers /\ "shipping-worker" \in Consumers
    BY DEF Consumers
  <1>2. PipeInit => Inventory!Init /\ Shipping!Init
    BY <1>1, GroupInit DEF Group!Init, Inventory!Init, Shipping!Init
  <1>3. ASSUME DeliveryInv, DeliveryInv', [PipeNext]_pipeVars
        PROVE  [Inventory!Next]_(Inventory!vars) /\ [Shipping!Next]_(Shipping!vars)
    <2>1. [Group("inventory-worker")!Next]_(Group("inventory-worker")!vars)
      BY <1>1, <1>3, GroupStep
    <2>2. [Group("shipping-worker")!Next]_(Group("shipping-worker")!vars)
      BY <1>1, <1>3, GroupStep
    <2> QED
      BY <2>1, <2>2
         DEF Group!Next, Group!vars, Group!Arrive, Group!Stop, Group!Start, Group!Handle,
             Group!GiveUp, Group!Ack,
             Inventory!Next, Inventory!vars, Inventory!Arrive, Inventory!Stop, Inventory!Start,
             Inventory!Handle, Inventory!GiveUp, Inventory!Ack,
             Shipping!Next, Shipping!vars, Shipping!Arrive, Shipping!Stop, Shipping!Start,
             Shipping!Handle, Shipping!GiveUp, Shipping!Ack
  <1> QED
    BY <1>2, <1>3, GroupsAgree, PTL DEF PipeSpec, ImplementsGroups, Inventory!Spec, Shipping!Spec

-----------------------------------------------------------------------------
\* From the POST to the shipment, with every crash, outage, loss, redelivery,
\* dead letter and replay of the pipeline, the shop keeps the promise of
\* Fulfilment: an order is decided once against the free stock and shipped once.
THEOREM PromiseEndToEnd == PipeSpec => ImplementsFulfilment
  BY Database, Refinement

\* Whatever is sent again, no SKU is reserved beyond its stock, the reservations
\* are those of the orders, no order has two events of a type, and the handlers
\* of what is still to be delivered can succeed.
THEOREM StockEndToEnd ==
  PipeSpec => [](NeverOversold /\ ReservationsBalance /\ NoEventTwice /\ HandlersCanSucceed)
  BY Database, Oversell, Balance, AtMostOnce, Handleable, PTL
=============================================================================
