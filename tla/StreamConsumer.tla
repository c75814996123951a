-------------------------- MODULE StreamConsumer --------------------------
(***************************************************************************)
(* One worker: RedisStreamConsumer.run_forever over the consumer group of  *)
(* its role, with the single consumer name runner.py gives it.  Messages   *)
(* are named by their position in the stream.  A handler is what it does   *)
(* to the worker's processed_events rows: it commits one, finds it there,  *)
(* ignores the event, or raises and is rolled back.                        *)
(*                                                                         *)
(* Faults are calls of Redis or PostgreSQL that raise, with or without the *)
(* effect they were to have, and deaths of the process.  Their number is   *)
(* bounded.  A read that raises without an effect is a stuttering step.    *)
(***************************************************************************)
EXTENDS Integers, FiniteSets, Sequences

CONSTANTS
  Events,       \* the events other processes add to the stream
  Ignored,      \* those of a type this worker's handler returns from at once
  Poison,       \* those its handler raises on, whatever the state
  Count,        \* count of XREADGROUP
  MaxFailures,  \* max_failures of RedisStreamConsumer
  Restarted,    \* whether something starts a worker process that has ended
  MaxMessages,  \* bound: how many messages the stream gets
  MaxFaults     \* bound: how many faults happen

ASSUME ConsumerAssumption ==
  /\ Ignored \subseteq Events
  /\ Poison \subseteq Events \ Ignored
  /\ Count \in Nat \ {0}
  /\ MaxFailures \in Nat \ {0}
  /\ Restarted \in BOOLEAN
  /\ MaxMessages \in Nat
  /\ MaxFaults \in Nat

VARIABLES
  stream,        \* the event of each message
  delivered,     \* last-delivered-id: messages 1..delivered were handed out
  pending,       \* the pending entries list of the group
  pc,            \* where run_once is, "stopped" when the process has ended
  batch,         \* the messages of the last read that are still to be handled
  failures,      \* _failures, in the memory of the process; no entry counts 0
  processed,     \* the events with a processed_events row of this worker
  dead_letters,  \* dead_letters[e]: how many dead_letter_events rows e has
  faults         \* how many faults have happened

vars == <<stream, delivered, pending, pc, batch, failures, processed, dead_letters, faults>>

Messages == 1..Len(stream)

Steps == {"read_pending", "read_new", "handle", "ack", "dead_letter", "dead_ack"}

TypeOK ==
  /\ stream \in Seq(Events)
  /\ delivered \in 0..Len(stream)
  /\ pending \subseteq 1..delivered
  /\ pc \in Steps \cup {"stopped"}
  /\ batch \subseteq 1..delivered
  /\ pc \in {"handle", "ack", "dead_letter", "dead_ack"} <=> batch # {}
  /\ failures \in [Events -> Nat]
  /\ processed \subseteq Events
  /\ dead_letters \in [Events -> Nat]
  /\ faults \in 0..MaxFaults

-----------------------------------------------------------------------------
Init ==
  /\ stream = <<>>
  /\ delivered = 0
  /\ pending = {}
  /\ pc = "read_pending"
  /\ batch = {}
  /\ failures = [e \in Events |-> 0]
  /\ processed = {}
  /\ dead_letters = [e \in Events |-> 0]
  /\ faults = 0

\* XADD by the relay, or by the replay and redrive endpoints: any event, any
\* number of times.
AddMessage(e) ==
  /\ Len(stream) < MaxMessages
  /\ stream' = Append(stream, e)
  /\ UNCHANGED <<delivered, pending, pc, batch, failures, processed, dead_letters, faults>>

Fault ==
  /\ faults < MaxFaults
  /\ faults' = faults + 1

NoFault == UNCHANGED faults

\* The first Count messages of S in stream order.
FirstOf(S) == { m \in S : Cardinality({ n \in S : n < m }) < Count }

\* Mutant: the worker reads on without looking at what is pending.
NextReadNewOnly == "read_new"

NextRead == IF pending = {} THEN "read_new" ELSE "handle"

\* XREADGROUP "0": the pending messages are handed out again.
ReadPending ==
  /\ pc = "read_pending"
  /\ pc' = NextRead
  /\ batch' = IF NextRead = "handle" THEN FirstOf(pending) ELSE {}
  /\ NoFault
  /\ UNCHANGED <<stream, delivered, pending, failures, processed, dead_letters>>

\* XREADGROUP ">", asked for only when nothing is pending: what it hands out
\* becomes pending in the same command.  With no message it blocks, and the
\* loop starts again.
ReadNew ==
  LET new == FirstOf((delivered + 1)..Len(stream)) IN
    /\ pc = "read_new"
    /\ new # {}
    /\ \E last \in new : (\A m \in new : m <= last) /\ delivered' = last
    /\ pending' = pending \cup new
    /\ \/ NoFault /\ batch' = new /\ pc' = "handle"
       \/ Fault /\ batch' = {} /\ pc' = "read_pending"   \* the reply is lost
    /\ UNCHANGED <<stream, failures, processed, dead_letters>>

\* run_once ends empty-handed, the loop calls it again and it starts over with
\* the pending list.
ReadNothing ==
  /\ pc = "read_new"
  /\ delivered = Len(stream)
  /\ pc' = "read_pending"
  /\ NoFault
  /\ UNCHANGED <<stream, delivered, pending, batch, failures, processed, dead_letters>>

\* m is the message the loop of run_once has reached.
Current(m) == m \in batch /\ \A n \in batch : m <= n

\* The loop goes on to the next message, or run_once returns.
Advance(m) ==
  /\ batch' = batch \ {m}
  /\ pc' = IF batch = {m} THEN "read_pending" ELSE "handle"

\* Mutant: one failure too early.
GivesUpEarly(n) == n + 1 >= MaxFailures

GivesUp(n) == n >= MaxFailures

\* Mutant: the XACK in a finally block, whether the handler returns or raises.
CountFailureThenAck(m) ==
  /\ failures' = [failures EXCEPT ![stream[m]] = @ + 1]
  /\ pc' = "ack"
  /\ UNCHANGED batch

\* The except branch: count the failure, and either leave the message pending
\* or go on to the dead letters.
CountFailure(m) ==
  LET n == failures[stream[m]] + 1 IN
    /\ failures' = [failures EXCEPT ![stream[m]] = n]
    /\ IF GivesUp(n) THEN pc' = "dead_letter" /\ UNCHANGED batch
                     ELSE Advance(m)

ClearFailures(m) == failures' = [failures EXCEPT ![stream[m]] = 0]

\* What a handler that commits leaves behind; a redelivered event has its row.
Handled(e) == IF e \in Ignored THEN processed ELSE processed \cup {e}

\* self._handler(event) returns.
HandlerReturns(m) ==
  /\ pc = "handle"
  /\ stream[m] \notin Poison
  /\ processed' = Handled(stream[m])
  /\ pc' = "ack"
  /\ NoFault
  /\ UNCHANGED <<stream, delivered, pending, batch, failures, dead_letters>>

\* self._handler(event) raises: a poison event does so on its own, any other
\* on an error of PostgreSQL, which may have committed all the same.
HandlerRaises(m) ==
  /\ pc = "handle"
  /\ stream[m] \notin Ignored
  /\ \/ stream[m] \in Poison /\ NoFault /\ UNCHANGED processed
     \/ stream[m] \notin Poison /\ Fault /\ processed' \in {processed, Handled(stream[m])}
  /\ CountFailure(m)
  /\ UNCHANGED <<stream, delivered, pending, dead_letters>>

\* XACK after the handler.
Ack(m) ==
  /\ pc = "ack"
  /\ pending' = pending \ {m}
  /\ ClearFailures(m)
  /\ Advance(m)
  /\ NoFault
  /\ UNCHANGED <<stream, delivered, processed, dead_letters>>

\* It raises inside the same try block: a failure of the event like any other.
AckRaises(m) ==
  /\ pc = "ack"
  /\ Fault
  /\ pending' \in {pending, pending \ {m}}
  /\ CountFailure(m)
  /\ UNCHANGED <<stream, delivered, processed, dead_letters>>

OneMore(e) == [dead_letters EXCEPT ![e] = @ + 1]

\* The dead letter handler commits its row.
DeadLetter(m) ==
  /\ pc = "dead_letter"
  /\ dead_letters' = OneMore(stream[m])
  /\ pc' = "dead_ack"
  /\ NoFault
  /\ UNCHANGED <<stream, delivered, pending, batch, failures, processed>>

\* The end of the process, and of what it had in memory.
Stop ==
  /\ pc' = "stopped"
  /\ batch' = {}
  /\ failures' = [e \in Events |-> 0]

\* It raises outside the try block, an error run_forever does not catch: that
\* loop survives a RedisError only.
DeadLetterRaises(m) ==
  /\ pc = "dead_letter"
  /\ Fault
  /\ dead_letters' \in {dead_letters, OneMore(stream[m])}
  /\ Stop
  /\ UNCHANGED <<stream, delivered, pending, processed>>

\* Mutant: the message of a dead letter is left pending.
PendingAfterDeadLetterKept(m) == pending

PendingAfterDeadLetter(m) == pending \ {m}

\* XACK after the dead letter.
DeadAck(m) ==
  /\ pc = "dead_ack"
  /\ pending' = PendingAfterDeadLetter(m)
  /\ ClearFailures(m)
  /\ Advance(m)
  /\ NoFault
  /\ UNCHANGED <<stream, delivered, processed, dead_letters>>

\* Its RedisError ends run_once but not run_forever.
DeadAckRaises(m) ==
  /\ pc = "dead_ack"
  /\ Fault
  /\ pending' \in {pending, pending \ {m}}
  /\ batch' = {}
  /\ pc' = "read_pending"
  /\ UNCHANGED <<stream, delivered, failures, processed, dead_letters>>

\* The process is killed.  Only considered where it is started again.
Crash ==
  /\ Restarted
  /\ pc # "stopped"
  /\ Fault
  /\ Stop
  /\ UNCHANGED <<stream, delivered, pending, processed, dead_letters>>

\* ensure_group finds its group: BUSYGROUP.
Restart ==
  /\ Restarted
  /\ pc = "stopped"
  /\ pc' = "read_pending"
  /\ NoFault
  /\ UNCHANGED <<stream, delivered, pending, batch, failures, processed, dead_letters>>

HandleCurrent(m) ==
  /\ Current(m)
  /\ \/ HandlerReturns(m) \/ HandlerRaises(m)
     \/ Ack(m) \/ AckRaises(m)
     \/ DeadLetter(m) \/ DeadLetterRaises(m)
     \/ DeadAck(m) \/ DeadAckRaises(m)

Consume ==
  \/ ReadPending \/ ReadNew \/ ReadNothing \/ Restart
  \/ \E m \in Messages : HandleCurrent(m)

Next == Consume \/ Crash \/ \E e \in Events : AddMessage(e)

\* run_forever loops for ever; nothing has to fail and nothing has to be sent.
Spec == Init /\ [][Next]_vars /\ WF_vars(Consume)

-----------------------------------------------------------------------------
\* What the worker has in hand: the messages of its batch are pending (the
\* current one may have left the list when an XACK raised), an XACK follows a
\* committed row or dead letter, a dead letter follows MaxFailures failures,
\* and an event that is not poison fails only through a fault.
WorkInHand ==
  /\ \A m \in batch :
       \/ m \in pending
       \/ Current(m) /\ pc \in {"dead_letter", "dead_ack"} /\ stream[m] \in processed \cup Ignored
  /\ \A m \in batch : Current(m) =>
       /\ pc = "ack" => stream[m] \in processed \cup Ignored
       /\ pc = "dead_letter" => failures[stream[m]] >= MaxFailures
       /\ pc = "dead_ack" => dead_letters[stream[m]] > 0
  /\ \A e \in Events \ Poison : failures[e] <= faults

\* The invariant the others rest on.
WorkInv == TypeOK /\ WorkInHand

Acked == 1..delivered \ pending

\* An event with a row of this worker, or with no work for it, or handed over
\* to the operator.
Settled(e) == e \in processed \cup Ignored \/ dead_letters[e] > 0

\* No message is acknowledged unless its event is settled: not by a lost
\* reply, an XACK that raises, a restart or a second copy of the event.
AckedIsSettled == \A m \in Acked : Settled(stream[m])

\* What the loop may rely on at each call, and what it has kept: no message is
\* gone from the group whose work or dead letter is not in the database.
ConsumerInv == WorkInv /\ AckedIsSettled

\* All that is pending comes back in one read of "0", so that a poison message
\* never hides another pending one: new messages wait until nothing is.
PendingFitsOneRead == Cardinality(pending) <= Count

\* An event whose handler can succeed goes to the dead letters only after
\* MaxFailures faults.
DeadLettersNeedFaults ==
  \A e \in Events \ Poison : dead_letters[e] > 0 => faults >= MaxFailures

\* An event gets one dead letter for each message that carries it, and a
\* further one only when something failed in between.
DeadLettersBounded ==
  \A e \in Events :
    dead_letters[e] <= Cardinality({ m \in 1..delivered : stream[m] = e }) + faults

\* Every message is eventually acknowledged, and so every event settled,
\* whatever fails and whichever message before it is poison.
EveryMessageAcked ==
  \A m \in 1..MaxMessages : m \in Messages ~> m \in Acked

-----------------------------------------------------------------------------
\* The promise of ConsumerGroup, read off the stream and the tables.  A letter
\* counts from the attempt to acknowledge its message.  Redis loses nothing here,
\* so work and letters are the only ways out of the group.
Unacked(e) == { m \in Messages : stream[m] = e /\ m \notin Acked }

LetterInHand(e) == pc = "dead_ack" /\ \E m \in batch : Current(m) /\ stream[m] = e

UnackedCount == [e \in Events \ Ignored |-> Cardinality(Unacked(e))]

LetterCount ==
  [e \in Events \ Ignored |-> dead_letters[e] - (IF LetterInHand(e) THEN 1 ELSE 0)]

Group == INSTANCE ConsumerGroup WITH
  Events <- Events \ Ignored, unacked <- UnackedCount, done <- processed, letters <- LetterCount,
  redis <- TRUE

\* The loop of run_once, with its two reads, its failure counts and the two
\* calls of a dead letter, and whatever raises or dies in between, is to the
\* outside a group that takes each copy of an event out by work or by letter.
ImplementsGroup == Group!Spec
=============================================================================
