--------------------------- MODULE OutboxRelay ---------------------------
(***************************************************************************)
(* The transactional outbox: writers append rows to event_log inside their *)
(* own transactions, relays copy committed rows to the Redis stream and    *)
(* mark them published.  A relay's batch is one transaction: its row locks *)
(* and its marks live or die together, while the XADDs it has done stay.   *)
(*                                                                         *)
(* A row is named by its id, which PostgreSQL draws from a sequence at     *)
(* flush time: ids follow the order of the appends, not of the commits.    *)
(***************************************************************************)
EXTENDS Integers, FiniteSets, Sequences

CONSTANTS
  Relays,      \* the relay processes
  BatchSize,   \* batch_size of OutboxRelay
  MaxEvents,   \* bound: how many rows are appended in a behaviour
  MaxFaults    \* bound: how many relay transactions fail in a behaviour

ASSUME OutboxAssumption ==
  BatchSize \in Nat \ {0} /\ MaxEvents \in Nat /\ MaxFaults \in Nat

VARIABLES
  row,        \* row[e]: the fate of the transaction that appended row e
  published,  \* the rows whose published_at is set, as a new snapshot sees it
  batch,      \* batch[r]: the rows relay r has selected and keeps locked
  unsent,     \* unsent[r]: the part of batch[r] it has yet to publish
  stream,     \* the Redis stream: the rows in the order of their XADDs
  faults      \* how many relay transactions have failed

vars == <<row, published, batch, unsent, stream, faults>>

Events == 1..MaxEvents

TypeOK ==
  /\ row \in [Events -> {"absent", "open", "committed", "aborted"}]
  /\ published \subseteq Events
  /\ batch \in [Relays -> SUBSET Events]
  /\ unsent \in [Relays -> SUBSET Events]
  /\ stream \in Seq(Events)
  /\ faults \in 0..MaxFaults

-----------------------------------------------------------------------------
Init ==
  /\ row = [e \in Events |-> "absent"]
  /\ published = {}
  /\ batch = [r \in Relays |-> {}]
  /\ unsent = [r \in Relays |-> {}]
  /\ stream = <<>>
  /\ faults = 0

\* uow.events.append: the flush draws the next id.
AppendRow(e) ==
  /\ row[e] = "absent"
  /\ \A d \in 1..(e - 1) : row[d] # "absent"
  /\ row' = [row EXCEPT ![e] = "open"]
  /\ UNCHANGED <<published, batch, unsent, stream, faults>>

\* The writer commits or rolls back, in an order of its own.
EndWriter(e) ==
  /\ row[e] = "open"
  /\ \E fate \in {"committed", "aborted"} : row' = [row EXCEPT ![e] = fate]
  /\ UNCHANGED <<published, batch, unsent, stream, faults>>

\* Mutant: the query without FOR UPDATE SKIP LOCKED.
SelectableLocked(r) == { e \in Events : row[e] = "committed" /\ e \notin published }

\* Mutant: a cursor in place of published_at IS NULL.
SelectableAfterCursor(r) ==
  { e \in Events : /\ row[e] = "committed"
                   /\ \A d \in published : d < e
                   /\ \A q \in Relays : e \notin batch[q] }

\* The rows the query of list_unpublished may return to relay r: committed,
\* not published, and not locked by another relay.
Selectable(r) ==
  { e \in Events : /\ row[e] = "committed"
                   /\ e \notin published
                   /\ \A q \in Relays : e \notin batch[q] }

\* ORDER BY id LIMIT BatchSize.
FirstRows(S) == { e \in S : Cardinality({ d \in S : d < e }) < BatchSize }

\* run_once begins.  With nothing to select it commits an empty transaction.
Select(r) ==
  /\ batch[r] = {}
  /\ Selectable(r) # {}
  /\ batch' = [batch EXCEPT ![r] = FirstRows(Selectable(r))]
  /\ unsent' = [unsent EXCEPT ![r] = FirstRows(Selectable(r))]
  /\ UNCHANGED <<row, published, stream, faults>>

NextToSend(r, e) == e \in unsent[r] /\ \A d \in unsent[r] : e <= d

\* One turn of the loop: XADD, and a mark that only the commit makes visible.
Publish(r) ==
  /\ \E e \in unsent[r] :
       /\ NextToSend(r, e)
       /\ stream' = Append(stream, e)
       /\ unsent' = [unsent EXCEPT ![r] = @ \ {e}]
  /\ UNCHANGED <<row, published, batch, faults>>

\* The end of the relay's transaction, with or without its marks.
EndBatch(r, marks) ==
  /\ published' = published \cup marks
  /\ batch' = [batch EXCEPT ![r] = {}]
  /\ unsent' = [unsent EXCEPT ![r] = {}]

\* uow.commit after the whole batch.
Commit(r) ==
  /\ batch[r] # {}
  /\ unsent[r] = {}
  /\ EndBatch(r, batch[r])
  /\ UNCHANGED <<row, stream, faults>>

Fault ==
  /\ faults < MaxFaults
  /\ faults' = faults + 1

\* Mutant: the relay catches the error in the loop and commits what it has.
MarksOfFailedPublish(r) == batch[r]

\* An exception leaves the block without a commit: nothing is marked.
MarksOfRollback(r) == {}

\* publish raises, after the XADD took effect or without it, or the process
\* dies before or after it.
PublishFails(r) ==
  /\ Fault
  /\ \E e \in unsent[r] :
       /\ NextToSend(r, e)
       /\ stream' \in {stream, Append(stream, e)}
  /\ EndBatch(r, MarksOfRollback(r))
  /\ UNCHANGED row

\* commit raises, or the process dies around it; the server may have
\* committed all the same.
CommitFails(r) ==
  /\ Fault
  /\ batch[r] # {}
  /\ unsent[r] = {}
  /\ \E marks \in {MarksOfRollback(r), batch[r]} : EndBatch(r, marks)
  /\ UNCHANGED <<row, stream>>

Relay(r) == Select(r) \/ Publish(r) \/ Commit(r)

Next ==
  \/ \E e \in Events : AppendRow(e) \/ EndWriter(e)
  \/ \E r \in Relays : Relay(r) \/ PublishFails(r) \/ CommitFails(r)

\* The loop of main runs for ever and survives every exception.  Writers owe
\* nothing, and a fault need not happen.
Spec == Init /\ [][Next]_vars /\ \A r \in Relays : WF_vars(Relay(r))

-----------------------------------------------------------------------------
Sent(e) == \E i \in DOMAIN stream : stream[i] = e

Copies(e) == Cardinality({ i \in DOMAIN stream : stream[i] = e })

\* What the row locks are worth: a batch holds committed, unpublished rows
\* that no other relay holds, and the part of it that is not unsent is in the
\* stream, so that the commit marks nothing that was not sent.
BatchesLocked ==
  /\ \A r \in Relays :
       /\ unsent[r] \subseteq batch[r]
       /\ \A e \in batch[r] : row[e] = "committed" /\ e \notin published
       /\ \A e \in batch[r] \ unsent[r] : Sent(e)
  /\ \A q, r \in Relays : q # r => batch[q] \cap batch[r] = {}

\* Typing and locking together are the invariant the others rest on.
RelayInv == TypeOK /\ BatchesLocked

\* No committed event is lost: a row is marked only when it is in the stream,
\* whichever XADD or commit failed on the way; and what is in the stream was
\* committed, so that no worker acts on an order that was rolled back.
PublishedIsSent ==
  /\ \A e \in published : Sent(e)
  /\ \A i \in DOMAIN stream : row[stream[i]] = "committed"

\* A second copy of an event needs a fault: relays side by side never send
\* the same row twice, as they skip each other's locked rows.
CopiesNeedFaults == \A e \in Events : Copies(e) <= 1 + faults

\* Every committed event reaches the stream and is marked, also the one whose
\* transaction commits after a row with a higher id was published.
EveryEventPublished ==
  \A e \in Events : row[e] = "committed" ~> e \in published
=============================================================================
