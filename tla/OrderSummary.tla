--------------------------- MODULE OrderSummary ---------------------------
(***************************************************************************)
(* The order summary, statement by statement.  Projection transactions     *)
(* count events into the one row of order_summary_read_model, rebuild      *)
(* transactions overwrite it with a count of the event log.  Two           *)
(* projections overlap when a worker is started while the transaction of   *)
(* the one before it still runs.                                           *)
(*                                                                         *)
(* An event is its position in the log and its type the field it counts    *)
(* for; InventoryAdjusted counts for none.  GET /read-models/order-summary *)
(* locks or inserts the row and rolls back, which leaves nothing behind.   *)
(***************************************************************************)
EXTENDS Integers, FiniteSets, Sequences

CONSTANTS
  Workers,    \* the sessions that project events
  Admins,     \* the sessions that rebuild the summary
  Fields,     \* the counters, each the field of one event type
  MaxEvents,  \* bound: how many events are appended
  MaxFaults   \* bound: how many transactions fail for an outside reason

Uncounted == "InventoryAdjusted"

Sessions == Workers \cup Admins

ASSUME SummaryAssumption ==
  /\ Workers \cap Admins = {}
  /\ Uncounted \notin Fields
  /\ Fields # {}
  /\ MaxEvents \in Nat /\ MaxFaults \in Nat

VARIABLES
  event_log,  \* event_log[e]: the field of each committed event, by commit
  processed,  \* the committed processed_events rows of projection-worker
  summary,    \* the committed row: a function of no fields until there is one
  pc,         \* how far the transaction of each session has come
  claim,      \* claim[w]: the event of w's processed_events row
  seen,       \* seen[s]: the counters s has read, or counted from the log
  drift,      \* history: how far the last rebuild was off
  faults      \* how many transactions have failed for an outside reason

vars == <<event_log, processed, summary, pc, claim, seen, drift, faults>>

Events == DOMAIN event_log

Zero == [f \in Fields |-> 0]

\* apply_event_to_summary over a set of events.
Tally(S) == [f \in Fields |-> Cardinality({ e \in S : event_log[e] = f })]

Counted == { e \in Events : event_log[e] \in Fields }

NoRow == summary = [f \in {} |-> 0]

TypeOK ==
  /\ event_log \in Seq(Fields \cup {Uncounted})
  /\ processed \subseteq Counted
  /\ NoRow \/ summary \in [Fields -> Int]
  /\ pc \in [Sessions -> {"idle", "begun", "inserting", "locked"}]
  /\ claim \in [Workers -> Nat]
  /\ seen \in [Sessions -> [Fields -> Int]]
  /\ drift \in [Fields -> Int]
  /\ faults \in 0..MaxFaults

-----------------------------------------------------------------------------
Init ==
  /\ event_log = <<>>
  /\ processed = {}
  /\ summary = [f \in {} |-> 0]
  /\ pc = [s \in Sessions |-> "idle"]
  /\ claim = [w \in Workers |-> 0]
  /\ seen = [s \in Sessions |-> Zero]
  /\ drift = Zero
  /\ faults = 0

\* A use case commits an event.
AppendEvent(f) ==
  /\ Len(event_log) < MaxEvents
  /\ event_log' = Append(event_log, f)
  /\ UNCHANGED <<processed, summary, pc, claim, seen, drift, faults>>

\* Mutant: processed_events without its unique constraint.
ClaimedNever(e) == FALSE

\* The unique constraint: the row is there, or another transaction has
\* inserted it and the INSERT waits for its end.
Claimed(e) ==
  \/ e \in processed
  \/ \E w \in Workers : pc[w] # "idle" /\ claim[w] = e

\* try_insert succeeds.  A duplicate returns at once and changes nothing.
TryInsert(w, e) ==
  /\ pc[w] = "idle"
  /\ ~Claimed(e)
  /\ pc' = [pc EXCEPT ![w] = "begun"]
  /\ claim' = [claim EXCEPT ![w] = e]
  /\ UNCHANGED <<event_log, processed, summary, seen, drift, faults>>

\* A rebuild counts the whole log, without a lock.
ListAll(a) ==
  /\ pc[a] = "idle"
  /\ pc' = [pc EXCEPT ![a] = "begun"]
  /\ seen' = [seen EXCEPT ![a] = Tally(Events)]
  /\ UNCHANGED <<event_log, processed, summary, claim, drift, faults>>

\* Mutant: the SELECT without FOR UPDATE.
RowLockedNever(s) == FALSE

\* Another transaction has locked the row or inserted it.
RowLocked(s) == \E t \in Sessions \ {s} : pc[t] = "locked"

\* What s holds in memory once it has the row: a worker the row, a rebuild
\* its own count.
Holds(s, counters) ==
  /\ pc' = [pc EXCEPT ![s] = "locked"]
  /\ seen' = IF s \in Workers THEN [seen EXCEPT ![s] = counters] ELSE seen

\* _get_or_create_model: SELECT ... FOR UPDATE finds the row, when it is free.
LockRow(s) ==
  /\ pc[s] = "begun"
  /\ ~NoRow
  /\ ~RowLocked(s)
  /\ Holds(s, summary)
  /\ UNCHANGED <<event_log, processed, summary, claim, drift, faults>>

\* It finds none and goes on to insert one.
MissRow(s) ==
  /\ pc[s] = "begun"
  /\ NoRow
  /\ pc' = [pc EXCEPT ![s] = "inserting"]
  /\ UNCHANGED <<event_log, processed, summary, claim, seen, drift, faults>>

\* The INSERT waits for another one to end.
InsertRow(s) ==
  /\ pc[s] = "inserting"
  /\ ~RowLocked(s)
  /\ NoRow
  /\ Holds(s, Zero)
  /\ UNCHANGED <<event_log, processed, summary, claim, drift, faults>>

\* Mutant: the loser of the race tries the same INSERT again.
LoserRetries(s) == UNCHANGED pc

\* Mutant: the IntegrityError is swallowed, and the loser goes on with the empty
\* counters it meant to insert.
LoserGoesOn(s) == pc' = [pc EXCEPT ![s] = "locked"]

\* The loser's IntegrityError rolls its transaction back: the worker counts a
\* failure and the message is redelivered, the rebuild answers 503.
LoserRollsBack(s) == pc' = [pc EXCEPT ![s] = "idle"]

RowExists(s) ==
  /\ pc[s] = "inserting"
  /\ ~RowLocked(s)
  /\ ~NoRow
  /\ LoserRollsBack(s)
  /\ UNCHANGED <<event_log, processed, summary, claim, seen, drift, faults>>

\* The projection commits its claim and its increment.
CommitIncrement(w) ==
  /\ w \in Workers
  /\ pc[w] = "locked"
  /\ summary' = [seen[w] EXCEPT ![event_log[claim[w]]] = @ + 1]
  /\ processed' = processed \cup {claim[w]}
  /\ pc' = [pc EXCEPT ![w] = "idle"]
  /\ UNCHANGED <<event_log, claim, seen, drift, faults>>

\* The rebuild replaces the counters; processed_events is not touched.
CommitReplace(a) ==
  /\ a \in Admins
  /\ pc[a] = "locked"
  /\ summary' = seen[a]
  /\ drift' = [f \in Fields |-> seen[a][f] - Tally(processed)[f]]
  /\ pc' = [pc EXCEPT ![a] = "idle"]
  /\ UNCHANGED <<event_log, processed, claim, seen, faults>>

\* A statement raises or the process dies.
Fails(s) ==
  /\ faults < MaxFaults
  /\ faults' = faults + 1
  /\ pc[s] # "idle"
  /\ pc' = [pc EXCEPT ![s] = "idle"]
  /\ UNCHANGED <<event_log, processed, summary, claim, seen, drift>>

GetRow(s) == LockRow(s) \/ MissRow(s) \/ InsertRow(s) \/ RowExists(s)

\* The rest of a transaction that has begun.
Finish(s) == GetRow(s) \/ CommitIncrement(s) \/ CommitReplace(s)

Next ==
  \/ \E f \in Fields \cup {Uncounted} : AppendEvent(f)
  \/ \E w \in Workers, e \in Counted : TryInsert(w, e)
  \/ \E a \in Admins : ListAll(a)
  \/ \E s \in Sessions : Finish(s) \/ Fails(s)

Project(e) == e \in Counted /\ \E w \in Workers : TryInsert(w, e)

\* An event is delivered until it is processed, and a transaction that has
\* begun goes on.  The row lock goes round: each INSERT or SELECT that waits
\* for it gets it in the end.
Spec ==
  /\ Init /\ [][Next]_vars
  /\ \A e \in 1..MaxEvents : SF_vars(Project(e))
  /\ \A s \in Sessions : SF_vars(Finish(s))

-----------------------------------------------------------------------------
\* What the row locks and the unique constraint are worth: at most one session
\* has the row, a worker that has it holds the counters as they are, and no two
\* transactions count the same event or one that is already counted.
TransactionsApart ==
  /\ \A s, t \in Sessions : pc[s] = "locked" /\ pc[t] = "locked" => s = t
  /\ \A w \in Workers :
       /\ pc[w] = "locked" => seen[w] = IF NoRow THEN Zero ELSE summary
       /\ pc[w] # "idle" => claim[w] \in Counted \ processed
  /\ \A v, w \in Workers : pc[v] # "idle" /\ pc[w] # "idle" /\ claim[v] = claim[w] => v = w

\* The invariant the others rest on.
SummaryInv == TypeOK /\ TransactionsApart

\* The summary is the tally of the projected events, off by what the last
\* rebuild was off and by nothing else: no increment is lost to another
\* projection, counted twice, or counted without its processed_events row.
\* drift stays zero where nobody rebuilds.
SummaryExplained ==
  IF NoRow THEN processed = {} /\ drift = Zero
           ELSE \A f \in Fields : summary[f] = Tally(processed)[f] + drift[f]

\* The promise of ReadModel, read off the committed tables.
Counters == IF NoRow THEN Zero ELSE summary

Model == INSTANCE ReadModel WITH summary <- Counters

\* Every commit counts one event once or puts in a count of the whole log as it
\* was when some rebuild read it; the race to insert the row, the transactions
\* that lose it and those that fail are not to be seen in the counters.
ImplementsReadModel == Model!Spec

\* Every event is eventually projected, whoever wins the races for the row.
EveryEventProjected ==
  \A e \in 1..MaxEvents : e \in Counted ~> e \in processed

\* The summary is consistent in the end, and so counts no event twice: once every
\* event is projected and nothing is under way, no counter is above the log.
NoEventCountedTwice ==
  (processed = Counted /\ \A s \in Sessions : pc[s] = "idle") =>
    \A f \in Fields : Counters[f] <= Tally(Events)[f]
=============================================================================
