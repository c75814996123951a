----------------------------- MODULE ReadModel -----------------------------
(***************************************************************************)
(* What the order summary promises, with no transactions, locks, races for *)
(* the row or failures: counters over the event log.  A projection counts  *)
(* one more event, once; a rebuild puts the counts of the log as it was at *)
(* some moment in their place, and leaves what is processed alone.         *)
(***************************************************************************)
EXTENDS Integers, FiniteSets, Sequences

CONSTANTS
  Fields,    \* the counters, each the field of one event type
  Uncounted  \* the event type no counter is for

VARIABLES
  event_log,  \* the field of each event
  processed,  \* the events that were projected
  summary     \* the counters

vars == <<event_log, processed, summary>>

CountsOf(S) == [f \in Fields |-> Cardinality({ e \in S : event_log[e] = f })]

Init ==
  /\ event_log = <<>>
  /\ processed = {}
  /\ summary = [f \in Fields |-> 0]

Happen ==
  /\ \E f \in Fields \cup {Uncounted} : event_log' = Append(event_log, f)
  /\ UNCHANGED <<processed, summary>>

Project(e) ==
  /\ e \notin processed
  /\ event_log[e] \in Fields
  /\ processed' = processed \cup {e}
  /\ summary' = [summary EXCEPT ![event_log[e]] = @ + 1]
  /\ UNCHANGED event_log

Rebuild ==
  /\ \E n \in 0..Len(event_log) : summary' = CountsOf(1..n)
  /\ UNCHANGED <<event_log, processed>>

Next == Happen \/ Rebuild \/ \E e \in DOMAIN event_log : Project(e)

Spec == Init /\ [][Next]_vars
=============================================================================
