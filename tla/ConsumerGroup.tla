--------------------------- MODULE ConsumerGroup ---------------------------
(***************************************************************************)
(* What a consumer group and its worker promise, with no stream positions, *)
(* reads, failure counts or processes: a copy of an event leaves the group *)
(* only done, or with a dead letter of its own, or with all the rest when  *)
(* Redis loses its data; what is done stays done.  StreamConsumer keeps    *)
(* this promise step by step, and it is all that Pipeline asks of a worker.*)
(***************************************************************************)
EXTENDS Integers

CONSTANT Events  \* the events the worker has something to do for

VARIABLES
  unacked,  \* unacked[e]: the copies of e the group has still to acknowledge
  done,     \* the events whose work is committed
  letters,  \* letters[e]: the dead letters of e
  redis     \* Redis is up

vars == <<unacked, done, letters, redis>>

Init ==
  /\ unacked = [e \in Events |-> 0]
  /\ done = {}
  /\ letters = [e \in Events |-> 0]
  /\ redis = TRUE

\* Copies are sent, or the group is created and finds them there.
Arrive ==
  /\ redis
  /\ unacked' \in [Events -> Nat]
  /\ \A e \in Events : unacked'[e] >= unacked[e]
  /\ UNCHANGED <<done, letters, redis>>

Ack(e) == redis /\ unacked' = [unacked EXCEPT ![e] = @ - 1]

Handle(e) ==
  /\ unacked[e] > 0
  /\ done' = done \cup {e}
  /\ Ack(e) \/ UNCHANGED unacked
  /\ UNCHANGED <<letters, redis>>

\* A further copy of an event that is done needs no letter; one whose ack was
\* carried out and reported as failed may get one all the same.
GiveUp(e) ==
  /\ letters' = [letters EXCEPT ![e] = @ + 1]
  /\ \/ unacked[e] > 0 /\ Ack(e)
     \/ (unacked[e] > 0 \/ e \in done) /\ UNCHANGED unacked
  /\ UNCHANGED <<done, redis>>

\* Redis stops, with its data or without them.
Stop ==
  /\ redis /\ ~redis'
  /\ UNCHANGED unacked \/ unacked' = [e \in Events |-> 0]
  /\ UNCHANGED <<done, letters>>

Start ==
  /\ ~redis /\ redis'
  /\ UNCHANGED <<unacked, done, letters>>

Next ==
  \/ Arrive \/ Stop \/ Start
  \/ \E e \in Events : Handle(e) \/ GiveUp(e)

Spec == Init /\ [][Next]_vars
=============================================================================
