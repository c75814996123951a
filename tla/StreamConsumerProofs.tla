----------------------- MODULE StreamConsumerProofs -----------------------
(***************************************************************************)
(* Safety of a worker, for any events, limits and bounds.  Typing and what *)
(* the worker has in hand are one inductive invariant, WorkInv; that       *)
(* nothing is acknowledged unsettled, that dead letters are earned and     *)
(* accounted for, and that a read takes all that is pending, follow step   *)
(* by step from it.                                                        *)
(***************************************************************************)
EXTENDS StreamConsumer, FiniteSetTheorems, WellFoundedInduction, TLAPS

USE ConsumerAssumption

\* A set of natural numbers that is not empty has a least element.
LEMMA LeastElement ==
  ASSUME NEW S \in SUBSET Nat, S # {}
  PROVE  \E m \in S : \A n \in S : m <= n
  <1> DEFINE R == OpToRel(<, Nat)
  <1>1. PICK m \in S : \A n \in S : ~(<<n, m>> \in R)
    BY NatLessThanWellFounded, WFMin
  <1>2. \A n \in Nat : n < m => <<n, m>> \in R
    BY DEF OpToRel
  <1> HIDE DEF R
  <1>3. \A n \in S : n \in Nat /\ m \in Nat /\ ~(n < m)
    BY <1>1, <1>2
  <1>4. \A n \in S : m <= n
    BY <1>3
  <1> QED
    BY <1>4

\* A read of a set of messages returns some of them, and some if there are any.
LEMMA FirstOfSet ==
  ASSUME NEW S \in SUBSET Nat
  PROVE  FirstOf(S) \subseteq S /\ (S # {} => FirstOf(S) # {})
  <1>1. ASSUME S # {}
        PROVE  FirstOf(S) # {}
    <2>1. PICK m \in S : \A n \in S : m <= n
      BY <1>1, LeastElement
    <2>2. { n \in S : n < m } = {}
      <3>1. \A n \in S : n \in Nat /\ m \in Nat /\ m <= n
        BY <2>1
      <3>2. \A n \in S : ~(n < m)
        BY <3>1
      <3> QED
        BY <3>2
    <2>3. Cardinality({ n \in S : n < m }) < Count
      BY <2>2, FS_EmptySet
    <2> QED
      BY <2>1, <2>3 DEF FirstOf
  <1> QED
    BY <1>1 DEF FirstOf

\* The loop is at one message at a time.
LEMMA OneCurrent ==
  ASSUME TypeOK, NEW m, Current(m)
  PROVE  /\ m \in batch /\ m \in Nat /\ stream[m] \in Events
         /\ m \in 1..delivered
         /\ \A n \in batch : Current(n) => n = m
  BY DEF TypeOK, Current

-----------------------------------------------------------------------------
\* AddMessage appends behind everything that was delivered.
LEMMA AddMessageInv ==
  ASSUME WorkInv, NEW e \in Events, AddMessage(e)
  PROVE  WorkInv'
  <1>1. /\ stream' \in Seq(Events)
        /\ Len(stream') = Len(stream) + 1
        /\ \A m \in 1..Len(stream) : stream'[m] = stream[m]
    BY DEF AddMessage, WorkInv, TypeOK
  <1>2. TypeOK'
    BY <1>1 DEF AddMessage, WorkInv, TypeOK, Steps
  <1>3. \A m \in batch : stream'[m] = stream[m]
    <2>1. batch \subseteq 1..Len(stream)
      BY DEF WorkInv, TypeOK
    <2> QED
      BY <1>1, <2>1
  <1>4. WorkInHand'
    BY <1>3 DEF AddMessage, WorkInv, WorkInHand, Current
  <1> QED
    BY <1>2, <1>4 DEF WorkInv

LEMMA ReadPendingInv ==
  ASSUME WorkInv, ReadPending
  PROVE  WorkInv'
  <1>1. pending \in SUBSET Nat
    BY DEF WorkInv, TypeOK
  <1>2. /\ batch' \subseteq pending
        /\ \/ pc' = "handle" /\ batch' # {}
           \/ pc' = "read_new" /\ batch' = {}
    BY <1>1, FirstOfSet DEF ReadPending, NextRead
  <1>3. UNCHANGED <<stream, delivered, pending, failures, processed, dead_letters, faults>>
    BY DEF ReadPending, NoFault
  <1>4. TypeOK'
    BY <1>2, <1>3 DEF WorkInv, TypeOK, Steps
  <1>5. WorkInHand'
    BY <1>2, <1>3 DEF WorkInv, WorkInHand
  <1> QED
    BY <1>4, <1>5 DEF WorkInv

LEMMA FaultFacts ==
  ASSUME TypeOK, Fault \/ NoFault
  PROVE  /\ faults' \in 0..MaxFaults
         /\ faults <= faults'
         /\ Fault => faults' = faults + 1
  BY DEF TypeOK, Fault, NoFault

\* All that XREADGROUP hands out is pending, whether the reply arrives or not.
LEMMA ReadNewInv ==
  ASSUME WorkInv, ReadNew
  PROVE  WorkInv'
  <1> DEFINE new == FirstOf((delivered + 1)..Len(stream))
  <1>1. new \subseteq (delivered + 1)..Len(stream)
    BY FirstOfSet DEF WorkInv, TypeOK
  <1>2. PICK last \in new : (\A m \in new : m <= last) /\ delivered' = last
    BY DEF ReadNew
  <1>3. /\ pending' = pending \cup new
        /\ UNCHANGED <<stream, failures, processed, dead_letters>>
        /\ Fault \/ NoFault
        /\ \/ batch' = new /\ pc' = "handle"
           \/ batch' = {} /\ pc' = "read_pending"
    BY DEF ReadNew
  <1> HIDE DEF new
  <1>4. faults' \in 0..MaxFaults /\ faults <= faults'
    BY <1>3, FaultFacts DEF WorkInv
  <1>5. delivered <= delivered' /\ new \subseteq 1..delivered' /\ delivered' \in 0..Len(stream)
    BY <1>1, <1>2 DEF WorkInv, TypeOK
  <1>6. TypeOK'
    <2>1. 1..delivered \subseteq 1..delivered'
      BY <1>5 DEF WorkInv, TypeOK
    <2>2. pending' \subseteq 1..delivered' /\ batch' \subseteq 1..delivered'
      BY <1>3, <1>5, <2>1 DEF WorkInv, TypeOK
    <2>3. pc' \in {"handle", "ack", "dead_letter", "dead_ack"} <=> batch' # {}
      BY <1>2, <1>3
    <2> QED
      BY <1>3, <1>4, <1>5, <2>2, <2>3 DEF WorkInv, TypeOK, Steps
  <1>7. WorkInHand'
    <2>1. \A e \in Events \ Poison : failures'[e] <= faults'
      BY <1>3, <1>4 DEF WorkInv, TypeOK, WorkInHand
    <2> QED
      BY <1>3, <2>1 DEF WorkInHand
  <1> QED
    BY <1>6, <1>7 DEF WorkInv

\* Steps that end with nothing in hand: the process ends, starts again, or a
\* read finds nothing.
LEMMA EmptyHandedInv ==
  ASSUME WorkInv, UNCHANGED <<stream, delivered>>,
         pending' \in SUBSET pending, batch' = {}, pc' \in {"stopped", "read_pending"},
         failures' = failures \/ failures' = [e \in Events |-> 0],
         processed' \in SUBSET Events, dead_letters' \in [Events -> Nat], Fault \/ NoFault
  PROVE  WorkInv'
  <1>1. faults' \in 0..MaxFaults /\ faults <= faults' /\ faults \in 0..MaxFaults
    BY FaultFacts DEF WorkInv, TypeOK
  <1>2. TypeOK'
    BY <1>1 DEF WorkInv, TypeOK, Steps
  <1>3. \A e \in Events \ Poison : failures'[e] <= faults'
    BY <1>1 DEF WorkInv, TypeOK, WorkInHand
  <1>4. WorkInHand'
    BY <1>3 DEF WorkInHand
  <1> QED
    BY <1>2, <1>4 DEF WorkInv

-----------------------------------------------------------------------------
\* The steps of the loop that go on with the next message.
LEMMA AdvanceInv ==
  ASSUME WorkInv, NEW m, Current(m), Advance(m), UNCHANGED <<stream, delivered>>,
         pending' \in {pending, pending \ {m}},
         failures' \in [Events -> Nat], \A e \in Events \ Poison : failures'[e] <= faults',
         processed' \in SUBSET Events, dead_letters' \in [Events -> Nat],
         faults' \in 0..MaxFaults
  PROVE  WorkInv'
  <1>1. /\ m \in batch
        /\ \A n \in batch : n # m => ~Current(n)
    BY OneCurrent DEF WorkInv
  <1>2. /\ batch' = batch \ {m}
        /\ \/ pc' = "read_pending" /\ batch' = {}
           \/ pc' = "handle" /\ batch' # {}
    BY <1>1 DEF Advance
  <1>3. TypeOK'
    BY <1>2 DEF WorkInv, TypeOK, Steps
  <1>4. \A n \in batch' : n \in pending'
    BY <1>1, <1>2 DEF WorkInv, WorkInHand
  <1>5. WorkInHand'
    BY <1>2, <1>4 DEF WorkInHand
  <1> QED
    BY <1>3, <1>5 DEF WorkInv

\* The steps that stay with the current message.
LEMMA StayInv ==
  ASSUME WorkInv, NEW m, Current(m), UNCHANGED <<stream, delivered, batch>>,
         pc' \in {"ack", "dead_letter", "dead_ack"},
         pending' \in {pending, pending \ {m}},
         m \in pending' \/ (pc' # "ack" /\ stream[m] \in processed' \cup Ignored),
         failures' \in [Events -> Nat], \A e \in Events \ Poison : failures'[e] <= faults',
         processed' \in SUBSET Events, dead_letters' \in [Events -> Nat],
         faults' \in 0..MaxFaults,
         pc' = "ack" => stream[m] \in processed' \cup Ignored,
         pc' = "dead_letter" => failures'[stream[m]] >= MaxFailures,
         pc' = "dead_ack" => dead_letters'[stream[m]] > 0
  PROVE  WorkInv'
  <1>1. m \in batch /\ \A n \in batch : Current(n) => n = m
    BY OneCurrent DEF WorkInv
  <1>2. TypeOK'
    BY <1>1 DEF WorkInv, TypeOK, Steps
  <1>3. \A n : Current(n)' <=> Current(n)
    BY DEF Current
  <1>4. \A n \in batch : n # m => n \in pending
    BY <1>1 DEF WorkInv, WorkInHand
  <1>5. WorkInHand'
    BY <1>1, <1>3, <1>4 DEF WorkInHand
  <1> QED
    BY <1>2, <1>5 DEF WorkInv

\* Counting a failure of an event: it is poison or a fault has happened.
LEMMA CountFailureInv ==
  ASSUME WorkInv, NEW m, Current(m), CountFailure(m), UNCHANGED <<stream, delivered>>,
         pending' \in {pending, pending \ {m}},
         m \in pending' \/ stream[m] \in processed' \cup Ignored,
         (stream[m] \in Poison /\ NoFault) \/ Fault,
         processed' \in SUBSET Events, dead_letters' = dead_letters
  PROVE  WorkInv'
  <1> DEFINE n == failures[stream[m]] + 1
  <1>1. stream[m] \in Events
    BY OneCurrent DEF WorkInv
  <1>2. /\ failures \in [Events -> Nat] /\ faults \in Nat
        /\ dead_letters \in [Events -> Nat]
    BY DEF WorkInv, TypeOK
  <1>3. /\ failures' = [failures EXCEPT ![stream[m]] = n]
        /\ \/ GivesUp(n) /\ pc' = "dead_letter" /\ UNCHANGED batch
           \/ Advance(m)
    BY DEF CountFailure
  <1>4. faults' \in 0..MaxFaults /\ faults <= faults' /\ (Fault => faults' = faults + 1)
    BY FaultFacts DEF WorkInv
  <1>5. failures' \in [Events -> Nat] /\ failures'[stream[m]] = n
    BY <1>1, <1>2, <1>3
  <1>6. \A e \in Events \ Poison : failures'[e] <= faults'
    <2>1. \A e \in Events \ Poison : failures[e] <= faults
      BY DEF WorkInv, WorkInHand
    <2> QED
      BY <1>1, <1>2, <1>3, <1>4, <2>1
  <1>7. CASE Advance(m)
    BY <1>2, <1>4, <1>5, <1>6, <1>7, AdvanceInv
  <1>8. CASE GivesUp(n) /\ pc' = "dead_letter" /\ UNCHANGED batch
    <2>1. failures'[stream[m]] >= MaxFailures
      BY <1>5, <1>8 DEF GivesUp
    <2> QED
      BY <1>2, <1>4, <1>5, <1>6, <1>8, <2>1, StayInv
  <1> QED
    BY <1>3, <1>7, <1>8

\* Where the loop is at a call, the current message is pending and an XACK
\* follows settled work.
LEMMA AtCall ==
  ASSUME WorkInv, NEW m, Current(m)
  PROVE  /\ pc \in {"handle", "ack"} => m \in pending
         /\ pc = "ack" => stream[m] \in processed \cup Ignored
         /\ pc \in {"dead_letter", "dead_ack"} =>
              m \in pending \/ stream[m] \in processed \cup Ignored
         /\ pc = "dead_letter" => failures[stream[m]] >= MaxFailures
         /\ pc = "dead_ack" => dead_letters[stream[m]] > 0
         /\ stream[m] \in Events /\ m \in 1..delivered
  BY OneCurrent DEF WorkInv, WorkInHand

\* What the handlers write.
LEMMA Effects ==
  ASSUME WorkInv, NEW m, Current(m)
  PROVE  /\ Handled(stream[m]) \in SUBSET Events
         /\ processed \subseteq Handled(stream[m])
         /\ stream[m] \in Handled(stream[m]) \cup Ignored
         /\ OneMore(stream[m]) \in [Events -> Nat]
         /\ OneMore(stream[m])[stream[m]] > 0
         /\ \A e \in Events : OneMore(stream[m])[e] >= dead_letters[e]
         /\ \A e \in Events : e # stream[m] => OneMore(stream[m])[e] = dead_letters[e]
  <1>1. stream[m] \in Events
    BY OneCurrent DEF WorkInv
  <1> QED
    BY <1>1 DEF WorkInv, TypeOK, Handled, OneMore

\* Failures cleared, or left as they are while no fault is forgotten.
LEMMA Cleared ==
  ASSUME WorkInv, NEW m, Current(m), NEW g \in [Events -> Nat],
         g = failures \/ g = [failures EXCEPT ![stream[m]] = 0]
  PROVE  \A e \in Events \ Poison : g[e] <= faults
  <1>1. stream[m] \in Events
    BY OneCurrent DEF WorkInv
  <1>2. failures \in [Events -> Nat] /\ faults \in Nat
    BY DEF WorkInv, TypeOK
  <1>3. \A e \in Events \ Poison : failures[e] <= faults
    BY DEF WorkInv, WorkInHand
  <1> QED
    BY <1>1, <1>2, <1>3

LEMMA HandleCurrentInv ==
  ASSUME WorkInv, NEW m, HandleCurrent(m)
  PROVE  WorkInv'
  <1>1. Current(m)
    BY DEF HandleCurrent
  <1>2. /\ failures \in [Events -> Nat] /\ dead_letters \in [Events -> Nat]
        /\ processed \in SUBSET Events
        /\ faults \in 0..MaxFaults
    BY DEF WorkInv, TypeOK
  <1>3. stream[m] \in Events
    BY <1>1, AtCall
  <1> DEFINE clear == [failures EXCEPT ![stream[m]] = 0]
  <1>4. /\ clear \in [Events -> Nat]
        /\ \A e \in Events \ Poison : failures[e] <= faults
        /\ \A e \in Events \ Poison : clear[e] <= faults
    BY <1>1, <1>2, <1>3, Cleared
  <1>5. CASE HandlerReturns(m)
    <2>1. m \in pending /\ Handled(stream[m]) \in SUBSET Events
      BY <1>1, <1>5, AtCall, Effects DEF HandlerReturns
    <2>2. stream[m] \in Handled(stream[m]) \cup Ignored
      BY <1>1, Effects
    <2> QED
      BY <1>1, <1>2, <1>4, <1>5, <2>1, <2>2, StayInv DEF HandlerReturns, NoFault
  <1>6. CASE HandlerRaises(m)
    <2>1. m \in pending /\ Handled(stream[m]) \in SUBSET Events
      BY <1>1, <1>6, AtCall, Effects DEF HandlerRaises
    <2> QED
      BY <1>1, <1>2, <1>6, <2>1, CountFailureInv DEF HandlerRaises
  <1>7. CASE Ack(m)
    BY <1>1, <1>2, <1>4, <1>7, AdvanceInv DEF Ack, ClearFailures, NoFault
  <1>8. CASE AckRaises(m)
    <2>1. stream[m] \in processed \cup Ignored
      BY <1>1, <1>8, AtCall DEF AckRaises
    <2> QED
      BY <1>1, <1>2, <1>8, <2>1, CountFailureInv DEF AckRaises
  <1>9. CASE DeadLetter(m)
    <2>1. m \in pending \/ stream[m] \in processed \cup Ignored
      BY <1>1, <1>9, AtCall DEF DeadLetter
    <2>2. OneMore(stream[m]) \in [Events -> Nat] /\ OneMore(stream[m])[stream[m]] > 0
      BY <1>1, Effects
    <2> QED
      BY <1>1, <1>2, <1>4, <1>9, <2>1, <2>2, StayInv DEF DeadLetter, NoFault
  <1>10. CASE DeadLetterRaises(m)
    <2>1. OneMore(stream[m]) \in [Events -> Nat]
      BY <1>1, Effects
    <2> QED
      BY <1>2, <1>10, <2>1, EmptyHandedInv DEF DeadLetterRaises, Stop
  <1>11. CASE DeadAck(m)
    BY <1>1, <1>2, <1>4, <1>11, AdvanceInv
       DEF DeadAck, ClearFailures, PendingAfterDeadLetter, NoFault
  <1>12. CASE DeadAckRaises(m)
    BY <1>2, <1>12, EmptyHandedInv DEF DeadAckRaises
  <1> QED
    BY <1>5, <1>6, <1>7, <1>8, <1>9, <1>10, <1>11, <1>12 DEF HandleCurrent

LEMMA ConsumerStep ==
  ASSUME WorkInv, [Next]_vars
  PROVE  WorkInv'
  <1>1. CASE UNCHANGED vars
    BY <1>1 DEF vars, WorkInv, TypeOK, WorkInHand, Current
  <1>2. ASSUME NEW e \in Events, AddMessage(e)
        PROVE  WorkInv'
    BY <1>2, AddMessageInv
  <1>3. CASE ReadPending \/ ReadNew
    BY <1>3, ReadPendingInv, ReadNewInv
  <1>4. ASSUME NEW m, HandleCurrent(m)
        PROVE  WorkInv'
    BY <1>4, HandleCurrentInv
  <1>5. CASE ReadNothing \/ Restart \/ Crash
    <2>1. pc \in {"read_new", "stopped"} => batch = {}
      BY DEF WorkInv, TypeOK
    <2>2. processed \in SUBSET Events /\ dead_letters \in [Events -> Nat]
      BY DEF WorkInv, TypeOK
    <2> QED
      BY <1>5, <2>1, <2>2, EmptyHandedInv DEF ReadNothing, Restart, Crash, Stop
  <1> QED
    BY <1>1, <1>2, <1>3, <1>4, <1>5 DEF Next, Consume

\* What a worker has in hand is pending, and every XACK follows its work.
THEOREM WorkSound == Spec => []WorkInv
  <1>1. Init => WorkInv
    BY DEF Init, WorkInv, TypeOK, WorkInHand, Steps
  <1> QED
    BY <1>1, ConsumerStep, PTL DEF Spec

-----------------------------------------------------------------------------
(***************************************************************************)
(* What is settled stays settled, and only settled messages leave the      *)
(* pending list.                                                           *)
(***************************************************************************)
LEMMA SettledStays ==
  ASSUME WorkInv, [Next]_vars, NEW e \in Events, Settled(e)
  PROVE  Settled(e)'
  <1>1. /\ processed \subseteq processed'
        /\ \A d \in Events : dead_letters[d] > 0 => dead_letters'[d] > 0
    <2>1. CASE UNCHANGED <<processed, dead_letters>>
      BY <2>1 DEF WorkInv, TypeOK
    <2>2. ASSUME NEW m, HandleCurrent(m)
          PROVE  /\ processed \subseteq processed'
                 /\ \A d \in Events : dead_letters[d] > 0 => dead_letters'[d] > 0
      <3>1. /\ processed' \in {processed, Handled(stream[m])}
            /\ dead_letters' \in {dead_letters, OneMore(stream[m])}
        BY <2>2 DEF HandleCurrent, HandlerReturns, HandlerRaises, Ack, AckRaises, DeadLetter,
                    DeadLetterRaises, DeadAck, DeadAckRaises
      <3>2. dead_letters \in [Events -> Nat]
        BY DEF WorkInv, TypeOK
      <3> QED
        BY <2>2, <3>1, <3>2, Effects DEF HandleCurrent
    <2>3. CASE \E m : HandleCurrent(m)
      BY <2>2, <2>3
    <2> QED
      BY <2>1, <2>3 DEF Next, Consume, AddMessage, ReadPending, ReadNew, ReadNothing, Restart,
                        Crash, vars
  <1> QED
    BY <1>1 DEF Settled

\* A message that is not pending after a step was delivered and not pending
\* before, or is the current one of an XACK whose work is done.
LEMMA OnlySettledLeave ==
  ASSUME WorkInv, [Next]_vars, NEW m \in 1..delivered' \ pending'
  PROVE  \/ m \in 1..delivered \ pending
         \/ Current(m) /\ Settled(stream[m])
  <1>1. delivered \in 0..Len(stream) /\ m \in Nat
    BY DEF WorkInv, TypeOK
  <1>2. CASE UNCHANGED <<delivered, pending>>
    BY <1>2
  <1>3. CASE ReadNew
    <2> DEFINE new == FirstOf((delivered + 1)..Len(stream))
    <2>1. PICK last \in new : delivered' = last
      BY <1>3 DEF ReadNew
    <2>2. pending' = pending \cup new
      BY <1>3 DEF ReadNew
    <2>3. last \in (delivered + 1)..Len(stream)
      BY <1>1, <2>1, FirstOfSet
    <2>4. ASSUME m > delivered
          PROVE  m \in new
      <3>1. m \in (delivered + 1)..Len(stream) /\ m <= last
        BY <1>1, <2>1, <2>3, <2>4
      <3> DEFINE S(k) == { n \in (delivered + 1)..Len(stream) : n < k }
      <3>2. IsFiniteSet(S(last)) /\ S(m) \subseteq S(last)
        <4>1. IsFiniteSet((delivered + 1)..Len(stream))
          BY <1>1, FS_Interval
        <4>2. S(last) \subseteq (delivered + 1)..Len(stream)
          OBVIOUS
        <4>3. S(m) \subseteq S(last)
          BY <1>1, <2>3, <3>1
        <4> QED
          BY <4>1, <4>2, <4>3, FS_Subset
      <3>3. Cardinality(S(last)) < Count
        BY <2>1 DEF FirstOf
      <3>4. /\ Cardinality(S(m)) <= Cardinality(S(last))
            /\ Cardinality(S(m)) \in Nat /\ Cardinality(S(last)) \in Nat
        BY <3>2, FS_Subset, FS_CardinalityType
      <3>5. Cardinality(S(m)) < Count
        BY <3>3, <3>4
      <3> QED
        BY <3>1, <3>5 DEF FirstOf
    <2> QED
      BY <1>1, <2>1, <2>2, <2>4
  <1>4. ASSUME NEW n, HandleCurrent(n)
        PROVE  \/ m \in 1..delivered \ pending
               \/ Current(m) /\ Settled(stream[m])
    <2>1. Current(n) /\ delivered' = delivered
      BY <1>4 DEF HandleCurrent, HandlerReturns, HandlerRaises, Ack, AckRaises, DeadLetter,
                  DeadLetterRaises, DeadAck, DeadAckRaises
    <2>2. \/ pending' = pending
          \/ pending' = pending \ {n} /\ pc \in {"ack", "dead_ack"}
      BY <1>4 DEF HandleCurrent, HandlerReturns, HandlerRaises, Ack, AckRaises, DeadLetter,
                  DeadLetterRaises, DeadAck, DeadAckRaises, PendingAfterDeadLetter
    <2>3. pc \in {"ack", "dead_ack"} => Settled(stream[n])
      BY <2>1, AtCall DEF Settled
    <2> QED
      BY <2>1, <2>2, <2>3
  <1>5. CASE \E n : HandleCurrent(n)
    BY <1>4, <1>5
  <1> QED
    BY <1>2, <1>3, <1>5 DEF Next, Consume, AddMessage, ReadPending, ReadNothing, Restart,
                             Crash, vars

LEMMA AckedStep ==
  ASSUME WorkInv, AckedIsSettled, [Next]_vars
  PROVE  AckedIsSettled'
  <1> SUFFICES ASSUME NEW m \in 1..delivered' \ pending'
               PROVE  Settled(stream[m])'
    BY DEF AckedIsSettled, Acked
  <1>1. m \in 1..delivered /\ Settled(stream[m])
    BY OnlySettledLeave, OneCurrent DEF AckedIsSettled, Acked, WorkInv
  <1>2. stream[m] \in Events /\ stream'[m] = stream[m]
    <2>1. stream \in Seq(Events) /\ m \in 1..Len(stream)
      BY <1>1 DEF WorkInv, TypeOK
    <2>2. stream' = stream \/ \E e \in Events : stream' = Append(stream, e)
      BY DEF Next, Consume, HandleCurrent, AddMessage, ReadPending, ReadNew, ReadNothing, Restart,
             Crash, HandlerReturns, HandlerRaises, Ack, AckRaises, DeadLetter, DeadLetterRaises,
             DeadAck, DeadAckRaises, vars
    <2> QED
      BY <2>1, <2>2
  <1>3. ASSUME NEW e \in Events, e = stream[m]
        PROVE  Settled(e)'
    BY <1>1, <1>3, SettledStays
  <1> QED
    BY <1>2, <1>3 DEF Settled

\* No message is acknowledged before its event is processed, known to need no
\* work, or dead-lettered.
THEOREM NoWorkSkipped == Spec => []AckedIsSettled
  <1>1. Init => AckedIsSettled
    BY DEF Init, AckedIsSettled, Acked
  <1> QED
    BY <1>1, AckedStep, WorkSound, PTL DEF Spec

\* The two together: nothing leaves the group without its work or its letter,
\* and at every call the loop is right in what it takes for granted.
THEOREM LoopSound == Spec => []ConsumerInv
  BY WorkSound, NoWorkSkipped, PTL DEF ConsumerInv

-----------------------------------------------------------------------------
\* A dead letter is written after MaxFailures failures, and an event whose
\* handler can succeed has no more failures than there were faults.
LEMMA DeadLettersStep ==
  ASSUME WorkInv, DeadLettersNeedFaults, [Next]_vars
  PROVE  DeadLettersNeedFaults'
  <1>1. faults \in Nat /\ faults' \in Nat /\ faults <= faults'
    <2>1. faults' = faults \/ faults' = faults + 1
      BY DEF Next, Consume, HandleCurrent, AddMessage, ReadPending, ReadNew, ReadNothing, Restart,
             Crash, HandlerReturns, HandlerRaises, Ack, AckRaises, DeadLetter, DeadLetterRaises,
             DeadAck, DeadAckRaises, vars, Fault, NoFault
    <2> QED
      BY <2>1 DEF WorkInv, TypeOK
  <1>2. CASE UNCHANGED dead_letters
    BY <1>1, <1>2 DEF DeadLettersNeedFaults
  <1>3. ASSUME NEW m, Current(m), pc = "dead_letter", dead_letters' = OneMore(stream[m])
        PROVE  DeadLettersNeedFaults'
    <2>1. stream[m] \in Events /\ failures[stream[m]] >= MaxFailures
      BY <1>3, AtCall
    <2>2. failures \in [Events -> Nat]
      BY DEF WorkInv, TypeOK
    <2>3. \A e \in Events \ Poison : failures[e] <= faults
      BY DEF WorkInv, WorkInHand
    <2>4. stream[m] \notin Poison => faults >= MaxFailures
      BY <1>1, <2>1, <2>2, <2>3
    <2>5. \A e \in Events : e # stream[m] => dead_letters'[e] = dead_letters[e]
      BY <1>3, Effects
    <2> QED
      BY <1>1, <2>1, <2>4, <2>5 DEF DeadLettersNeedFaults
  <1> QED
    BY <1>2, <1>3 DEF Next, Consume, HandleCurrent, AddMessage, ReadPending, ReadNew, ReadNothing,
             Restart, Crash, HandlerReturns, HandlerRaises, Ack, AckRaises, DeadLetter,
             DeadLetterRaises, DeadAck, DeadAckRaises, vars

\* An event whose handler can succeed is dead-lettered only after MaxFailures
\* faults.
THEOREM DeadLettersEarned == Spec => []DeadLettersNeedFaults
  <1>1. Init => DeadLettersNeedFaults
    BY DEF Init, DeadLettersNeedFaults
  <1> QED
    BY <1>1, DeadLettersStep, WorkSound, PTL DEF Spec

-----------------------------------------------------------------------------
(***************************************************************************)
(* Counting.  One read returns at most Count messages, and new ones are    *)
(* asked for only when none is pending.                                    *)
(***************************************************************************)
NewOnlyWhenNonePends ==
  /\ pc = "read_new" => pending = {}
  /\ PendingFitsOneRead

\* A read of an interval of the stream returns at most Count messages.
LEMMA ReadIsBounded ==
  ASSUME NEW a \in Nat, NEW b \in Nat
  PROVE  IsFiniteSet(FirstOf(a..b)) /\ Cardinality(FirstOf(a..b)) <= Count
  <1> DEFINE window == a..(a + Count - 1)
  <1>1. IsFiniteSet(window) /\ Cardinality(window) = Count
    BY FS_Interval
  <1>2. ASSUME NEW m \in FirstOf(a..b)
        PROVE  m \in window
    <2>1. m \in a..b /\ Cardinality({ n \in a..b : n < m }) < Count
      BY <1>2 DEF FirstOf
    <2>2. { n \in a..b : n < m } = a..(m - 1)
      BY <2>1
    <2>3. m \in Int /\ m - 1 \in Int /\ a \in Int /\ a <= m
      BY <2>1
    <2>4. Cardinality(a..(m - 1)) = IF a > m - 1 THEN 0 ELSE (m - 1) - a + 1
      BY <2>3, FS_Interval
    <2>5. (IF a > m - 1 THEN 0 ELSE (m - 1) - a + 1) = m - a
      BY <2>3
    <2>6. m - a < Count
      BY <2>1, <2>2, <2>4, <2>5
    <2> QED
      BY <2>3, <2>6
  <1>3. FirstOf(a..b) \in SUBSET window
    BY <1>2
  <1> QED
    BY <1>1, <1>3, FS_Subset

LEMMA PendingStep ==
  ASSUME WorkInv, NewOnlyWhenNonePends, [Next]_vars
  PROVE  NewOnlyWhenNonePends'
  <1>1. IsFiniteSet(pending) /\ Cardinality(pending) \in Nat
    <2>1. delivered \in Nat /\ pending \in SUBSET (1..delivered)
      BY DEF WorkInv, TypeOK
    <2>2. IsFiniteSet(1..delivered)
      BY <2>1, FS_Interval
    <2>3. IsFiniteSet(pending)
      BY <2>1, <2>2, FS_Subset
    <2> QED
      BY <2>3, FS_CardinalityType
  <1>2. ASSUME pending' \subseteq pending, pc' = "read_new" => pending' = {}
        PROVE  NewOnlyWhenNonePends'
    <2>1. IsFiniteSet(pending') /\ Cardinality(pending') <= Cardinality(pending)
      BY <1>1, <1>2, FS_Subset
    <2>2. Cardinality(pending') \in Nat
      BY <2>1, FS_CardinalityType
    <2> QED
      BY <1>1, <1>2, <2>1, <2>2 DEF NewOnlyWhenNonePends, PendingFitsOneRead
  <1>3. CASE ReadNew
    <2> DEFINE new == FirstOf((delivered + 1)..Len(stream))
    <2>1. pending' = {} \cup new /\ pc' # "read_new"
      BY <1>3 DEF ReadNew, NewOnlyWhenNonePends
    <2>2. delivered + 1 \in Nat /\ Len(stream) \in Nat
      BY DEF WorkInv, TypeOK
    <2>3. Cardinality(new) <= Count
      BY <2>2, ReadIsBounded
    <2> QED
      BY <2>1, <2>3 DEF NewOnlyWhenNonePends, PendingFitsOneRead
  <1>4. CASE ReadPending
    BY <1>2, <1>4 DEF ReadPending, NextRead
  <1>5. ASSUME NEW m, HandleCurrent(m)
        PROVE  NewOnlyWhenNonePends'
    <2>1. pc' # "read_new"
      BY <1>5 DEF HandleCurrent, HandlerReturns, HandlerRaises, Ack, AckRaises, DeadLetter,
                  DeadLetterRaises, DeadAck, DeadAckRaises, Advance, CountFailure, Stop
    <2>2. pending' \subseteq pending
      BY <1>5 DEF HandleCurrent, HandlerReturns, HandlerRaises, Ack, AckRaises, DeadLetter,
                  DeadLetterRaises, DeadAck, DeadAckRaises, PendingAfterDeadLetter
    <2> QED
      BY <1>2, <2>1, <2>2
  <1>6. CASE UNCHANGED pending /\ (pc' # "read_new" \/ pc' = pc)
    BY <1>2, <1>6 DEF NewOnlyWhenNonePends
  <1> QED
    BY <1>3, <1>4, <1>5, <1>6 DEF Next, Consume, AddMessage, ReadNothing, Restart, Crash, Stop, vars

\* Whatever is pending fits one read of the pending list (run_once).
THEOREM NothingHidden == Spec => []PendingFitsOneRead
  <1>1. Init => NewOnlyWhenNonePends
    <2>1. Cardinality({}) <= Count
      BY FS_EmptySet
    <2> QED
      BY <2>1 DEF Init, NewOnlyWhenNonePends, PendingFitsOneRead
  <1>2. NewOnlyWhenNonePends => PendingFitsOneRead
    BY DEF NewOnlyWhenNonePends
  <1> QED
    BY <1>1, <1>2, PendingStep, WorkSound, PTL DEF Spec

-----------------------------------------------------------------------------
(***************************************************************************)
(* The account of the dead letters of an event: each has an acknowledged   *)
(* copy of the event or a fault to show for it, or is that of the message  *)
(* in hand, which is about to be acknowledged.  When the message in hand   *)
(* has left the pending list through an XACK that raised, it is such a     *)
(* copy already, and the fault pays for the dead letter about to be        *)
(* written.                                                                *)
(***************************************************************************)
AckedCopies(e) == { m \in 1..delivered \ pending : stream[m] = e }

AtDeadAck(e) ==
  pc = "dead_ack" /\ \E m \in pending : Current(m) /\ stream[m] = e

AckedAlready(e) ==
  pc = "dead_letter" /\ \E m \in batch \ pending : Current(m) /\ stream[m] = e

Paid(e) == Cardinality(AckedCopies(e)) + faults

Account(e) ==
  /\ dead_letters[e] <= Paid(e) + (IF AtDeadAck(e) THEN 1 ELSE 0)
  /\ AckedAlready(e) => dead_letters[e] + 1 <= Paid(e)

LEMMA CopiesFinite ==
  ASSUME WorkInv, NEW e \in Events
  PROVE  /\ IsFiniteSet(AckedCopies(e)) /\ Cardinality(AckedCopies(e)) \in Nat
         /\ faults \in Nat /\ dead_letters[e] \in Nat /\ Paid(e) \in Nat
  <1>1. delivered \in Nat /\ faults \in Nat /\ dead_letters[e] \in Nat
    BY DEF WorkInv, TypeOK
  <1>2. IsFiniteSet(1..delivered)
    BY <1>1, FS_Interval
  <1>3. AckedCopies(e) \in SUBSET (1..delivered)
    BY DEF AckedCopies
  <1>4. IsFiniteSet(AckedCopies(e))
    BY <1>2, <1>3, FS_Subset
  <1>5. Cardinality(AckedCopies(e)) \in Nat
    BY <1>4, FS_CardinalityType
  <1> QED
    BY <1>1, <1>4, <1>5 DEF Paid

LEMMA CopiesFiniteNext ==
  ASSUME WorkInv', NEW e \in Events
  PROVE  /\ IsFiniteSet(AckedCopies(e)') /\ Cardinality(AckedCopies(e)') \in Nat
         /\ faults' \in Nat /\ Paid(e)' \in Nat
  <1>1. delivered' \in Nat /\ faults' \in Nat
    BY DEF WorkInv, TypeOK
  <1> DEFINE d == delivered'
             C == AckedCopies(e)'
  <1>2. d \in Int /\ C \in SUBSET (1..d)
    BY <1>1 DEF AckedCopies
  <1>3. Paid(e)' = Cardinality(C) + faults'
    BY DEF Paid
  <1> HIDE DEF d, C
  <1>4. IsFiniteSet(1..d)
    BY <1>2, FS_Interval
  <1>5. IsFiniteSet(C)
    BY <1>2, <1>4, FS_Subset
  <1>6. Cardinality(C) \in Nat
    BY <1>5, FS_CardinalityType
  <1> QED
    BY <1>1, <1>3, <1>5, <1>6 DEF C

\* What was acknowledged stays so: its messages keep their events and never
\* become pending again.
LEMMA CopiesStay ==
  ASSUME WorkInv, [Next]_vars, NEW e \in Events
  PROVE  /\ AckedCopies(e) \subseteq AckedCopies(e)'
         /\ \A m \in 1..delivered : stream'[m] = stream[m]
  <1>1. delivered \in 0..Len(stream) /\ stream \in Seq(Events) /\ Len(stream) \in Nat
    BY DEF WorkInv, TypeOK
  <1>2. \A m \in 1..delivered : stream'[m] = stream[m]
    <2>1. stream' = stream \/ \E d \in Events : stream' = Append(stream, d)
      BY DEF Next, Consume, HandleCurrent, AddMessage, ReadPending, ReadNew, ReadNothing, Restart,
             Crash, HandlerReturns, HandlerRaises, Ack, AckRaises, DeadLetter, DeadLetterRaises,
             DeadAck, DeadAckRaises, vars
    <2> QED
      BY <1>1, <2>1
  <1>3. 1..delivered \ pending \subseteq 1..delivered' \ pending'
    <2>1. CASE ReadNew
      <3> DEFINE new == FirstOf((delivered + 1)..Len(stream))
      <3>1. new \subseteq (delivered + 1)..Len(stream)
        BY <1>1, FirstOfSet
      <3>2. PICK last \in new : delivered' = last
        BY <2>1 DEF ReadNew
      <3>3. pending' = pending \cup new
        BY <2>1 DEF ReadNew
      <3> HIDE DEF new
      <3> QED
        BY <1>1, <3>1, <3>2, <3>3
    <2>2. CASE delivered' = delivered /\ pending' \subseteq pending
      BY <2>2
    <2>3. ASSUME NEW m, HandleCurrent(m)
          PROVE  delivered' = delivered /\ pending' \subseteq pending
      BY <2>3 DEF HandleCurrent, HandlerReturns, HandlerRaises, Ack, AckRaises, DeadLetter,
                  DeadLetterRaises, DeadAck, DeadAckRaises, PendingAfterDeadLetter
    <2> QED
      BY <2>1, <2>2, <2>3 DEF Next, Consume, AddMessage, ReadPending, ReadNothing, Restart,
                              Crash, vars
  <1> QED
    BY <1>2, <1>3 DEF AckedCopies

\* What a step pays: never less, and one more for a fault and for a copy that
\* leaves the pending list.
LEMMA Pays ==
  ASSUME WorkInv, WorkInv', [Next]_vars, NEW e \in Events
  PROVE  /\ Paid(e) + (faults' - faults) <= Paid(e)'
         /\ \A m \in pending \ pending' :
              stream[m] = e => Paid(e) + (faults' - faults) + 1 <= Paid(e)'
  <1> DEFINE C == AckedCopies(e)
             D == AckedCopies(e)'
  <1>1. C \subseteq D /\ \A m \in 1..delivered : stream'[m] = stream[m]
    BY CopiesStay
  <1>2. /\ IsFiniteSet(C) /\ Cardinality(C) \in Nat /\ faults \in Nat
    BY CopiesFinite
  <1>3. /\ IsFiniteSet(D) /\ Cardinality(D) \in Nat /\ faults' \in Nat
    BY CopiesFiniteNext
  <1>4. Cardinality(C) <= Cardinality(D)
    BY <1>1, <1>3, FS_Subset
  <1>5. ASSUME NEW m \in pending \ pending', stream[m] = e
        PROVE  Cardinality(C) + 1 <= Cardinality(D)
    <2>1. m \in 1..delivered
      BY DEF WorkInv, TypeOK
    <2>2. delivered \in Nat /\ delivered' \in Nat /\ delivered <= delivered'
      <3>1. delivered' = delivered
        BY <1>5 DEF Next, Consume, HandleCurrent, AddMessage, ReadPending, ReadNew, ReadNothing,
             Restart, Crash, HandlerReturns, HandlerRaises, Ack, AckRaises, DeadLetter,
             DeadLetterRaises, DeadAck, DeadAckRaises, vars
      <3> QED
        BY <3>1 DEF WorkInv, TypeOK
    <2>3. m \in D /\ m \notin C
      BY <1>1, <1>5, <2>1, <2>2 DEF AckedCopies
    <2>4. C \cup {m} \in SUBSET D
      BY <1>1, <2>3
    <2>5. Cardinality(C \cup {m}) = Cardinality(C) + 1
      BY <1>2, <2>3, FS_AddElement
    <2>6. Cardinality(C \cup {m}) <= Cardinality(D)
      BY <1>3, <2>4, FS_Subset
    <2> QED
      BY <2>5, <2>6
  <1>6. Paid(e) = Cardinality(C) + faults /\ Paid(e)' = Cardinality(D) + faults'
    BY DEF Paid
  <1> HIDE DEF C, D
  <1> QED
    BY <1>2, <1>3, <1>4, <1>5, <1>6

\* A step that writes no dead letter keeps the account if the message in hand
\* is not about to be acknowledged, or if the step pays for it.
LEMMA NothingWritten ==
  ASSUME WorkInv, WorkInv', [Next]_vars, NEW e \in Events, Account(e),
         dead_letters'[e] = dead_letters[e],
         \/ ~AtDeadAck(e)
         \/ Paid(e) + 1 <= Paid(e)',
         AckedAlready(e)' => Paid(e) + 1 <= Paid(e)' /\ ~AtDeadAck(e)
  PROVE  Account(e)'
  <1>1. /\ dead_letters[e] \in Nat /\ Paid(e) \in Nat /\ faults \in Nat
    BY CopiesFinite
  <1>2. Paid(e)' \in Nat /\ Paid(e) <= Paid(e)'
    <2>1. faults' \in Nat /\ faults <= faults'
      <3>1. faults' = faults \/ faults' = faults + 1
        BY DEF Next, Consume, HandleCurrent, AddMessage, ReadPending, ReadNew, ReadNothing, Restart,
               Crash, HandlerReturns, HandlerRaises, Ack, AckRaises, DeadLetter, DeadLetterRaises,
               DeadAck, DeadAckRaises, vars, Fault, NoFault
      <3> QED
        BY <1>1, <3>1
    <2>2. Paid(e)' \in Nat
      BY CopiesFiniteNext
    <2>3. Paid(e) + (faults' - faults) <= Paid(e)'
      BY Pays
    <2> QED
      BY <1>1, <2>1, <2>2, <2>3
  <1>3. dead_letters[e] <= Paid(e)'
    BY <1>1, <1>2 DEF Account
  <1>4. AckedAlready(e)' => dead_letters[e] + 1 <= Paid(e)'
    BY <1>1, <1>2 DEF Account
  <1> HIDE DEF Paid
  <1> QED
    BY <1>1, <1>2, <1>3, <1>4 DEF Account

LEMMA PaysForFault ==
  ASSUME WorkInv, WorkInv', [Next]_vars, NEW e \in Events, Fault
  PROVE  Paid(e) + 1 <= Paid(e)'
  <1>1. Paid(e) + (faults' - faults) <= Paid(e)'
    BY Pays
  <1>2. faults' - faults = 1
    BY CopiesFinite DEF Fault
  <1> QED
    BY <1>1, <1>2

LEMMA HandleAccount ==
  ASSUME WorkInv, WorkInv', [Next]_vars, NEW e \in Events, Account(e),
         NEW m, HandleCurrent(m)
  PROVE  Account(e)'
  <1>1. /\ Current(m) /\ m \in batch
        /\ \A n \in batch : Current(n) => n = m
        /\ pending \subseteq 1..delivered
        /\ dead_letters \in [Events -> Nat]
        /\ stream[m] \in Events
    BY OneCurrent DEF HandleCurrent, WorkInv, TypeOK
  <1>2. pc # "dead_ack" => ~AtDeadAck(e)
    BY DEF AtDeadAck
  <1>3. pc' # "dead_letter" => ~AckedAlready(e)'
    BY DEF AckedAlready
  <1>4. CASE HandlerReturns(m) \/ Ack(m)
    <2>1. pc # "dead_ack" /\ pc' # "dead_letter" /\ dead_letters' = dead_letters
      BY <1>4 DEF HandlerReturns, Ack, Advance
    <2> QED
      BY <1>2, <1>3, <2>1, NothingWritten
  <1>5. CASE HandlerRaises(m)
    <2>1. pc = "handle" /\ dead_letters' = dead_letters /\ UNCHANGED pending
      BY <1>5 DEF HandlerRaises
    <2>2. m \in pending
      BY <1>1, <2>1, AtCall
    <2>3. pc' = "dead_letter" => batch' = batch
      BY <1>5 DEF HandlerRaises, CountFailure, Advance
    <2>4. ~AckedAlready(e)'
      BY <1>1, <2>1, <2>2, <2>3 DEF AckedAlready, Current
    <2> QED
      BY <1>2, <2>1, <2>4, NothingWritten
  <1>6. CASE AckRaises(m)
    <2>1. pc = "ack" /\ dead_letters' = dead_letters /\ Fault
      BY <1>6 DEF AckRaises
    <2> QED
      BY <1>2, <2>1, PaysForFault, NothingWritten
  <1>7. CASE DeadAckRaises(m)
    <2>1. pc' # "dead_letter" /\ dead_letters' = dead_letters /\ Fault
      BY <1>7 DEF DeadAckRaises
    <2> QED
      BY <1>3, <2>1, PaysForFault, NothingWritten
  <1>8. CASE DeadAck(m)
    <2>1. pc' # "dead_letter" /\ dead_letters' = dead_letters /\ pending' = pending \ {m}
      BY <1>8 DEF DeadAck, Advance, PendingAfterDeadLetter
    <2>2. ASSUME AtDeadAck(e)
          PROVE  Paid(e) + 1 <= Paid(e)'
      <3>1. m \in pending /\ stream[m] = e
        <4>1. PICK n \in pending : Current(n) /\ stream[n] = e
          BY <2>2 DEF AtDeadAck
        <4> QED
          BY <1>1, <4>1 DEF Current
      <3>2. Paid(e) + (faults' - faults) + 1 <= Paid(e)'
        BY <2>1, <3>1, Pays
      <3>3. faults' - faults = 0
        BY <1>8, CopiesFinite DEF DeadAck, NoFault
      <3> QED
        BY <3>2, <3>3, CopiesFinite
    <2> QED
      BY <1>3, <2>1, <2>2, NothingWritten
  <1>9. CASE DeadLetter(m)
    <2>1. /\ pc = "dead_letter" /\ pc' = "dead_ack" /\ dead_letters' = OneMore(stream[m])
          /\ UNCHANGED <<stream, delivered, pending, batch, faults>>
      BY <1>9 DEF DeadLetter, NoFault
    <2>2. CASE stream[m] # e
      <3>1. dead_letters'[e] = dead_letters[e]
        BY <1>1, <2>1, <2>2 DEF OneMore
      <3> QED
        BY <1>2, <1>3, <2>1, <3>1, NothingWritten
    <2>3. CASE stream[m] = e
      <3>1. dead_letters'[e] = dead_letters[e] + 1
        BY <1>1, <2>1, <2>3 DEF OneMore
      <3>2. Paid(e)' = Paid(e)
        BY <2>1 DEF Paid, AckedCopies
      <3>3. dead_letters[e] \in Nat /\ Paid(e) \in Nat
        BY CopiesFinite
      <3>4. dead_letters[e] <= Paid(e)
        BY <1>2, <2>1, <3>3 DEF Account
      <3>5. CASE m \in pending
        <4>1. AtDeadAck(e)'
          BY <1>1, <2>1, <2>3, <3>5 DEF AtDeadAck, Current
        <4>2. dead_letters'[e] <= Paid(e)' + 1
          BY <3>1, <3>2, <3>3, <3>4
        <4> QED
          BY <1>3, <2>1, <4>1, <4>2 DEF Account
      <3>6. CASE m \notin pending
        <4>1. AckedAlready(e)
          BY <1>1, <2>1, <2>3, <3>6 DEF AckedAlready
        <4>2. dead_letters[e] + 1 <= Paid(e)
          BY <4>1 DEF Account
        <4>3. dead_letters'[e] <= Paid(e)' /\ dead_letters'[e] <= Paid(e)' + 1
          BY <3>1, <3>2, <3>3, <4>2
        <4>4. ~AckedAlready(e)'
          BY <1>3, <2>1
        <4>5. Paid(e)' + 0 = Paid(e)'
          BY <3>2, <3>3
        <4> QED
          BY <4>3, <4>4, <4>5 DEF Account
      <3> QED
        BY <3>5, <3>6
    <2> QED
      BY <2>2, <2>3
  <1>10. CASE DeadLetterRaises(m)
    <2>1. /\ pc = "dead_letter" /\ pc' = "stopped" /\ Fault
          /\ dead_letters' \in {dead_letters, OneMore(stream[m])}
      BY <1>10 DEF DeadLetterRaises, Stop
    <2>2. /\ Paid(e) + 1 <= Paid(e)' /\ Paid(e) \in Nat /\ dead_letters[e] \in Nat
      BY <2>1, PaysForFault, CopiesFinite
    <2>3. dead_letters[e] <= Paid(e)
      BY <1>2, <2>1, <2>2 DEF Account
    <2>4. CASE dead_letters'[e] = dead_letters[e]
      BY <1>2, <1>3, <2>1, <2>4, NothingWritten
    <2>5. CASE dead_letters'[e] = dead_letters[e] + 1
      <3>1. ~AtDeadAck(e)' /\ ~AckedAlready(e)'
        BY <2>1 DEF AtDeadAck, AckedAlready
      <3>2. Paid(e)' \in Int
        BY CopiesFiniteNext
      <3>3. dead_letters'[e] <= Paid(e)' + 0
        BY <2>2, <2>3, <2>5, <3>2
      <3> QED
        BY <3>1, <3>3 DEF Account
    <2> QED
      BY <1>1, <2>1, <2>4, <2>5 DEF OneMore
  <1> QED
    BY <1>4, <1>5, <1>6, <1>7, <1>8, <1>9, <1>10 DEF HandleCurrent

LEMMA AccountStep ==
  ASSUME WorkInv, WorkInv', [Next]_vars, NEW e \in Events, Account(e)
  PROVE  Account(e)'
  <1>1. CASE ReadPending \/ ReadNew \/ ReadNothing \/ Restart
    <2>1. pc # "dead_ack" /\ pc' # "dead_letter" /\ dead_letters' = dead_letters
      BY <1>1 DEF ReadPending, NextRead, ReadNew, ReadNothing, Restart
    <2>2. ~AtDeadAck(e) /\ ~AckedAlready(e)'
      BY <2>1 DEF AtDeadAck, AckedAlready
    <2> QED
      BY <2>1, <2>2, NothingWritten
  <1>2. CASE Crash
    <2>1. pc' # "dead_letter" /\ dead_letters' = dead_letters /\ Fault
      BY <1>2 DEF Crash, Stop
    <2>2. ~AckedAlready(e)'
      BY <2>1 DEF AckedAlready
    <2> QED
      BY <2>1, <2>2, PaysForFault, NothingWritten
  <1>3. CASE (\E d \in Events : AddMessage(d)) \/ UNCHANGED vars
    <2>1. /\ UNCHANGED <<delivered, pending, pc, batch, dead_letters, faults>>
          /\ \A m \in 1..delivered : stream'[m] = stream[m]
      BY <1>3, CopiesStay DEF AddMessage, vars
    <2>2. pending \subseteq 1..delivered /\ batch \subseteq 1..delivered
      BY DEF WorkInv, TypeOK
    <2>3. AckedCopies(e)' = AckedCopies(e)
      BY <2>1 DEF AckedCopies
    <2>4. (AtDeadAck(e)' <=> AtDeadAck(e)) /\ (AckedAlready(e)' <=> AckedAlready(e))
      BY <2>1, <2>2 DEF AtDeadAck, AckedAlready, Current
    <2>5. Paid(e)' = Paid(e)
      BY <2>1, <2>3 DEF Paid
    <2> QED
      BY <2>1, <2>4, <2>5 DEF Account
  <1> QED
    BY <1>1, <1>2, <1>3, HandleAccount DEF Next, Consume

LEMMA AccountBounds ==
  ASSUME WorkInv, NEW e \in Events, Account(e)
  PROVE  dead_letters[e] <= Cardinality({ m \in 1..delivered : stream[m] = e }) + faults
  <1> DEFINE S == { m \in 1..delivered : stream[m] = e }
  <1>1. delivered \in Nat /\ pending \subseteq 1..delivered
    BY DEF WorkInv, TypeOK
  <1>2. IsFiniteSet(S) /\ Cardinality(S) \in Nat
    <2>1. IsFiniteSet(1..delivered) /\ S \in SUBSET (1..delivered)
      BY <1>1, FS_Interval
    <2>2. IsFiniteSet(S)
      BY <2>1, FS_Subset
    <2> QED
      BY <2>2, FS_CardinalityType
  <1>3. AckedCopies(e) \in SUBSET S
    BY DEF AckedCopies
  <1>4. Cardinality(AckedCopies(e)) <= Cardinality(S)
    BY <1>2, <1>3, FS_Subset
  <1>5. ASSUME AtDeadAck(e)
        PROVE  Cardinality(AckedCopies(e)) + 1 <= Cardinality(S)
    <2>1. PICK m \in pending : stream[m] = e
      BY <1>5 DEF AtDeadAck
    <2>2. m \notin AckedCopies(e) /\ AckedCopies(e) \cup {m} \in SUBSET S
      BY <1>1, <1>3, <2>1 DEF AckedCopies
    <2>3. Cardinality(AckedCopies(e) \cup {m}) = Cardinality(AckedCopies(e)) + 1
      BY <2>2, CopiesFinite, FS_AddElement
    <2>4. Cardinality(AckedCopies(e) \cup {m}) <= Cardinality(S)
      BY <1>2, <2>2, FS_Subset
    <2> QED
      BY <2>3, <2>4
  <1>6. /\ Cardinality(AckedCopies(e)) \in Nat /\ faults \in Nat /\ dead_letters[e] \in Nat
        /\ Paid(e) = Cardinality(AckedCopies(e)) + faults
    BY CopiesFinite DEF Paid
  <1> HIDE DEF S
  <1>7. dead_letters[e] <= Paid(e) + (IF AtDeadAck(e) THEN 1 ELSE 0)
    BY DEF Account
  <1>8. dead_letters[e] <= Cardinality(S) + faults
    <2>1. CASE AtDeadAck(e)
      BY <1>2, <1>5, <1>6, <1>7, <2>1
    <2>2. CASE ~AtDeadAck(e)
      BY <1>2, <1>4, <1>6, <1>7, <2>2
    <2> QED
      BY <2>1, <2>2
  <1> QED
    BY <1>8 DEF S

AccountInv == WorkInv /\ \A e \in Events : Account(e)

\* An event gets a dead letter for each message that carries it, and one more
\* for each fault at most (dead_letter_handler is committed before the XACK).
THEOREM LettersAccounted == Spec => []DeadLettersBounded
  <1>1. ASSUME Init, WorkInv
        PROVE  AccountInv
    <2>1. ASSUME NEW e \in Events
          PROVE  Account(e)
      <3>1. Paid(e) \in Nat /\ dead_letters[e] = 0
        BY <1>1, CopiesFinite DEF Init
      <3>2. ~AtDeadAck(e) /\ ~AckedAlready(e)
        BY <1>1 DEF Init, AtDeadAck, AckedAlready
      <3> QED
        BY <3>1, <3>2 DEF Account
    <2> QED
      BY <1>1, <2>1 DEF AccountInv
  <1>2. ASSUME AccountInv, WorkInv', [Next]_vars
        PROVE  AccountInv'
    BY <1>2, AccountStep DEF AccountInv
  <1>3. AccountInv => DeadLettersBounded
    BY AccountBounds DEF AccountInv, DeadLettersBounded
  <1> QED
    BY <1>1, <1>2, <1>3, WorkSound, PTL DEF Spec

-----------------------------------------------------------------------------
(***************************************************************************)
(* The worker keeps the promise of ConsumerGroup.  A copy that is not      *)
(* acknowledged is one not delivered yet or a pending one, so a read moves *)
(* it and an XACK alone takes it away; a letter counts from the attempt to *)
(* acknowledge its message, or from the death of the worker before it.     *)
(***************************************************************************)
LEMMA AckedGrows ==
  ASSUME WorkInv, [Next]_vars
  PROVE  Acked \subseteq Acked' /\ \A m \in 1..delivered : stream'[m] = stream[m]
  <1>1. ASSUME NEW m \in Acked
        PROVE  m \in Acked' /\ stream'[m] = stream[m]
    <2>1. m \in 1..delivered /\ stream[m] \in Events
      BY DEF Acked, WorkInv, TypeOK
    <2>2. \A e \in Events : AckedCopies(e) \subseteq AckedCopies(e)'
      BY CopiesStay
    <2>3. m \in AckedCopies(stream[m]) /\ stream[m] \in Events
      BY <2>1 DEF Acked, AckedCopies
    <2>4. ASSUME NEW e \in Events, e = stream[m]
          PROVE  m \in AckedCopies(e)'
      BY <2>2, <2>3, <2>4
    <2> QED
      BY <2>1, <2>3, <2>4, CopiesStay DEF AckedCopies, Acked
  <1>2. \A m \in 1..delivered : stream'[m] = stream[m]
    <2>1. ASSUME NEW m \in 1..delivered
          PROVE  stream'[m] = stream[m]
      <3>1. stream[m] \in Events
        BY DEF WorkInv, TypeOK
      <3> QED
        BY <3>1, CopiesStay
    <2> QED
      BY <2>1
  <1> QED
    BY <1>1, <1>2

\* The copies not acknowledged, as a finite set of messages of the stream.
LEMMA UnackedFinite ==
  ASSUME WorkInv, NEW e
  PROVE  IsFiniteSet(Unacked(e)) /\ Cardinality(Unacked(e)) \in Nat
  <1>1. Unacked(e) \in SUBSET (1..Len(stream)) /\ Len(stream) \in Nat
    BY DEF Unacked, Messages, WorkInv, TypeOK
  <1>2. IsFiniteSet(1..Len(stream))
    BY <1>1, FS_Interval
  <1> QED
    BY <1>1, <1>2, FS_Subset, FS_CardinalityType

\* A pending message is a copy still to be acknowledged.
LEMMA PendingCounts ==
  ASSUME WorkInv, NEW m \in pending
  PROVE  m \in Unacked(stream[m]) /\ Cardinality(Unacked(stream[m])) > 0
  <1>1. m \in Unacked(stream[m])
    BY DEF WorkInv, TypeOK, Unacked, Messages, Acked
  <1>2. Cardinality(Unacked(stream[m])) # 0
    BY <1>1, UnackedFinite, FS_EmptySet
  <1> QED
    BY <1>1, <1>2, UnackedFinite

\* What the calls of a message do to the counts: nothing, or one copy less.
LEMMA CountsAfterCall ==
  ASSUME WorkInv, NEW m, Current(m), UNCHANGED <<stream, delivered>>,
         pending' = pending \/ pending' = pending \ {m}
  PROVE  \/ UnackedCount' = UnackedCount
         \/ /\ m \in pending /\ stream[m] \in Events \ Ignored
            /\ UnackedCount[stream[m]] > 0
            /\ UnackedCount' = [UnackedCount EXCEPT ![stream[m]] = @ - 1]
  <1>1. m \in 1..delivered /\ stream[m] \in Events /\ pending \subseteq 1..delivered
    BY OneCurrent DEF WorkInv, TypeOK
  <1>2. CASE pending' = pending \/ m \notin pending
    <2>1. pending' = pending
      BY <1>2
    <2>2. \A e : Unacked(e)' = Unacked(e)
      BY <2>1 DEF Unacked, Messages, Acked
    <2> QED
      BY <2>1, <2>2 DEF UnackedCount
  <1>3. CASE pending' = pending \ {m} /\ m \in pending
    <2>1. m \in Unacked(stream[m])
      BY <1>3, PendingCounts
    <2>2. \A e : Unacked(e)' = Unacked(e) \ {m}
      BY <1>1, <1>3 DEF Unacked, Messages, Acked, WorkInv, TypeOK
    <2>3. \A e : e # stream[m] => Unacked(e)' = Unacked(e)
      <3>1. \A e : e # stream[m] => m \notin Unacked(e)
        BY DEF Unacked
      <3> QED
        BY <2>2, <3>1
    <2>4. Cardinality(Unacked(stream[m]) \ {m}) = Cardinality(Unacked(stream[m])) - 1
      BY <2>1, UnackedFinite, FS_RemoveElement
    <2>5. \A e \in Events \ Ignored :
            UnackedCount'[e] = IF e = stream[m] THEN UnackedCount[e] - 1 ELSE UnackedCount[e]
      BY <2>2, <2>3, <2>4 DEF UnackedCount
    <2>6. CASE stream[m] \in Ignored
      BY <2>3, <2>6 DEF UnackedCount
    <2>7. CASE stream[m] \notin Ignored
      <3>1. UnackedCount' = [UnackedCount EXCEPT ![stream[m]] = @ - 1]
        BY <2>5 DEF UnackedCount
      <3>2. UnackedCount[stream[m]] > 0
        BY <1>1, <1>3, <2>7, PendingCounts DEF UnackedCount
      <3> QED
        BY <1>1, <1>3, <2>7, <3>1, <3>2
    <2> QED
      BY <2>6, <2>7
  <1> QED
    BY <1>2, <1>3

\* The letters while no XACK of a dead letter is under way.
LEMMA LettersSettle ==
  ASSUME pc # "dead_ack", pc' # "dead_ack", UNCHANGED dead_letters
  PROVE  UNCHANGED LetterCount
  BY DEF LetterCount, LetterInHand

\* A letter leaves the hand: it counts.
LEMMA LetterLeaves ==
  ASSUME WorkInv, NEW m, Current(m), pc = "dead_ack", pc' # "dead_ack", UNCHANGED dead_letters
  PROVE  LetterCount' = IF stream[m] \in Ignored THEN LetterCount
                        ELSE [LetterCount EXCEPT ![stream[m]] = @ + 1]
  <1>1. stream[m] \in Events /\ m \in batch
    BY OneCurrent DEF WorkInv
  <1>2. \A e : LetterInHand(e) <=> e = stream[m]
    BY <1>1, OneCurrent DEF LetterInHand, WorkInv
  <1>3. \A e : ~LetterInHand(e)'
    BY DEF LetterInHand
  <1>4. dead_letters \in [Events -> Nat]
    BY DEF WorkInv, TypeOK
  <1>5. \A e \in Events \ Ignored :
          LetterCount'[e] = IF e = stream[m] THEN LetterCount[e] + 1 ELSE LetterCount[e]
    BY <1>2, <1>3, <1>4 DEF LetterCount
  <1> QED
    BY <1>1, <1>5 DEF LetterCount

\* The counted letter of an event, whether the message has left the group or
\* not.
LEMMA GivesUpForGroup ==
  ASSUME WorkInv, NEW m, Current(m), stream[m] \notin Ignored, UNCHANGED processed,
         pc \in {"dead_letter", "dead_ack"},
         LetterCount' = [LetterCount EXCEPT ![stream[m]] = @ + 1],
         \/ UnackedCount' = UnackedCount
         \/ /\ UnackedCount[stream[m]] > 0
            /\ UnackedCount' = [UnackedCount EXCEPT ![stream[m]] = @ - 1]
  PROVE  Group!Next
  <1>1. stream[m] \in Events \ Ignored
    BY OneCurrent DEF WorkInv
  <1>2. m \in pending \/ stream[m] \in processed
    BY AtCall
  <1>3. UnackedCount[stream[m]] > 0 \/ stream[m] \in processed
    BY <1>1, <1>2, PendingCounts DEF UnackedCount
  <1>4. Group!GiveUp(stream[m])
    BY <1>3 DEF Group!GiveUp, Group!Ack
  <1> QED
    BY <1>1, <1>4 DEF Group!Next

\* A handler that returns, raises or finds its work done, and an XACK after it.
LEMMA HandlesForGroup ==
  ASSUME WorkInv, NEW m, Current(m), UNCHANGED LetterCount,
         pc \in {"handle", "ack"},
         processed' = processed \/ processed' = Handled(stream[m]),
         pc = "ack" => processed' = processed,
         \/ UnackedCount' = UnackedCount
         \/ /\ pc = "ack" /\ stream[m] \notin Ignored
            /\ UnackedCount' = [UnackedCount EXCEPT ![stream[m]] = @ - 1]
  PROVE  [Group!Next]_(Group!vars)
  <1>1. stream[m] \in Events /\ m \in pending
    BY AtCall
  <1>2. CASE processed' = processed /\ UnackedCount' = UnackedCount
    BY <1>2 DEF Group!vars
  <1>3. CASE stream[m] \notin Ignored /\ processed' = processed \cup {stream[m]}
    <2>1. UnackedCount[stream[m]] > 0
      BY <1>1, <1>3, PendingCounts DEF UnackedCount
    <2>2. Group!Handle(stream[m])
      BY <1>3, <2>1 DEF Group!Handle, Group!Ack
    <2> QED
      BY <1>1, <1>3, <2>2 DEF Group!Next
  <1>4. pc = "ack" /\ stream[m] \notin Ignored => processed' = processed \cup {stream[m]}
    BY AtCall
  <1> QED
    BY <1>2, <1>3, <1>4 DEF Handled

LEMMA CurrentForGroup ==
  ASSUME WorkInv, NEW m, HandleCurrent(m)
  PROVE  [Group!Next]_(Group!vars)
  <1>1. Current(m) /\ stream[m] \in Events
    BY OneCurrent DEF HandleCurrent, WorkInv
  <1>2. ASSUME UNCHANGED <<stream, delivered>>, pending' = pending
        PROVE  UnackedCount' = UnackedCount
    BY <1>2 DEF UnackedCount, Unacked, Messages, Acked
  <1>3. CASE HandlerReturns(m)
    BY <1>1, <1>2, <1>3, LettersSettle, HandlesForGroup DEF HandlerReturns
  <1>4. CASE HandlerRaises(m)
    <2>1. pc = "handle" /\ pc' # "dead_ack"
      BY <1>4 DEF HandlerRaises, CountFailure, Advance
    <2> QED
      BY <1>1, <1>2, <1>4, <2>1, LettersSettle, HandlesForGroup DEF HandlerRaises
  <1>5. CASE Ack(m) \/ AckRaises(m)
    <2>1. /\ pc = "ack" /\ pc' # "dead_ack"
          /\ UNCHANGED <<stream, delivered, processed, dead_letters>>
          /\ pending' = pending \/ pending' = pending \ {m}
      BY <1>5 DEF Ack, AckRaises, CountFailure, Advance
    <2>2. UNCHANGED LetterCount
      BY <2>1, LettersSettle
    <2>3. \/ UnackedCount' = UnackedCount
          \/ /\ stream[m] \notin Ignored
             /\ UnackedCount' = [UnackedCount EXCEPT ![stream[m]] = @ - 1]
      BY <1>1, <2>1, CountsAfterCall
    <2> QED
      BY <1>1, <2>1, <2>2, <2>3, HandlesForGroup
  <1>6. CASE DeadLetter(m)
    <2>1. /\ pc = "dead_letter" /\ pc' = "dead_ack" /\ dead_letters' = OneMore(stream[m])
          /\ UNCHANGED <<stream, delivered, pending, batch, processed>>
      BY <1>6 DEF DeadLetter
    <2>2. \A e : LetterInHand(e)' <=> e = stream[m]
      BY <1>1, <2>1, OneCurrent DEF LetterInHand, Current, WorkInv
    <2>3. \A e : ~LetterInHand(e)
      BY <2>1 DEF LetterInHand
    <2>4. dead_letters \in [Events -> Nat]
      BY DEF WorkInv, TypeOK
    <2>5. LetterCount' = LetterCount
      BY <1>1, <2>1, <2>2, <2>3, <2>4 DEF LetterCount, OneMore
    <2> QED
      BY <1>2, <2>1, <2>5 DEF Group!vars
  <1>7. CASE DeadLetterRaises(m)
    <2>1. /\ pc = "dead_letter" /\ pc' = "stopped"
          /\ dead_letters' \in {dead_letters, OneMore(stream[m])}
          /\ UNCHANGED <<stream, delivered, pending, processed>>
      BY <1>7 DEF DeadLetterRaises, Stop
    <2>2. UNCHANGED UnackedCount
      BY <1>2, <2>1
    <2>3. \A e : ~LetterInHand(e) /\ ~LetterInHand(e)'
      BY <2>1 DEF LetterInHand
    <2>4. dead_letters \in [Events -> Nat]
      BY DEF WorkInv, TypeOK
    <2>5. CASE LetterCount' = LetterCount
      BY <2>1, <2>2, <2>5 DEF Group!vars
    <2>6. CASE stream[m] \notin Ignored /\ LetterCount' = [LetterCount EXCEPT ![stream[m]] = @ + 1]
      BY <1>1, <2>1, <2>2, <2>6, GivesUpForGroup
    <2>7. CASE dead_letters' = dead_letters
      BY <2>3, <2>5, <2>7 DEF LetterCount
    <2>8. CASE dead_letters' = OneMore(stream[m])
      <3>1. \A e \in Events \ Ignored :
              LetterCount'[e] = IF e = stream[m] THEN LetterCount[e] + 1 ELSE LetterCount[e]
        BY <1>1, <2>3, <2>4, <2>8 DEF LetterCount, OneMore
      <3>2. CASE stream[m] \in Ignored
        BY <2>5, <3>1, <3>2 DEF LetterCount
      <3>3. CASE stream[m] \notin Ignored
        BY <2>6, <3>1, <3>3 DEF LetterCount
      <3> QED
        BY <3>2, <3>3
    <2> QED
      BY <2>1, <2>7, <2>8
  <1>8. CASE DeadAck(m) \/ DeadAckRaises(m)
    <2>1. /\ pc = "dead_ack" /\ pc' # "dead_ack"
          /\ UNCHANGED <<stream, delivered, processed, dead_letters>>
          /\ pending' = pending \/ pending' = pending \ {m}
      BY <1>8 DEF DeadAck, DeadAckRaises, Advance, PendingAfterDeadLetter
    <2>2. \/ UnackedCount' = UnackedCount
          \/ /\ stream[m] \notin Ignored
             /\ UnackedCount[stream[m]] > 0
             /\ UnackedCount' = [UnackedCount EXCEPT ![stream[m]] = @ - 1]
      BY <1>1, <2>1, CountsAfterCall
    <2>3. LetterCount' = IF stream[m] \in Ignored THEN LetterCount
                         ELSE [LetterCount EXCEPT ![stream[m]] = @ + 1]
      BY <1>1, <2>1, LetterLeaves
    <2>4. CASE stream[m] \in Ignored
      BY <2>1, <2>2, <2>3, <2>4 DEF Group!vars
    <2>5. CASE stream[m] \notin Ignored
      BY <1>1, <2>1, <2>2, <2>3, <2>5, GivesUpForGroup
    <2> QED
      BY <2>4, <2>5
  <1> QED
    BY <1>3, <1>4, <1>5, <1>6, <1>7, <1>8 DEF HandleCurrent

LEMMA WorkerStep ==
  ASSUME WorkInv, [Next]_vars
  PROVE  [Group!Next]_(Group!vars)
  <1>1. CASE \E m \in Messages : HandleCurrent(m)
    BY <1>1, CurrentForGroup
  <1>2. CASE UNCHANGED vars
    BY <1>2 DEF vars, Group!vars, UnackedCount, LetterCount, Unacked, Messages, Acked, LetterInHand,
                Current
  <1>3. CASE ReadPending \/ ReadNew \/ ReadNothing \/ Restart
    <2>1. /\ pc # "dead_ack" /\ pc' # "dead_ack" /\ batch = {}
          /\ UNCHANGED <<stream, processed, dead_letters>>
      BY <1>3 DEF ReadPending, NextRead, ReadNew, ReadNothing, Restart, WorkInv, TypeOK
    <2>2. ASSUME NEW m \in Acked'
          PROVE  m \in Acked
      BY <2>1, OnlySettledLeave DEF Acked, Current
    <2>3. Acked' = Acked
      BY <2>2, AckedGrows
    <2>4. UnackedCount' = UnackedCount
      BY <2>1, <2>3 DEF UnackedCount, Unacked, Messages
    <2> QED
      BY <2>1, <2>4, LettersSettle DEF Group!vars
  <1>4. CASE Crash
    <2>1. /\ pc' = "stopped" /\ UNCHANGED <<stream, delivered, pending, processed, dead_letters>>
      BY <1>4 DEF Crash, Stop
    <2>2. UNCHANGED UnackedCount
      BY <2>1 DEF UnackedCount, Unacked, Messages, Acked
    <2>3. CASE \E m : Current(m) /\ pc = "dead_ack"
      <3>1. PICK m : Current(m) /\ pc = "dead_ack"
        BY <2>3
      <3>2. LetterCount' = IF stream[m] \in Ignored THEN LetterCount
                           ELSE [LetterCount EXCEPT ![stream[m]] = @ + 1]
        BY <2>1, <3>1, LetterLeaves
      <3>3. CASE stream[m] \in Ignored
        BY <2>1, <2>2, <3>2, <3>3 DEF Group!vars
      <3>4. CASE stream[m] \notin Ignored
        BY <2>1, <2>2, <3>1, <3>2, <3>4, GivesUpForGroup
      <3> QED
        BY <3>3, <3>4
    <2>4. CASE ~\E m : Current(m) /\ pc = "dead_ack"
      <3>1. \A e : ~LetterInHand(e) /\ ~LetterInHand(e)'
        BY <2>1, <2>4 DEF LetterInHand
      <3> QED
        BY <2>1, <2>2, <3>1 DEF Group!vars, LetterCount
    <2> QED
      BY <2>3, <2>4
  <1>5. ASSUME NEW e \in Events, AddMessage(e)
        PROVE  [Group!Next]_(Group!vars)
    <2>1. /\ stream' = Append(stream, e)
          /\ UNCHANGED <<delivered, pending, pc, batch, processed, dead_letters>>
      BY <1>5 DEF AddMessage
    <2>2. /\ stream \in Seq(Events) /\ Len(stream) \in Nat /\ delivered \in 0..Len(stream)
          /\ batch \subseteq 1..Len(stream)
      BY DEF WorkInv, TypeOK
    <2>3. Len(stream') = Len(stream) + 1 /\ \A m \in 1..Len(stream) : stream'[m] = stream[m]
      BY <2>1, <2>2
    <2>4. UNCHANGED LetterCount
      BY <2>1, <2>2, <2>3 DEF LetterCount, LetterInHand, Current
    <2>5. \A d : Unacked(d) \subseteq Unacked(d)'
      BY <2>1, <2>2, <2>3 DEF Unacked, Messages, Acked
    <2>6. WorkInv'
      BY <1>5, AddMessageInv
    <2>7. \A d : /\ IsFiniteSet(Unacked(d)') /\ Cardinality(Unacked(d)') \in Nat
                 /\ Cardinality(Unacked(d)) <= Cardinality(Unacked(d)')
      <3>1. Len(stream') \in Nat
        BY <2>2, <2>3
      <3>2. IsFiniteSet(1..Len(stream'))
        BY <3>1, FS_Interval
      <3>3. \A d : Unacked(d)' \in SUBSET (1..Len(stream'))
        BY DEF Unacked, Messages
      <3>4. \A d : IsFiniteSet(Unacked(d)')
        BY <3>2, <3>3, FS_Subset
      <3> QED
        BY <2>5, <3>4, FS_Subset, FS_CardinalityType
    <2>8. Group!Arrive
      BY <2>1, <2>4, <2>7 DEF Group!Arrive, UnackedCount
    <2> QED
      BY <2>8 DEF Group!Next
  <1> QED
    BY <1>1, <1>2, <1>3, <1>4, <1>5 DEF Next, Consume

\* The loop of a worker, with all that can fail and die in it, takes a copy of
\* an event out of its group only by committed work or by a letter of its own:
\* the promise on which Pipeline builds.
THEOREM LoopIsGroup == Spec => ImplementsGroup
  <1>1. Init => Group!Init
    <2>1. ASSUME Init
          PROVE  UnackedCount = [e \in Events \ Ignored |-> 0]
      <3>1. \A e : Unacked(e) = {}
        BY <2>1 DEF Init, Unacked, Messages
      <3> QED
        BY <3>1, FS_EmptySet DEF UnackedCount
    <2> QED
      BY <2>1 DEF Init, Group!Init, LetterCount, LetterInHand
  <1> QED
    BY <1>1, WorkerStep, WorkSound, PTL DEF Spec, ImplementsGroup, Group!Spec
=============================================================================
