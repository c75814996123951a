------------------------- MODULE OutboxRelayProofs -------------------------
(***************************************************************************)
(* Safety of the outbox relays, for any number of relays, batch size and   *)
(* bounds.  Typing and locking are one inductive invariant, RelayInv; that *)
(* nothing is lost follows with it.  For the number of copies it takes an  *)
(* account of which rows have been sent since the last fault.              *)
(***************************************************************************)
EXTENDS OutboxRelay, FiniteSetTheorems, TLAPS

USE OutboxAssumption

\* Appending to the stream keeps what is there and adds one message.
LEMMA AppendFacts ==
  ASSUME NEW s \in Seq(Events), NEW e \in Events
  PROVE  /\ Append(s, e) \in Seq(Events)
         /\ Len(Append(s, e)) = Len(s) + 1
         /\ DOMAIN Append(s, e) = DOMAIN s \cup {Len(s) + 1}
         /\ Len(s) + 1 \notin DOMAIN s
         /\ \A i \in DOMAIN s : Append(s, e)[i] = s[i]
         /\ Append(s, e)[Len(s) + 1] = e
  OBVIOUS

\* What XADD of e does to the rows that have been sent.
LEMMA SentAfter ==
  ASSUME TypeOK, NEW e \in Events, stream' \in {stream, Append(stream, e)}
  PROVE  /\ \A d : Sent(d) => Sent(d)'
         /\ stream' # stream => Sent(e)'
         /\ \A i \in DOMAIN stream' :
              (i \in DOMAIN stream /\ stream'[i] = stream[i]) \/ stream'[i] = e
  <1>1. CASE stream' = stream
    BY <1>1 DEF Sent
  <1>2. CASE stream' = Append(stream, e)
    BY <1>2, AppendFacts DEF Sent, TypeOK
  <1> QED
    BY <1>1, <1>2

\* The row a relay sends next is one of its batch.
LEMMA Batches ==
  ASSUME RelayInv, NEW r \in Relays
  PROVE  /\ FirstRows(Selectable(r)) \subseteq Selectable(r)
         /\ Selectable(r) \subseteq Events
         /\ batch[r] \subseteq Events
         /\ unsent[r] \subseteq batch[r]
  BY DEF RelayInv, TypeOK, BatchesLocked, FirstRows, Selectable

-----------------------------------------------------------------------------
LEMMA AppendRowInv ==
  ASSUME RelayInv, NEW e \in Events, AppendRow(e) \/ EndWriter(e)
  PROVE  RelayInv'
  <1>1. TypeOK'
    BY DEF AppendRow, EndWriter, RelayInv, TypeOK
  <1>2. \A d \in Events : row[d] = "committed" => row'[d] = "committed"
    BY DEF AppendRow, EndWriter, RelayInv, TypeOK
  <1>3. UNCHANGED <<published, batch, unsent, stream, faults>>
    BY DEF AppendRow, EndWriter
  <1>4. BatchesLocked'
    BY <1>2, <1>3, Batches DEF RelayInv, TypeOK, BatchesLocked, Sent
  <1> QED
    BY <1>1, <1>4 DEF RelayInv

\* The selected rows are locked by nobody else.
LEMMA SelectInv ==
  ASSUME RelayInv, NEW r \in Relays, Select(r)
  PROVE  RelayInv'
  <1> DEFINE rows == FirstRows(Selectable(r))
  <1>1. /\ rows \subseteq Events
        /\ \A e \in rows : row[e] = "committed" /\ e \notin published
        /\ \A e \in rows : \A q \in Relays : e \notin batch[q]
    BY Batches DEF Selectable
  <1>2. /\ batch' = [batch EXCEPT ![r] = rows]
        /\ unsent' = [unsent EXCEPT ![r] = rows]
        /\ UNCHANGED <<row, published, stream, faults>>
    BY DEF Select
  <1> HIDE DEF rows
  <1>3. TypeOK'
    BY <1>1, <1>2 DEF RelayInv, TypeOK
  <1>4. BatchesLocked'
    BY <1>1, <1>2 DEF RelayInv, TypeOK, BatchesLocked, Sent
  <1> QED
    BY <1>3, <1>4 DEF RelayInv

LEMMA PublishInv ==
  ASSUME RelayInv, NEW r \in Relays, Publish(r)
  PROVE  RelayInv'
  <1>1. PICK e \in unsent[r] :
          /\ NextToSend(r, e)
          /\ stream' = Append(stream, e)
          /\ unsent' = [unsent EXCEPT ![r] = @ \ {e}]
    BY DEF Publish
  <1>2. UNCHANGED <<row, published, batch, faults>>
    BY DEF Publish
  <1>3. e \in Events
    BY Batches
  <1>4. TypeOK'
    BY <1>1, <1>2, <1>3, AppendFacts DEF RelayInv, TypeOK
  <1>5. /\ \A d : Sent(d) => Sent(d)'
        /\ Sent(e)'
    <2>1. stream' # stream
      BY <1>1, <1>3, AppendFacts DEF RelayInv, TypeOK
    <2> QED
      BY <1>1, <1>3, <2>1, SentAfter DEF RelayInv
  <1>6. BatchesLocked'
    BY <1>1, <1>2, <1>5 DEF RelayInv, TypeOK, BatchesLocked
  <1> QED
    BY <1>4, <1>6 DEF RelayInv

\* A batch ends, with marks or without; other batches are disjoint from it.
LEMMA EndBatchInv ==
  ASSUME RelayInv, NEW r \in Relays, NEW marks \in SUBSET batch[r],
         NEW e \in Events, stream' \in {stream, Append(stream, e)},
         EndBatch(r, marks), UNCHANGED row, faults' \in 0..MaxFaults
  PROVE  RelayInv'
  <1>1. TypeOK'
    BY AppendFacts, Batches DEF RelayInv, TypeOK, EndBatch
  <1>2. \A d : Sent(d) => Sent(d)'
    BY SentAfter DEF RelayInv
  <1>3. BatchesLocked'
    BY <1>2 DEF RelayInv, TypeOK, BatchesLocked, EndBatch
  <1> QED
    BY <1>1, <1>3 DEF RelayInv

LEMMA FaultFacts ==
  ASSUME TypeOK, Fault
  PROVE  faults' = faults + 1 /\ faults' \in 0..MaxFaults
  BY DEF TypeOK, Fault

LEMMA CommitInv ==
  ASSUME RelayInv, NEW r \in Relays, Commit(r)
  PROVE  RelayInv'
  <1>1. PICK e : e \in batch[r]
    BY DEF Commit
  <1>2. e \in Events
    BY <1>1, Batches
  <1> QED
    BY <1>2, EndBatchInv DEF Commit, RelayInv, TypeOK

LEMMA PublishFailsInv ==
  ASSUME RelayInv, NEW r \in Relays, PublishFails(r)
  PROVE  RelayInv'
  <1>1. PICK e \in unsent[r] : stream' \in {stream, Append(stream, e)}
    BY DEF PublishFails
  <1>2. e \in Events
    BY <1>1, Batches
  <1> QED
    BY <1>1, <1>2, EndBatchInv, FaultFacts DEF PublishFails, MarksOfRollback, RelayInv

LEMMA CommitFailsInv ==
  ASSUME RelayInv, NEW r \in Relays, CommitFails(r)
  PROVE  RelayInv'
  <1>1. PICK e : e \in batch[r]
    BY DEF CommitFails
  <1>2. e \in Events
    BY <1>1, Batches
  <1> QED
    BY <1>2, EndBatchInv, FaultFacts DEF CommitFails, MarksOfRollback, RelayInv

LEMMA RelayStep ==
  ASSUME RelayInv, [Next]_vars
  PROVE  RelayInv'
  <1>1. CASE UNCHANGED vars
    BY <1>1 DEF vars, RelayInv, TypeOK, BatchesLocked, Sent
  <1>2. ASSUME NEW e \in Events, AppendRow(e) \/ EndWriter(e)
        PROVE  RelayInv'
    BY <1>2, AppendRowInv
  <1>3. ASSUME NEW r \in Relays, Relay(r) \/ PublishFails(r) \/ CommitFails(r)
        PROVE  RelayInv'
    BY <1>3, SelectInv, PublishInv, CommitInv, PublishFailsInv, CommitFailsInv DEF Relay
  <1> QED
    BY <1>1, <1>2, <1>3 DEF Next

\* Rows locked by a relay are committed, unpublished and locked by it alone,
\* whatever fails.
THEOREM Locking == Spec => []RelayInv
  <1>1. Init => RelayInv
    BY DEF Init, RelayInv, TypeOK, BatchesLocked
  <1> QED
    BY <1>1, RelayStep, PTL DEF Spec

-----------------------------------------------------------------------------
\* XADD of a committed row keeps the stream a stream of committed rows.
LEMMA SendCommitted ==
  ASSUME RelayInv, PublishedIsSent, NEW e \in Events, row[e] = "committed",
         stream' \in {stream, Append(stream, e)}, UNCHANGED row
  PROVE  /\ \A i \in DOMAIN stream' : row'[stream'[i]] = "committed"
         /\ \A d \in published : Sent(d)'
  BY SentAfter DEF RelayInv, PublishedIsSent

LEMMA PublishedStep ==
  ASSUME RelayInv, PublishedIsSent, [Next]_vars
  PROVE  PublishedIsSent'
  <1>1. CASE UNCHANGED vars
    BY <1>1 DEF vars, PublishedIsSent, Sent
  <1>2. ASSUME NEW e \in Events, AppendRow(e) \/ EndWriter(e)
        PROVE  PublishedIsSent'
    <2>1. \A d \in Events : row[d] = "committed" => row'[d] = "committed"
      BY <1>2 DEF AppendRow, EndWriter, RelayInv, TypeOK
    <2>2. \A i \in DOMAIN stream : stream[i] \in Events
      BY DEF RelayInv, TypeOK
    <2> QED
      BY <1>2, <2>1, <2>2 DEF AppendRow, EndWriter, PublishedIsSent, Sent
  <1>3. ASSUME NEW r \in Relays, Select(r)
        PROVE  PublishedIsSent'
    BY <1>3 DEF Select, PublishedIsSent, Sent
  <1>4. ASSUME NEW r \in Relays, Publish(r)
        PROVE  PublishedIsSent'
    <2>1. PICK e \in unsent[r] : stream' = Append(stream, e)
      BY <1>4 DEF Publish
    <2>2. e \in Events /\ row[e] = "committed"
      BY Batches DEF RelayInv, BatchesLocked
    <2> QED
      BY <1>4, <2>1, <2>2, SendCommitted DEF Publish, PublishedIsSent
  <1>5. ASSUME NEW r \in Relays, PublishFails(r)
        PROVE  PublishedIsSent'
    <2>1. PICK e \in unsent[r] : stream' \in {stream, Append(stream, e)}
      BY <1>5 DEF PublishFails
    <2>2. e \in Events /\ row[e] = "committed"
      BY Batches DEF RelayInv, BatchesLocked
    <2>3. published' = published /\ UNCHANGED row
      BY <1>5 DEF PublishFails, EndBatch, MarksOfRollback
    <2> QED
      BY <2>1, <2>2, <2>3, SendCommitted DEF PublishedIsSent
  <1>6. ASSUME NEW r \in Relays, Commit(r) \/ CommitFails(r)
        PROVE  PublishedIsSent'
    <2>1. /\ unsent[r] = {}
          /\ published' \subseteq published \cup batch[r]
          /\ UNCHANGED <<row, stream>>
      BY <1>6 DEF Commit, CommitFails, EndBatch, MarksOfRollback
    <2>2. \A e \in batch[r] : Sent(e)
      BY <2>1 DEF RelayInv, BatchesLocked
    <2> QED
      BY <2>1, <2>2 DEF PublishedIsSent, Sent
  <1> QED
    BY <1>1, <1>2, <1>3, <1>4, <1>5, <1>6 DEF Next, Relay

\* A row is marked published only if it is in the stream, and the stream holds
\* committed rows alone.
THEOREM NothingLost == Spec => []PublishedIsSent
  <1>1. Init => PublishedIsSent
    BY DEF Init, PublishedIsSent
  <1> QED
    BY <1>1, PublishedStep, Locking, PTL DEF Spec

-----------------------------------------------------------------------------
(***************************************************************************)
(* Copies.  A row has one copy for each fault, and one more while its      *)
(* present transaction has sent it, or for good once it is marked: then    *)
(* that copy is accounted for.                                             *)
(***************************************************************************)
Accounted(e) == e \in published \/ \E r \in Relays : e \in batch[r] \ unsent[r]

CopiesInv ==
  \A e \in Events : Copies(e) <= faults + 1 /\ (Accounted(e) \/ Copies(e) <= faults)

LEMMA CopiesType ==
  ASSUME TypeOK, NEW e
  PROVE  Copies(e) \in Nat /\ IsFiniteSet({ i \in DOMAIN stream : stream[i] = e })
  <1>1. DOMAIN stream = 1..Len(stream) /\ Len(stream) \in Nat
    BY DEF TypeOK
  <1>2. IsFiniteSet(1..Len(stream))
    BY <1>1, FS_Interval
  <1>3. IsFiniteSet({ i \in DOMAIN stream : stream[i] = e })
    BY <1>1, <1>2, FS_Subset
  <1> QED
    BY <1>3, FS_CardinalityType DEF Copies

\* An XADD of e adds a copy of e and of nothing else.
LEMMA CopiesAfter ==
  ASSUME TypeOK, NEW e \in Events, stream' = Append(stream, e)
  PROVE  \A d : Copies(d)' = IF d = e THEN Copies(d) + 1 ELSE Copies(d)
  <1> SUFFICES ASSUME NEW d
               PROVE  Copies(d)' = IF d = e THEN Copies(d) + 1 ELSE Copies(d)
    OBVIOUS
  <1> DEFINE S == { i \in DOMAIN stream : stream[i] = d }
  <1>1. stream \in Seq(Events)
    BY DEF TypeOK
  <1>2. CASE d = e
    <2>1. { i \in DOMAIN stream' : stream'[i] = d } = S \cup {Len(stream) + 1}
      BY <1>1, <1>2, AppendFacts
    <2>2. Len(stream) + 1 \notin S
      BY <1>1, AppendFacts
    <2>3. IsFiniteSet(S)
      BY CopiesType
    <2>4. Cardinality(S \cup {Len(stream) + 1}) = Cardinality(S) + 1
      BY <2>2, <2>3, FS_AddElement
    <2> QED
      BY <1>2, <2>1, <2>4 DEF Copies
  <1>3. CASE d # e
    <2>1. { i \in DOMAIN stream' : stream'[i] = d } = S
      BY <1>1, <1>3, AppendFacts
    <2> QED
      BY <1>3, <2>1 DEF Copies
  <1> QED
    BY <1>2, <1>3

\* A fault may add the copy of one row; it makes room for one copy of each.
LEMMA FaultCopies ==
  ASSUME TypeOK, CopiesInv, NEW e \in Events, ~Accounted(e), Fault,
         stream' \in {stream, Append(stream, e)}
  PROVE  CopiesInv'
  <1>1. faults \in Nat /\ faults' = faults + 1
    BY FaultFacts DEF TypeOK
  <1>2. \A d \in Events : Copies(d) \in Nat
    BY CopiesType
  <1>3. \A d \in Events : Copies(d)' <= faults'
    <2>1. CASE stream' = stream
      BY <1>1, <1>2, <2>1 DEF CopiesInv, Copies
    <2>2. CASE stream' = Append(stream, e)
      BY <1>1, <1>2, <2>2, CopiesAfter DEF CopiesInv
    <2> QED
      BY <2>1, <2>2
  <1>4. \A d \in Events : Copies(d)' \in Nat
    <2>1. CASE stream' = stream
      BY <1>2, <2>1 DEF Copies
    <2>2. CASE stream' = Append(stream, e)
      BY <1>2, <2>2, CopiesAfter
    <2> QED
      BY <2>1, <2>2
  <1> QED
    BY <1>1, <1>3, <1>4 DEF CopiesInv

\* A row a relay has yet to send is not accounted for: nobody else holds it.
LEMMA UnsentNotAccounted ==
  ASSUME RelayInv, NEW r \in Relays, NEW e \in unsent[r]
  PROVE  e \in Events /\ ~Accounted(e)
  BY Batches DEF RelayInv, BatchesLocked, Accounted

\* With the same stream and faults it is enough that no row loses its account.
LEMMA SameCopies ==
  ASSUME CopiesInv, UNCHANGED <<stream, faults>>, \A e \in Events : Accounted(e) => Accounted(e)'
  PROVE  CopiesInv'
  BY DEF CopiesInv, Copies

LEMMA CopiesStep ==
  ASSUME RelayInv, CopiesInv, [Next]_vars
  PROVE  CopiesInv'
  <1>1. CASE UNCHANGED vars
    BY <1>1, SameCopies DEF vars, Accounted
  <1>2. ASSUME NEW e \in Events, AppendRow(e) \/ EndWriter(e)
        PROVE  CopiesInv'
    BY <1>2, SameCopies DEF AppendRow, EndWriter, Accounted
  <1>3. ASSUME NEW r \in Relays, Select(r)
        PROVE  CopiesInv'
    <2>1. \A e \in Events : Accounted(e) => Accounted(e)'
      BY <1>3 DEF Select, Accounted, RelayInv, TypeOK
    <2> QED
      BY <1>3, <2>1, SameCopies DEF Select
  <1>4. ASSUME NEW r \in Relays, Publish(r)
        PROVE  CopiesInv'
    <2>1. PICK e \in unsent[r] :
            stream' = Append(stream, e) /\ unsent' = [unsent EXCEPT ![r] = @ \ {e}]
      BY <1>4 DEF Publish
    <2>2. e \in Events /\ ~Accounted(e)
      BY UnsentNotAccounted
    <2>3. UNCHANGED <<published, batch, faults>>
      BY <1>4 DEF Publish
    <2>4. Accounted(e)' /\ \A d : Accounted(d) => Accounted(d)'
      BY <2>1, <2>3, Batches DEF Accounted, RelayInv, TypeOK
    <2>5. \A d : Copies(d)' = IF d = e THEN Copies(d) + 1 ELSE Copies(d)
      BY <2>1, <2>2, CopiesAfter DEF RelayInv
    <2>6. faults \in Nat /\ \A d \in Events : Copies(d) \in Nat
      <3>1. TypeOK
        BY DEF RelayInv
      <3>2. faults \in Nat
        BY <3>1 DEF TypeOK
      <3> QED
        BY <3>1, <3>2, CopiesType
    <2> QED
      BY <2>2, <2>3, <2>4, <2>5, <2>6 DEF CopiesInv
  <1>5. ASSUME NEW r \in Relays, Commit(r)
        PROVE  CopiesInv'
    <2>1. \A e \in Events : Accounted(e) => Accounted(e)'
      BY <1>5 DEF Commit, EndBatch, Accounted, RelayInv, TypeOK
    <2> QED
      BY <1>5, <2>1, SameCopies DEF Commit
  <1>6. ASSUME NEW r \in Relays, PublishFails(r)
        PROVE  CopiesInv'
    <2>1. PICK e \in unsent[r] : stream' \in {stream, Append(stream, e)}
      BY <1>6 DEF PublishFails
    <2> QED
      BY <1>6, <2>1, UnsentNotAccounted, FaultCopies DEF PublishFails, RelayInv
  <1>7. ASSUME NEW r \in Relays, CommitFails(r)
        PROVE  CopiesInv'
    <2>1. Fault /\ UNCHANGED stream
      BY <1>7 DEF CommitFails
    <2>2. faults \in Nat /\ faults' = faults + 1 /\ \A e \in Events : Copies(e) \in Nat
      <3>1. TypeOK
        BY DEF RelayInv
      <3>2. faults \in Nat
        BY <3>1 DEF TypeOK
      <3> QED
        BY <2>1, <3>1, <3>2, CopiesType, FaultFacts
    <2>3. \A e \in Events : Copies(e)' = Copies(e)
      BY <2>1 DEF Copies
    <2> QED
      BY <2>2, <2>3 DEF CopiesInv
  <1> QED
    BY <1>1, <1>2, <1>3, <1>4, <1>5, <1>6, <1>7 DEF Next, Relay

\* Each further copy of an event in the stream is the price of a fault.
THEOREM CopiesBounded == Spec => []CopiesNeedFaults
  <1>1. Init => CopiesInv
    <2>1. ASSUME Init, NEW e
          PROVE  Copies(e) = 0
      <3>1. { i \in DOMAIN stream : stream[i] = e } = {}
        BY <2>1 DEF Init
      <3> QED
        BY <3>1, FS_EmptySet DEF Copies
    <2> QED
      BY <2>1 DEF Init, CopiesInv
  <1>2. RelayInv /\ CopiesInv => CopiesNeedFaults
    BY DEF RelayInv, TypeOK, CopiesInv, CopiesNeedFaults
  <1> QED
    BY <1>1, <1>2, CopiesStep, Locking, PTL DEF Spec
=============================================================================
