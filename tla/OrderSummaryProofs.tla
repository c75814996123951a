------------------------ MODULE OrderSummaryProofs ------------------------
(***************************************************************************)
(* Safety of the order summary, for any sessions, counters and bounds.     *)
(* SummaryInv is inductive: whoever has the row has it alone.  With it,    *)
(* every commit keeps the account of SummaryExplained.                     *)
(***************************************************************************)
EXTENDS OrderSummary, FiniteSetTheorems, TLAPS

USE SummaryAssumption

PC == {"idle", "begun", "inserting", "locked"}

\* TransactionsApart for one pair of sessions or workers.
OneRow(s, t) == pc[s] = "locked" /\ pc[t] = "locked" => s = t

RowInHand(w) ==
  /\ pc[w] = "locked" => seen[w] = IF NoRow THEN Zero ELSE summary
  /\ pc[w] # "idle" => claim[w] \in Counted \ processed

OneClaim(v, w) == pc[v] # "idle" /\ pc[w] # "idle" /\ claim[v] = claim[w] => v = w

Parts ==
  /\ TypeOK
  /\ \A s, t \in Sessions : OneRow(s, t)
  /\ \A w \in Workers : RowInHand(w)
  /\ \A v, w \in Workers : OneClaim(v, w)

LEMMA SummaryParts == (SummaryInv <=> Parts) /\ (SummaryInv' <=> Parts')
  BY DEF SummaryInv, TransactionsApart, Parts, OneRow, RowInHand, OneClaim

\* Counting events of the log gives natural numbers.
LEMMA TallyType ==
  ASSUME NEW S \in SUBSET (1..Len(event_log)), Len(event_log) \in Nat
  PROVE  Tally(S) \in [Fields -> Nat]
  <1>1. ASSUME NEW f \in Fields
        PROVE  Cardinality({ e \in S : event_log[e] = f }) \in Nat
    <2>1. IsFiniteSet(1..Len(event_log))
      BY FS_Interval
    <2>2. { e \in S : event_log[e] = f } \subseteq 1..Len(event_log)
      OBVIOUS
    <2> QED
      BY <2>1, <2>2, FS_Subset, FS_CardinalityType
  <1> QED
    BY <1>1 DEF Tally

\* One more event adds one to its counter and nothing to the others.
LEMMA TallyAdds ==
  ASSUME NEW S \in SUBSET (1..Len(event_log)), Len(event_log) \in Nat,
         NEW c \in 1..Len(event_log), c \notin S, NEW f \in Fields
  PROVE  Tally(S \cup {c})[f] = Tally(S)[f] + (IF event_log[c] = f THEN 1 ELSE 0)
  <1> DEFINE T == { e \in S : event_log[e] = f }
  <1>1. /\ Tally(S)[f] = Cardinality(T)
        /\ Tally(S \cup {c})[f] = Cardinality({ e \in S \cup {c} : event_log[e] = f })
        /\ Tally(S)[f] \in Nat
    BY TallyType DEF Tally
  <1>2. CASE event_log[c] = f
    <2>1. IsFiniteSet(T)
      <3>1. IsFiniteSet(1..Len(event_log))
        BY FS_Interval
      <3>2. T \subseteq 1..Len(event_log)
        OBVIOUS
      <3> QED
        BY <3>1, <3>2, FS_Subset
    <2>2. { e \in S \cup {c} : event_log[e] = f } = T \cup {c} /\ c \notin T
      BY <1>2
    <2>3. Cardinality(T \cup {c}) = Cardinality(T) + 1
      BY <2>1, <2>2, FS_AddElement
    <2> QED
      BY <1>1, <1>2, <2>2, <2>3
  <1>3. CASE event_log[c] # f
    <2>1. { e \in S \cup {c} : event_log[e] = f } = T
      BY <1>3
    <2>2. Tally(S \cup {c})[f] = Tally(S)[f]
      BY <1>1, <2>1, Zenon
    <2> HIDE DEF T
    <2> QED
      BY <1>1, <1>3, <2>2
  <1> QED
    BY <1>2, <1>3

\* What the log and the row look like in the states of the specification.
LEMMA LogFacts ==
  ASSUME TypeOK
  PROVE  /\ Len(event_log) \in Nat
         /\ Events = 1..Len(event_log)
         /\ Counted \subseteq 1..Len(event_log)
         /\ processed \subseteq 1..Len(event_log)
         /\ \A e \in Counted : event_log[e] \in Fields
         /\ ~NoRow => summary \in [Fields -> Int]
         /\ \A row \in [Fields -> Int] : row # [f \in {} |-> 0]
  <1>1. ASSUME NEW row \in [Fields -> Int] PROVE row # [f \in {} |-> 0]
    <2>1. DOMAIN row = Fields /\ DOMAIN [f \in {} |-> 0] = {}
      OBVIOUS
    <2> QED
      BY <2>1
  <1> QED
    BY <1>1 DEF TypeOK, Events, Counted, NoRow

-----------------------------------------------------------------------------
\* A new event is counted or not; those before it are what they were.
LEMMA AppendKeeps ==
  ASSUME SummaryInv, NEW f \in Fields \cup {Uncounted}, AppendEvent(f)
  PROVE  SummaryInv' /\ Tally(processed)' = Tally(processed)
  <1>1. /\ event_log \in Seq(Fields \cup {Uncounted})
        /\ event_log' = Append(event_log, f)
        /\ UNCHANGED <<processed, summary, pc, claim, seen, drift, faults>>
        /\ Parts
    BY SummaryParts DEF AppendEvent, SummaryInv, TypeOK
  <1>2. /\ event_log' \in Seq(Fields \cup {Uncounted})
        /\ DOMAIN event_log' = DOMAIN event_log \cup {Len(event_log) + 1}
        /\ \A e \in DOMAIN event_log : event_log'[e] = event_log[e]
    BY <1>1
  <1>3. Counted \subseteq Counted'
    BY <1>2 DEF Counted, Events
  <1>4. TypeOK'
    BY <1>1, <1>2, <1>3 DEF Parts, TypeOK, NoRow
  <1>5. \A w \in Workers : RowInHand(w)'
    BY <1>1, <1>3 DEF Parts, RowInHand, NoRow, Zero
  <1>6. processed \subseteq DOMAIN event_log
    BY <1>1 DEF Parts, TypeOK, Counted, Events
  <1>7. Tally(processed)' = Tally(processed)
    BY <1>1, <1>2, <1>6 DEF Tally
  <1> QED
    BY <1>1, <1>4, <1>5, <1>7, SummaryParts DEF Parts, OneRow, OneClaim

\* A transaction that begins: a claim nobody has, or a count of the log.
LEMMA BeginKeeps ==
  ASSUME SummaryInv,
         \/ \E w \in Workers, e \in Counted : TryInsert(w, e)
         \/ \E a \in Admins : ListAll(a)
  PROVE  SummaryInv'
  <1>1. Parts /\ TypeOK
    BY SummaryParts DEF Parts
  <1>2. ASSUME NEW w \in Workers, NEW e \in Counted, TryInsert(w, e)
        PROVE  SummaryInv'
    <2>1. /\ pc' = [pc EXCEPT ![w] = "begun"]
          /\ claim' = [claim EXCEPT ![w] = e]
          /\ UNCHANGED <<event_log, processed, summary, seen, drift, faults>>
          /\ pc[w] = "idle"
          /\ e \notin processed
          /\ \A v \in Workers : pc[v] # "idle" => claim[v] # e
      BY <1>2 DEF TryInsert, Claimed
    <2>2. e \in Nat /\ w \in Sessions /\ Counted' = Counted
      BY <1>1, <2>1, LogFacts DEF Counted, Events, Sessions
    <2>3. TypeOK'
      BY <1>1, <2>1, <2>2 DEF TypeOK, NoRow
    <2>4. \A v \in Workers : RowInHand(v)'
      BY <1>1, <2>1, <2>2 DEF Parts, TypeOK, RowInHand, NoRow, Zero, Sessions
    <2>5. \A u, v \in Workers : OneClaim(u, v)'
      BY <1>1, <2>1 DEF Parts, TypeOK, OneClaim, Sessions
    <2>6. \A s, t \in Sessions : OneRow(s, t)'
      BY <1>1, <2>1 DEF Parts, TypeOK, OneRow
    <2> QED
      BY <2>3, <2>4, <2>5, <2>6, SummaryParts DEF Parts
  <1>3. ASSUME NEW a \in Admins, ListAll(a) PROVE SummaryInv'
    <2>1. /\ pc' = [pc EXCEPT ![a] = "begun"]
          /\ seen' = [seen EXCEPT ![a] = Tally(Events)]
          /\ UNCHANGED <<event_log, processed, summary, claim, drift, faults>>
      BY <1>3 DEF ListAll
    <2>2. Tally(Events) \in [Fields -> Int] /\ a \in Sessions /\ a \notin Workers
      BY <1>1, LogFacts, TallyType DEF Sessions
    <2>3. TypeOK'
      BY <1>1, <2>1, <2>2 DEF TypeOK, NoRow, Counted, Events
    <2>4. \A v \in Workers : RowInHand(v)'
      BY <1>1, <2>1, <2>2 DEF Parts, TypeOK, RowInHand, NoRow, Zero, Sessions, Counted, Events
    <2>5. \A u, v \in Workers : OneClaim(u, v)'
      BY <1>1, <2>1, <2>2 DEF Parts, TypeOK, OneClaim, Sessions
    <2>6. \A s, t \in Sessions : OneRow(s, t)'
      BY <1>1, <2>1 DEF Parts, TypeOK, OneRow
    <2> QED
      BY <2>3, <2>4, <2>5, <2>6, SummaryParts DEF Parts
  <1> QED
    BY <1>2, <1>3

\* The row is free, and is taken by s with the counters it has.
LEMMA HoldKeeps ==
  ASSUME SummaryInv, NEW s \in Sessions, ~RowLocked(s), pc[s] # "idle",
         NEW counters \in [Fields -> Int],
         counters = IF NoRow THEN Zero ELSE summary,
         Holds(s, counters), UNCHANGED <<event_log, processed, summary, claim, drift, faults>>
  PROVE  SummaryInv'
  <1>1. Parts /\ TypeOK
    BY SummaryParts DEF Parts
  <1>2. /\ pc' = [pc EXCEPT ![s] = "locked"]
        /\ s \in Workers => seen' = [seen EXCEPT ![s] = counters]
        /\ s \notin Workers => seen' = seen
        /\ \A t \in Sessions \ {s} : pc[t] # "locked"
    BY DEF Holds, RowLocked
  <1>3. TypeOK'
    <2>1. seen' \in [Sessions -> [Fields -> Int]] /\ pc' \in [Sessions -> PC]
      BY <1>1, <1>2 DEF TypeOK, PC
    <2> QED
      BY <1>1, <2>1 DEF TypeOK, NoRow, Counted, Events, PC
  <1>4. \A w \in Workers : RowInHand(w)'
    <2> SUFFICES ASSUME NEW w \in Workers PROVE RowInHand(w)'
      OBVIOUS
    <2>1. RowInHand(w) /\ w \in Sessions /\ Counted' = Counted
      BY <1>1 DEF Parts, Sessions, Counted, Events
    <2>2. pc'[w] = "locked" => w = s
      BY <1>1, <1>2, <2>1 DEF TypeOK
    <2>3. w = s => seen'[w] = IF NoRow THEN Zero ELSE summary
      BY <1>1, <1>2 DEF TypeOK
    <2>4. pc'[w] # "idle" => pc[w] # "idle"
      BY <1>1, <1>2, <2>1 DEF TypeOK
    <2> QED
      BY <2>1, <2>2, <2>3, <2>4 DEF RowInHand, NoRow, Zero
  <1>5. \A v, w \in Workers : OneClaim(v, w)'
    BY <1>1, <1>2 DEF Parts, TypeOK, OneClaim, Sessions
  <1>6. \A t, u \in Sessions : OneRow(t, u)'
    BY <1>1, <1>2 DEF Parts, TypeOK, OneRow
  <1> QED
    BY <1>3, <1>4, <1>5, <1>6, SummaryParts DEF Parts

\* A transaction that ends or goes on without the row.
LEMMA ReleaseKeeps ==
  ASSUME SummaryInv, NEW s \in Sessions, NEW stage \in {"idle", "inserting"},
         pc[s] # "idle", pc' = [pc EXCEPT ![s] = stage], faults' \in 0..MaxFaults,
         UNCHANGED <<event_log, processed, summary, claim, seen, drift>>
  PROVE  SummaryInv'
  <1>1. Parts /\ TypeOK
    BY SummaryParts DEF Parts
  <1>2. TypeOK'
    BY <1>1 DEF TypeOK, NoRow, Counted, Events
  <1>3. \A w \in Workers : RowInHand(w)'
    BY <1>1 DEF Parts, TypeOK, RowInHand, NoRow, Zero, Sessions, Counted, Events
  <1>4. \A v, w \in Workers : OneClaim(v, w)'
    BY <1>1 DEF Parts, TypeOK, OneClaim, Sessions
  <1>5. \A t, u \in Sessions : OneRow(t, u)'
    BY <1>1 DEF Parts, TypeOK, OneRow
  <1> QED
    BY <1>2, <1>3, <1>4, <1>5, SummaryParts DEF Parts

\* A commit writes the row, which nobody else has.
LEMMA CommitKeeps ==
  ASSUME SummaryInv, NEW s \in Sessions, CommitIncrement(s) \/ CommitReplace(s)
  PROVE  SummaryInv'
  <1>1. Parts /\ TypeOK
    BY SummaryParts DEF Parts
  <1>2. /\ pc[s] = "locked"
        /\ pc' = [pc EXCEPT ![s] = "idle"]
        /\ UNCHANGED <<event_log, claim, seen, faults>>
        /\ Counted' = Counted
    BY DEF CommitIncrement, CommitReplace, Counted, Events
  <1>3. /\ \A t \in Sessions : pc'[t] # "locked"
        /\ \A t \in Sessions : pc'[t] # "idle" => pc[t] # "idle" /\ t # s
    BY <1>1, <1>2 DEF Parts, OneRow, TypeOK
  <1>4. /\ summary' \in [Fields -> Int] /\ drift' \in [Fields -> Int]
        /\ processed' \subseteq Counted
        /\ \A w \in Workers : pc'[w] # "idle" => claim[w] \notin processed'
    <2>1. CASE CommitIncrement(s)
      <3>1. /\ s \in Workers
            /\ seen[s] \in [Fields -> Int]
            /\ claim[s] \in Counted
            /\ event_log[claim[s]] \in Fields
            /\ processed' = processed \cup {claim[s]}
            /\ summary' = [seen[s] EXCEPT ![event_log[claim[s]]] = @ + 1]
            /\ drift' = drift
        BY <1>1, <1>2, <2>1 DEF CommitIncrement, Parts, RowInHand, TypeOK, Counted
      <3>2. summary' \in [Fields -> Int]
        BY <3>1
      <3>3. \A w \in Workers : pc'[w] # "idle" => claim[w] \notin processed'
        BY <1>1, <1>2, <1>3, <3>1 DEF Parts, RowInHand, OneClaim, Sessions
      <3> QED
        BY <1>1, <3>1, <3>2, <3>3 DEF TypeOK
    <2>2. CASE CommitReplace(s)
      <3>1. /\ Tally(processed) \in [Fields -> Nat]
            /\ seen[s] \in [Fields -> Int]
        BY <1>1, LogFacts, TallyType DEF TypeOK
      <3>2. /\ summary' = seen[s]
            /\ drift' = [f \in Fields |-> seen[s][f] - Tally(processed)[f]]
            /\ processed' = processed
        BY <2>2 DEF CommitReplace
      <3>3. drift' \in [Fields -> Int]
        BY <3>1, <3>2
      <3>4. \A w \in Workers : pc'[w] # "idle" => claim[w] \notin processed'
        BY <1>1, <1>3, <3>2 DEF Parts, RowInHand, Sessions
      <3> QED
        BY <1>1, <3>1, <3>2, <3>3, <3>4 DEF TypeOK
    <2> QED
      BY <2>1, <2>2
  <1>5. TypeOK'
    BY <1>1, <1>2, <1>4 DEF TypeOK
  <1>6. \A w \in Workers : RowInHand(w)'
    BY <1>1, <1>2, <1>3, <1>4 DEF Parts, RowInHand, Sessions
  <1>7. \A v, w \in Workers : OneClaim(v, w)'
    BY <1>1, <1>2, <1>3 DEF Parts, OneClaim, Sessions
  <1>8. \A t, u \in Sessions : OneRow(t, u)'
    BY <1>3 DEF OneRow
  <1> QED
    BY <1>5, <1>6, <1>7, <1>8, SummaryParts DEF Parts

LEMMA SummaryStep == SummaryInv /\ [Next]_vars => SummaryInv'
  <1> SUFFICES ASSUME SummaryInv, [Next]_vars PROVE SummaryInv'
    OBVIOUS
  <1>1. TypeOK
    BY DEF SummaryInv
  <1>2. ASSUME NEW s \in Sessions, LockRow(s) PROVE SummaryInv'
    BY <1>1, <1>2, HoldKeeps, LogFacts DEF LockRow
  <1>3. ASSUME NEW s \in Sessions, InsertRow(s) PROVE SummaryInv'
    <2>1. Zero \in [Fields -> Int]
      BY DEF Zero
    <2> QED
      BY <1>3, <2>1, HoldKeeps DEF InsertRow
  <1>4. ASSUME NEW s \in Sessions, MissRow(s) PROVE SummaryInv'
    BY <1>1, <1>4, ReleaseKeeps DEF MissRow, TypeOK
  <1>5. ASSUME NEW s \in Sessions, RowExists(s) PROVE SummaryInv'
    BY <1>1, <1>5, ReleaseKeeps DEF RowExists, LoserRollsBack, TypeOK
  <1>6. ASSUME NEW s \in Sessions, Fails(s) PROVE SummaryInv'
    <2>1. faults' \in 0..MaxFaults
      BY <1>1, <1>6 DEF Fails, TypeOK
    <2>2. /\ pc[s] # "idle"
          /\ pc' = [pc EXCEPT ![s] = "idle"]
          /\ UNCHANGED <<event_log, processed, summary, claim, seen, drift>>
      BY <1>6 DEF Fails
    <2> QED
      BY <2>1, <2>2, ReleaseKeeps
  <1>7. CASE UNCHANGED vars
    BY <1>7 DEF vars, SummaryInv, TypeOK, TransactionsApart, NoRow, Counted, Events, Zero
  <1> QED
    BY <1>2, <1>3, <1>4, <1>5, <1>6, <1>7, AppendKeeps, BeginKeeps, CommitKeeps
       DEF Next, Finish, GetRow

\* At most one transaction has the summary row, and what a projection has
\* read of it is what it holds (get ... FOR UPDATE, uq_processed_events).
THEOREM RowAlone == Spec => []SummaryInv
  <1>1. ASSUME Init PROVE SummaryInv
    <2>1. TypeOK
      <3>1. NoRow /\ processed \subseteq Counted /\ faults \in 0..MaxFaults
        BY <1>1 DEF Init, NoRow
      <3>2. Zero \in [Fields -> Int] /\ event_log \in Seq(Fields \cup {Uncounted})
        BY <1>1 DEF Init, Zero
      <3>3. /\ pc \in [Sessions -> {"idle", "begun", "inserting", "locked"}]
            /\ claim \in [Workers -> Nat]
            /\ seen \in [Sessions -> [Fields -> Int]]
            /\ drift \in [Fields -> Int]
        BY <1>1, <3>2 DEF Init
      <3> QED
        BY <3>1, <3>2, <3>3 DEF TypeOK
    <2>2. \A s \in Sessions : pc[s] = "idle"
      BY <1>1 DEF Init
    <2> QED
      BY <2>1, <2>2 DEF SummaryInv, TransactionsApart, Sessions
  <1> QED
    BY <1>1, SummaryStep, PTL DEF Spec

-----------------------------------------------------------------------------
\* The increment of a projection is accounted for by its processed_events row.
LEMMA IncrementExplained ==
  ASSUME SummaryInv, SummaryExplained, NEW w \in Sessions, CommitIncrement(w)
  PROVE  SummaryExplained'
  <1> DEFINE c == claim[w]
  <1>1. /\ TypeOK
        /\ w \in Workers
        /\ pc[w] = "locked"
        /\ seen[w] = IF NoRow THEN Zero ELSE summary
        /\ c \in Counted \ processed
        /\ seen[w] \in [Fields -> Int]
        /\ drift \in [Fields -> Int]
    BY DEF SummaryInv, TransactionsApart, CommitIncrement, TypeOK
  <1>2. /\ summary' = [seen[w] EXCEPT ![event_log[c]] = @ + 1]
        /\ processed' = processed \cup {c}
        /\ UNCHANGED <<event_log, drift>>
    BY DEF CommitIncrement
  <1>3. /\ Len(event_log) \in Nat
        /\ processed \in SUBSET (1..Len(event_log))
        /\ c \in 1..Len(event_log)
        /\ event_log[c] \in Fields
        /\ Tally(processed) \in [Fields -> Nat]
    BY <1>1, LogFacts, TallyType
  <1> HIDE DEF c
  <1>4. summary' \in [Fields -> Int] /\ ~NoRow'
    <2>1. summary' \in [Fields -> Int]
      BY <1>1, <1>2, <1>3
    <2> QED
      BY <1>1, <2>1, LogFacts DEF NoRow
  <1>5. ASSUME NEW f \in Fields
        PROVE  summary'[f] = Tally(processed)'[f] + drift'[f]
    <2>1. Tally(processed)' = Tally(processed \cup {c})
      BY <1>2 DEF Tally
    <2>2. Tally(processed \cup {c})[f]
            = Tally(processed)[f] + (IF event_log[c] = f THEN 1 ELSE 0)
      BY <1>1, <1>3, TallyAdds
    <2>3. summary'[f] = seen[w][f] + (IF event_log[c] = f THEN 1 ELSE 0)
      BY <1>1, <1>2, <1>3
    <2>4. seen[w][f] = Tally(processed)[f] + drift[f]
      <3>1. CASE NoRow
        <4>1. processed = {} /\ drift = Zero
          BY <3>1 DEF SummaryExplained
        <4>2. { e \in processed : event_log[e] = f } = {}
          BY <4>1
        <4>3. Tally(processed)[f] = 0
          BY <4>2, FS_EmptySet DEF Tally
        <4> QED
          BY <1>1, <3>1, <4>1, <4>3 DEF Zero
      <3>2. CASE ~NoRow
        BY <1>1, <3>2 DEF SummaryExplained
      <3> QED
        BY <3>1, <3>2
    <2>5. Tally(processed)'[f]
            = Tally(processed)[f] + (IF event_log[c] = f THEN 1 ELSE 0)
      BY <2>1, <2>2, Zenon
    <2>6. drift'[f] = drift[f] /\ drift[f] \in Int /\ Tally(processed)[f] \in Nat
      BY <1>1, <1>2, <1>3
    <2> DEFINE n == Tally(processed)[f]
               m == Tally(processed)'[f]
               k == IF event_log[c] = f THEN 1 ELSE 0
    <2>7. k \in Nat
      OBVIOUS
    <2>8. /\ m = n + k
          /\ n \in Nat
          /\ summary'[f] = seen[w][f] + k
          /\ seen[w][f] = n + drift[f]
      BY <2>3, <2>4, <2>5, <2>6
    <2> HIDE DEF n, m, k
    <2>9. summary'[f] = m + drift'[f]
      BY <2>6, <2>7, <2>8
    <2> QED
      BY <2>9 DEF m
  <1> QED
    BY <1>4, <1>5 DEF SummaryExplained

\* A rebuild is accounted for by what it was off.
LEMMA ReplaceExplained ==
  ASSUME SummaryInv, NEW a \in Sessions, CommitReplace(a)
  PROVE  SummaryExplained'
  <1>1. /\ TypeOK
        /\ seen[a] \in [Fields -> Int]
        /\ summary' = seen[a]
        /\ drift' = [f \in Fields |-> seen[a][f] - Tally(processed)[f]]
        /\ UNCHANGED <<event_log, processed>>
    BY DEF SummaryInv, TypeOK, CommitReplace
  <1>2. Tally(processed) \in [Fields -> Nat] /\ Tally(processed)' = Tally(processed)
    BY <1>1, LogFacts, TallyType DEF Tally
  <1>3. ~NoRow'
    BY <1>1, LogFacts DEF NoRow
  <1>4. \A f \in Fields : summary'[f] = Tally(processed)[f] + drift'[f]
    BY <1>1, <1>2
  <1> QED
    BY <1>2, <1>3, <1>4 DEF SummaryExplained

LEMMA ExplainedStep == SummaryInv /\ SummaryExplained /\ [Next]_vars => SummaryExplained'
  <1> SUFFICES ASSUME SummaryInv, SummaryExplained, [Next]_vars PROVE SummaryExplained'
    OBVIOUS
  <1>1. ASSUME NEW f \in Fields \cup {Uncounted}, AppendEvent(f)
        PROVE  SummaryExplained'
    <2>1. Tally(processed)' = Tally(processed) /\ UNCHANGED <<summary, processed, drift>>
      BY <1>1, AppendKeeps DEF AppendEvent
    <2> QED
      BY <2>1 DEF SummaryExplained, NoRow, Zero
  <1>2. CASE UNCHANGED <<event_log, summary, processed, drift>>
    BY <1>2 DEF SummaryExplained, NoRow, Zero, Tally
  <1>3. \/ \E f \in Fields \cup {Uncounted} : AppendEvent(f)
        \/ \E s \in Sessions : CommitIncrement(s) \/ CommitReplace(s)
        \/ UNCHANGED <<event_log, summary, processed, drift>>
    BY DEF Next, Finish, GetRow, TryInsert, ListAll, LockRow, MissRow, InsertRow, RowExists,
       Fails, vars
  <1> QED
    BY <1>1, <1>2, <1>3, IncrementExplained, ReplaceExplained

\* No increment is lost, doubled or without its processed_events row: the
\* summary is the tally of the projected events, off by the last rebuild only.
THEOREM Explained == Spec => []SummaryExplained
  <1>1. Init => SummaryExplained
    BY DEF Init, SummaryExplained, NoRow
  <1> QED
    BY <1>1, ExplainedStep, RowAlone, PTL DEF Spec

-----------------------------------------------------------------------------
(***************************************************************************)
(* Every commit is a step of ReadModel.  A projection writes the counters  *)
(* it has alone (SummaryInv); what a rebuild writes is a count of the log  *)
(* as it was when it read it, however long it waits for the row since.     *)
(***************************************************************************)
CountsLog ==
  \A a \in Admins : pc[a] # "idle" => \E n \in 0..Len(event_log) : seen[a] = Tally(1..n)

\* Events that are appended do not change the count of those before them.
LEMMA TallyOfPast ==
  ASSUME TypeOK, NEW f \in Fields \cup {Uncounted}, AppendEvent(f), NEW n \in 0..Len(event_log)
  PROVE  n \in 0..Len(event_log)' /\ Tally(1..n)' = Tally(1..n)
  <1>1. /\ Len(event_log) \in Nat /\ Len(event_log') = Len(event_log) + 1
        /\ \A e \in 1..Len(event_log) : event_log'[e] = event_log[e]
    BY DEF TypeOK, AppendEvent
  <1>2. \A e \in 1..n : event_log'[e] = event_log[e]
    BY <1>1
  <1>3. \A counter \in Fields :
          { e \in 1..n : event_log'[e] = counter } = { e \in 1..n : event_log[e] = counter }
    BY <1>2
  <1>4. Tally(1..n)' = Tally(1..n)
    BY <1>3 DEF Tally
  <1> QED
    BY <1>1, <1>4

LEMMA CountsLogStep ==
  ASSUME SummaryInv, CountsLog, [Next]_vars
  PROVE  CountsLog'
  <1> SUFFICES ASSUME NEW a \in Admins, pc'[a] # "idle"
               PROVE  \E n \in 0..Len(event_log') : seen'[a] = Tally(1..n)'
    BY DEF CountsLog
  <1>1. TypeOK /\ a \in Sessions /\ a \notin Workers
    BY DEF SummaryInv, Sessions
  <1>2. CASE \E f \in Fields \cup {Uncounted} : AppendEvent(f)
    <2>1. PICK f \in Fields \cup {Uncounted} : AppendEvent(f)
      BY <1>2
    <2>2. pc'[a] = pc[a] /\ seen'[a] = seen[a]
      BY <2>1 DEF AppendEvent
    <2>3. PICK n \in 0..Len(event_log) : seen[a] = Tally(1..n)
      BY <2>2 DEF CountsLog
    <2> QED
      BY <1>1, <2>1, <2>2, <2>3, TallyOfPast
  <1>3. CASE ListAll(a)
    <2>1. seen'[a] = Tally(1..Len(event_log)) /\ UNCHANGED event_log
      BY <1>1, <1>3, LogFacts DEF ListAll, TypeOK
    <2>2. Tally(1..Len(event_log))' = Tally(1..Len(event_log))
      BY <2>1 DEF Tally
    <2> QED
      BY <1>1, <2>1, <2>2, LogFacts
  <1>4. CASE UNCHANGED event_log /\ pc[a] # "idle" /\ seen'[a] = seen[a]
    <2>1. PICK n \in 0..Len(event_log) : seen[a] = Tally(1..n)
      BY <1>4 DEF CountsLog
    <2>2. Tally(1..n)' = Tally(1..n)
      BY <1>4 DEF Tally
    <2> QED
      BY <1>4, <2>1, <2>2
  <1>5. ASSUME NEW s \in Sessions, Finish(s) \/ Fails(s)
        PROVE  UNCHANGED event_log /\ pc[a] # "idle" /\ seen'[a] = seen[a]
    <2>1. UNCHANGED event_log /\ (pc'[s] # "idle" => pc[s] # "idle")
          /\ \A t \in Sessions \ {s} : pc'[t] = pc[t]
      BY <1>1, <1>5 DEF Finish, GetRow, LockRow, MissRow, InsertRow, RowExists, LoserRollsBack,
                        Holds, CommitIncrement, CommitReplace, Fails, TypeOK
    <2>2. seen'[a] = seen[a]
      BY <1>1, <1>5 DEF Finish, GetRow, LockRow, MissRow, InsertRow, RowExists, Holds,
                        CommitIncrement, CommitReplace, Fails, TypeOK
    <2> QED
      BY <1>1, <2>1, <2>2
  <1>6. ASSUME NEW w \in Workers, NEW e \in Counted, TryInsert(w, e)
        PROVE  UNCHANGED event_log /\ pc[a] # "idle" /\ seen'[a] = seen[a]
    BY <1>1, <1>6 DEF TryInsert, TypeOK
  <1>7. ASSUME NEW b \in Admins, b # a, ListAll(b)
        PROVE  UNCHANGED event_log /\ pc[a] # "idle" /\ seen'[a] = seen[a]
    BY <1>1, <1>7 DEF ListAll, TypeOK
  <1>8. CASE UNCHANGED vars
    BY <1>4, <1>8 DEF vars
  <1> QED
    BY <1>2, <1>3, <1>4, <1>5, <1>6, <1>7, <1>8 DEF Next

LEMMA ModelStep ==
  ASSUME SummaryInv, CountsLog, [Next]_vars
  PROVE  [Model!Next]_(Model!vars)
  <1>1. TypeOK
    BY DEF SummaryInv
  <1>2. CASE \E f \in Fields \cup {Uncounted} : AppendEvent(f)
    BY <1>2 DEF AppendEvent, Model!Next, Model!Happen, Counters, NoRow, Zero
  <1>3. ASSUME NEW w \in Sessions, CommitIncrement(w)
        PROVE  Model!Next
    <2> DEFINE c == claim[w]
    <2>1. /\ w \in Workers
          /\ seen[w] = Counters
          /\ c \in Counted \ processed
      BY <1>3 DEF SummaryInv, TransactionsApart, CommitIncrement, Counters
    <2>2. /\ summary' = [seen[w] EXCEPT ![event_log[c]] = @ + 1]
          /\ processed' = processed \cup {c}
          /\ UNCHANGED event_log
      BY <1>3 DEF CommitIncrement
    <2>3. seen[w] \in [Fields -> Int] /\ event_log[c] \in Fields /\ c \in DOMAIN event_log
      BY <1>1, <2>1 DEF TypeOK, Counted, Events
    <2> HIDE DEF c
    <2>4. summary' \in [Fields -> Int]
      BY <2>2, <2>3
    <2>5. Counters' = summary'
      BY <1>1, <2>4, LogFacts DEF Counters, NoRow
    <2>6. Model!Project(c)
      BY <2>1, <2>2, <2>3, <2>5 DEF Model!Project
    <2> QED
      BY <2>3, <2>6 DEF Model!Next
  <1>4. ASSUME NEW a \in Sessions, CommitReplace(a)
        PROVE  Model!Next
    <2>1. /\ a \in Admins /\ pc[a] = "locked" /\ summary' = seen[a]
          /\ UNCHANGED <<event_log, processed>>
      BY <1>4 DEF CommitReplace
    <2>2. PICK n \in 0..Len(event_log) : seen[a] = Tally(1..n)
      BY <2>1 DEF CountsLog
    <2>3. summary' \in [Fields -> Int]
      BY <1>1, <2>1 DEF TypeOK
    <2>4. Counters' = Tally(1..n)
      BY <1>1, <2>1, <2>2, <2>3, LogFacts DEF Counters, NoRow
    <2>5. Model!Rebuild
      <3>1. Model!CountsOf(1..n) = Tally(1..n)
        BY DEF Model!CountsOf, Tally, Model!Cardinality, Cardinality
      <3> QED
        BY <2>1, <2>4, <3>1 DEF Model!Rebuild
    <2> QED
      BY <2>5 DEF Model!Next
  <1>5. CASE UNCHANGED <<event_log, processed, summary>>
    BY <1>5 DEF Model!vars, Counters, NoRow, Zero
  <1>6. \/ \E f \in Fields \cup {Uncounted} : AppendEvent(f)
        \/ \E s \in Sessions : CommitIncrement(s) \/ CommitReplace(s)
        \/ UNCHANGED <<event_log, processed, summary>>
    BY DEF Next, Finish, GetRow, TryInsert, ListAll, LockRow, MissRow, InsertRow, RowExists,
       Fails, vars
  <1> QED
    BY <1>2, <1>3, <1>4, <1>5, <1>6

\* To the readers of the summary, each commit counts one event once or puts in
\* a count of the log as some rebuild read it: the lazily inserted row, its
\* races and the transactions that fail do not show.
THEOREM SummaryIsReadModel == Spec => ImplementsReadModel
  <1>1. Init => Model!Init /\ CountsLog
    <2>1. ASSUME Init
          PROVE  NoRow /\ \A a \in Admins : pc[a] = "idle"
      BY <2>1 DEF Init, NoRow, Sessions
    <2> QED
      BY <2>1 DEF Init, Model!Init, Counters, Zero, CountsLog
  <1> QED
    BY <1>1, CountsLogStep, ModelStep, RowAlone, PTL DEF Spec, ImplementsReadModel, Model!Spec
=============================================================================
