------------------------ MODULE SchemaStartProofs ------------------------
(***************************************************************************)
(* Safety of the start, for any services, tables and number of stops.      *)
(* SchemaInv is inductive.  That at most one start fails takes one more    *)
(* fact: once a start has failed, the schema is there and nobody has found *)
(* a table missing.                                                        *)
(***************************************************************************)
EXTENDS SchemaStart, TLAPS

USE SchemaStartAssumption

\* What SchemaInv says of one service, its table sets and the others'.
ServiceInv(s) ==
  /\ stage[s] = "up" => schema = Tables
  /\ stage[s] = "listing" <=> holder = s
  /\ stage[s] # "listing" => unlisted[s] = {} /\ missing[s] = {}
  /\ stage[s] \notin {"listing", "unlocked"} => created[s] = {}
  /\ stage[s] = "listing" =>
       \/ created[s] = {} /\ Tables \subseteq unlisted[s] \cup missing[s] \cup schema
       \/ unlisted[s] = {} /\ schema = {} /\ missing[s] \cup created[s] = Tables
  /\ stage[s] = "unlocked" =>
       (created[s] = Tables /\ schema = {}) \/ (created[s] = {} /\ schema = Tables)
  /\ created[s] \cap missing[s] = {}
  /\ \A t \in Services \ {s} : created[s] \cap created[t] = {}

Parts == TypeOK /\ schema \in {{}, Tables} /\ \A s \in Services : ServiceInv(s)

\* SchemaInv is what it says of the schema and of each service, before a step
\* and after it.
LEMMA SchemaParts == (SchemaInv <=> Parts) /\ (SchemaInv' <=> Parts')
  BY DEF SchemaInv, Parts, ServiceInv

-----------------------------------------------------------------------------
\* A service starts, takes the lock, or looks up a table.
LEMMA BeforeCreating ==
  ASSUME SchemaInv, NEW s \in Services, NEW t \in Tables,
         Start(s) \/ Lock(s) \/ LookUp(s, t)
  PROVE  SchemaInv'
  <1> USE SchemaParts DEF Parts
  <1>1. CASE Start(s)
    <2>1. TypeOK'
      BY <1>1 DEF Start, TypeOK, Stage
    <2>2. ASSUME NEW u \in Services PROVE ServiceInv(u)'
      BY <1>1 DEF Start, TypeOK, ServiceInv, Stage
    <2> QED
      BY <1>1, <2>1, <2>2 DEF Start
  <1>2. CASE Lock(s)
    <2>1. TypeOK'
      BY <1>2 DEF Lock, TypeOK, Stage
    <2>2. ASSUME NEW u \in Services PROVE ServiceInv(u)'
      BY <1>2 DEF Lock, LockFree, TypeOK, ServiceInv, Stage
    <2> QED
      BY <1>2, <2>1, <2>2 DEF Lock
  <1>3. CASE LookUp(s, t)
    <2>1. TypeOK'
      BY <1>3 DEF LookUp, TypeOK
    <2>2. ASSUME NEW u \in Services PROVE ServiceInv(u)'
      BY <1>3 DEF LookUp, TypeOK, ServiceInv
    <2> QED
      BY <1>3, <2>1, <2>2 DEF LookUp
  <1> QED
    BY <1>1, <1>2, <1>3

\* The end of a service takes nothing away that others rely on.
LEMMA EndKeeps ==
  ASSUME SchemaInv, NEW s \in Services, End(s), losses' \in Nat, stops' \in 0..MaxStops
  PROVE  SchemaInv'
  <1> USE SchemaParts DEF Parts
  <1>1. TypeOK'
    BY DEF End, TypeOK, Stage
  <1>2. ASSUME NEW u \in Services PROVE ServiceInv(u)'
    BY DEF End, TypeOK, ServiceInv, Stage
  <1> QED
    BY <1>1, <1>2 DEF End

\* The first table a service creates shows that there is no schema yet.
LEMMA CreateKeeps ==
  ASSUME SchemaInv, NEW s \in Services, NEW t \in Tables, Create(s, t)
  PROVE  SchemaInv'
  <1> USE SchemaParts DEF Parts
  <1>1. CASE t \in schema
    BY <1>1, EndKeeps DEF Create, SchemaInv, TypeOK
  <1>2. CASE t \notin schema
    <2>1. TypeOK'
      BY <1>2 DEF Create, CreateTable, TypeOK
    <2>2. ASSUME NEW u \in Services PROVE ServiceInv(u)'
      BY <1>2 DEF Create, CreateTable, TypeOK, ServiceInv
    <2> QED
      BY <1>2, <2>1, <2>2 DEF Create, CreateTable
  <1> QED
    BY <1>1, <1>2

\* What a service commits is the whole schema or nothing.
LEMMA CommitKeeps ==
  ASSUME SchemaInv, NEW s \in Services, Unlock(s) \/ Commit(s)
  PROVE  SchemaInv'
  <1> USE SchemaParts DEF Parts
  <1>1. CASE Unlock(s)
    <2>1. TypeOK'
      BY <1>1 DEF Unlock, ReleaseLock, TypeOK, Stage
    <2>2. ASSUME NEW u \in Services PROVE ServiceInv(u)'
      <3>1. /\ UNCHANGED <<schema, unlisted, missing, created>>
            /\ holder' = NoService /\ holder = s
            /\ stage' = [stage EXCEPT ![s] = "unlocked"]
            /\ (created[s] = Tables /\ schema = {}) \/ (created[s] = {} /\ schema = Tables)
        BY <1>1 DEF Unlock, ReleaseLock, TypeOK, ServiceInv
      <3>2. CASE u = s
        BY <1>1, <3>1, <3>2 DEF Unlock, TypeOK, ServiceInv, Stage
      <3>3. CASE u # s
        BY <3>1, <3>3 DEF TypeOK, ServiceInv
      <3> QED
        BY <3>2, <3>3
    <2> QED
      BY <1>1, <2>1, <2>2 DEF Unlock
  <1>2. CASE Commit(s)
    <2>1. schema' = Tables /\ TypeOK'
      BY <1>2 DEF Commit, TypeOK, ServiceInv, Stage
    <2>2. ASSUME NEW u \in Services PROVE ServiceInv(u)'
      BY <1>2, <2>1 DEF Commit, TypeOK, ServiceInv, Stage
    <2> QED
      BY <2>1, <2>2
  <1> QED
    BY <1>1, <1>2

LEMMA SchemaStep == SchemaInv /\ [Next]_vars => SchemaInv'
  <1> SUFFICES ASSUME SchemaInv, [Next]_vars PROVE SchemaInv'
    OBVIOUS
  <1>1. ASSUME NEW s \in Services, Step(s) PROVE SchemaInv'
    BY <1>1, BeforeCreating, CreateKeeps, CommitKeeps DEF Step
  <1>2. ASSUME NEW s \in Services, Stop(s) PROVE SchemaInv'
    BY <1>2, EndKeeps DEF Stop, SchemaInv, TypeOK
  <1>3. CASE UNCHANGED vars
    BY <1>3 DEF vars, SchemaInv, TypeOK
  <1> QED
    BY <1>1, <1>2, <1>3 DEF Next

\* Nobody sees part of the schema, and a service is up only on all of it,
\* although the lock is released before the commit (init_database).
THEOREM WholeSchema == Spec => []SchemaInv
  <1>1. Init => SchemaInv
    BY DEF Init, SchemaInv, TypeOK, Stage
  <1> QED
    BY <1>1, SchemaStep, PTL DEF Spec

-----------------------------------------------------------------------------
\* Once a start has failed, the schema is there for good, and nobody has
\* missed a table or ever will.
LossInv ==
  losses = 0 \/ (losses = 1 /\ schema = Tables /\ \A s \in Services : missing[s] = {})

LEMMA LossStep == SchemaInv /\ LossInv /\ [Next]_vars => LossInv'
  <1> SUFFICES ASSUME SchemaInv, LossInv, [Next]_vars PROVE LossInv'
    OBVIOUS
  <1> USE SchemaParts DEF Parts
  <1>1. ASSUME NEW s \in Services, NEW t \in Tables, Create(s, t) PROVE LossInv'
    <2>1. CASE t \in schema
      <3>1. /\ holder = s /\ schema = Tables /\ losses = 0
            /\ \A u \in Services \ {s} : missing[u] = {}
        BY <1>1, <2>1 DEF Create, ServiceInv, LossInv
      <3> QED
        BY <1>1, <2>1, <3>1 DEF Create, End, LossInv, TypeOK
    <2>2. CASE t \notin schema
      BY <1>1, <2>2 DEF Create, CreateTable, LossInv
    <2> QED
      BY <2>1, <2>2
  <1>2. ASSUME NEW s \in Services, NEW t \in Tables, LookUp(s, t) PROVE LossInv'
    BY <1>2 DEF LookUp, LossInv, TypeOK
  <1>3. ASSUME NEW s \in Services,
               Start(s) \/ Lock(s) \/ Unlock(s) \/ Commit(s) \/ Stop(s)
        PROVE  LossInv'
    BY <1>3 DEF Start, Lock, Unlock, Commit, Stop, End, LossInv, TypeOK
  <1>4. CASE UNCHANGED vars
    BY <1>4 DEF vars, LossInv
  <1> QED
    BY <1>1, <1>2, <1>3, <1>4 DEF Next, Step

\* The look-ups of a service can straddle the commit of another one only once.
THEOREM OneLoser == Spec => []AtMostOneStartFails
  <1>1. Init => LossInv
    BY DEF Init, LossInv
  <1>2. LossInv => AtMostOneStartFails
    BY DEF LossInv, AtMostOneStartFails
  <1> QED
    BY <1>1, <1>2, LossStep, WholeSchema, PTL DEF Spec
=============================================================================
