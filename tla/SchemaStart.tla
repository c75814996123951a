--------------------------- MODULE SchemaStart ---------------------------
(***************************************************************************)
(* The start of the services: the API, the relay and the three workers all *)
(* call init_database before anything else, and docker compose starts them *)
(* side by side.  On PostgreSQL the call takes an advisory lock, lets      *)
(* create_all look up every table and create the missing ones, releases    *)
(* the lock in its finally block, and commits only after that, where       *)
(* engine.begin() ends.                                                    *)
(*                                                                         *)
(* Each look-up sees what is committed at that moment.  CREATE TABLE waits *)
(* for another transaction that has created the table and fails if that    *)
(* one commits.  The exception ends the process, and with its connection   *)
(* go its transaction and its advisory lock.  The tables come in any order.*)
(***************************************************************************)
EXTENDS Integers, FiniteSets

CONSTANTS
  Services,   \* the processes that call init_database
  Tables,     \* the tables of Base.metadata
  NoService,  \* the advisory lock is free
  MaxStops    \* bound: how many services stop, at any moment

ASSUME SchemaStartAssumption ==
  /\ NoService \notin Services
  /\ Tables # {}
  /\ MaxStops \in Nat

VARIABLES
  schema,     \* the tables that are committed
  holder,     \* who has the advisory lock
  stage,      \* how far each service is
  unlisted,   \* the tables create_all has not looked up yet
  missing,    \* the tables it has found missing and not created yet
  created,    \* the tables of the open transaction
  losses,     \* how many starts have failed because a table was there
  stops       \* how many services have stopped

vars == <<schema, holder, stage, unlisted, missing, created, losses, stops>>

Stage == {"down", "waiting", "listing", "unlocked", "up"}

TypeOK ==
  /\ schema \subseteq Tables
  /\ holder \in Services \cup {NoService}
  /\ stage \in [Services -> Stage]
  /\ unlisted \in [Services -> SUBSET Tables]
  /\ missing \in [Services -> SUBSET Tables]
  /\ created \in [Services -> SUBSET Tables]
  /\ losses \in Nat
  /\ stops \in 0..MaxStops

-----------------------------------------------------------------------------
Init ==
  /\ schema = {}
  /\ holder = NoService
  /\ stage = [s \in Services |-> "down"]
  /\ unlisted = [s \in Services |-> {}]
  /\ missing = [s \in Services |-> {}]
  /\ created = [s \in Services |-> {}]
  /\ losses = 0
  /\ stops = 0

\* A process starts and opens its transaction.
Start(s) ==
  /\ stage[s] = "down"
  /\ stage' = [stage EXCEPT ![s] = "waiting"]
  /\ UNCHANGED <<schema, holder, unlisted, missing, created, losses, stops>>

\* Mutant: no advisory lock, as on the path for other databases.
LockIgnored == TRUE

LockFree == holder = NoService

\* pg_advisory_lock returns, and create_all begins.
Lock(s) ==
  /\ stage[s] = "waiting"
  /\ LockFree
  /\ holder' = s
  /\ stage' = [stage EXCEPT ![s] = "listing"]
  /\ unlisted' = [unlisted EXCEPT ![s] = Tables]
  /\ UNCHANGED <<schema, missing, created, losses, stops>>

\* create_all looks up one table after the other.
LookUp(s, t) ==
  /\ stage[s] = "listing"
  /\ t \in unlisted[s]
  /\ unlisted' = [unlisted EXCEPT ![s] = @ \ {t}]
  /\ missing' = [missing EXCEPT ![s] = @ \cup ({t} \ schema)]
  /\ UNCHANGED <<schema, holder, stage, created, losses, stops>>

\* Mutant: every CREATE TABLE is committed by itself.
CreateAndCommit(s, t) ==
  /\ missing' = [missing EXCEPT ![s] = @ \ {t}]
  /\ schema' = schema \cup {t}
  /\ UNCHANGED <<holder, stage, unlisted, created, losses, stops>>

CreateTable(s, t) ==
  /\ missing' = [missing EXCEPT ![s] = @ \ {t}]
  /\ created' = [created EXCEPT ![s] = @ \cup {t}]
  /\ UNCHANGED <<schema, holder, stage, unlisted, losses, stops>>

\* The end of a process, and of all it has in the database.
End(s) ==
  /\ stage' = [stage EXCEPT ![s] = "down"]
  /\ holder' = IF holder = s THEN NoService ELSE holder
  /\ unlisted' = [unlisted EXCEPT ![s] = {}]
  /\ missing' = [missing EXCEPT ![s] = {}]
  /\ created' = [created EXCEPT ![s] = {}]
  /\ UNCHANGED schema

\* CREATE TABLE, once no other transaction has the table: it is created, or
\* it has come to be there and the start fails.
Create(s, t) ==
  /\ stage[s] = "listing"
  /\ unlisted[s] = {}
  /\ t \in missing[s]
  /\ \A u \in Services : t \notin created[u]
  /\ IF t \notin schema
       THEN CreateTable(s, t)
       ELSE End(s) /\ losses' = losses + 1 /\ UNCHANGED stops

\* Mutant: the lock is not released before the process ends.
KeepLock == holder' = holder

ReleaseLock == holder' = NoService

\* The finally block.
Unlock(s) ==
  /\ stage[s] = "listing"
  /\ unlisted[s] = {}
  /\ missing[s] = {}
  /\ stage' = [stage EXCEPT ![s] = "unlocked"]
  /\ ReleaseLock
  /\ UNCHANGED <<schema, unlisted, missing, created, losses, stops>>

\* The end of engine.begin(), and of init_database.
Commit(s) ==
  /\ stage[s] = "unlocked"
  /\ stage' = [stage EXCEPT ![s] = "up"]
  /\ schema' = schema \cup created[s]
  /\ created' = [created EXCEPT ![s] = {}]
  /\ UNCHANGED <<holder, unlisted, missing, losses, stops>>

\* A crash or a lost connection during the start, or later a stop.
Stop(s) ==
  /\ stage[s] # "down"
  /\ stops < MaxStops
  /\ stops' = stops + 1
  /\ End(s)
  /\ UNCHANGED losses

Step(s) ==
  \/ Start(s)
  \/ Lock(s)
  \/ \E t \in Tables : LookUp(s, t) \/ Create(s, t)
  \/ Unlock(s)
  \/ Commit(s)

Next == \E s \in Services : Step(s) \/ Stop(s)

Spec == Init /\ [][Next]_vars

-----------------------------------------------------------------------------
\* Whoever looks sees no table or all of them, although a service whose
\* look-ups straddle the commit of another one finds some of them missing,
\* and a service is up only when it has all tables.  The rest is why: only
\* the holder of the lock looks and creates, and what waits for its commit is
\* everything or nothing.
SchemaInv ==
  /\ TypeOK
  /\ schema \in {{}, Tables}
  /\ \A s \in Services :
       /\ stage[s] = "up" => schema = Tables
       /\ stage[s] = "listing" <=> holder = s
       /\ stage[s] # "listing" => unlisted[s] = {} /\ missing[s] = {}
       /\ stage[s] \notin {"listing", "unlocked"} => created[s] = {}
       /\ stage[s] = "listing" =>
            \/ created[s] = {} /\ Tables \subseteq unlisted[s] \cup missing[s] \cup schema
            \/ unlisted[s] = {} /\ schema = {} /\ missing[s] \cup created[s] = Tables
       /\ stage[s] = "unlocked" =>
            (created[s] = Tables /\ schema = {}) \/ (created[s] = {} /\ schema = Tables)
       /\ created[s] \cap missing[s] = {}
       /\ \A t \in Services \ {s} : created[s] \cap created[t] = {}

\* Releasing the lock before the commit makes a start fail, but only one in
\* the life of the database: the service that got the lock in between.
AtMostOneStartFails == losses <= 1

(***************************************************************************)
(* A process runs on, and somebody starts the ones that have ended again:  *)
(* docker-compose.yml has no restart policy, so that is up to the operator.*)
(***************************************************************************)
FairSpec == Spec /\ \A s \in Services : WF_vars(Step(s))

\* No start waits for ever, be it for the lock or for a table, and all
\* services are up in the end.
EveryServiceStarts == \A s \in Services : <>[](stage[s] = "up")
=============================================================================
