----------------------------- MODULE Migrations -----------------------------
(***************************************************************************)
(* How gateway processes that start together bring the schema of their     *)
(* common PostgreSQL database up to date (internal/persistence/postgres,   *)
(* Open and migrate).  Each process runs all missing migrations in one     *)
(* transaction, under an advisory lock that ends with the transaction, and *)
(* may fail, be stopped or lose its connection between any two statements. *)
(*                                                                         *)
(* Processes may be of different releases.  Release p knows the migrations *)
(* 1..Release[p]; the list is 1, 2, 3 in the code.                         *)
(***************************************************************************)
EXTENDS Naturals

CONSTANTS
  Processes,     \* gateway processes that use the database
  Release,       \* Release[p]: the last migration that p's binary contains
  Free           \* the advisory lock is not held

ASSUME MigrationsAssumption ==
  /\ Release \in [Processes -> Nat \ {0}]
  /\ Free \notin Processes

VARIABLES
  versions,      \* routeforge_schema_migrations, as committed
  schema,        \* the migrations whose SQL has taken effect, as committed
  lock,          \* pg_advisory_xact_lock(migrationLockID)
  proc           \* each process: [pc, next, tx]

migrationVars == <<versions, schema, lock, proc>>

Known(p) == 1..Release[p]

\* tx: the migrations run, and recorded, by the transaction under way.
Down == [pc |-> "down", next |-> 1, tx |-> {}]

Process == [pc : {"down", "locking", "checking", "applying", "open", "refused", "broken"},
            next : Nat \ {0}, tx : SUBSET Nat]

MigrationsInit ==
  /\ versions = {} /\ schema = {}
  /\ lock = Free
  /\ proc = [p \in Processes |-> Down]

Opened(p) == proc[p].pc = "open"

\* The end of p's transaction, which releases the lock.
EndTx(p, pc) ==
  /\ lock' = IF lock = p THEN Free ELSE lock
  /\ proc' = [proc EXCEPT ![p] = [Down EXCEPT !.pc = pc]]

-----------------------------------------------------------------------------
\* Open up to migrate's Begin: the pool, Ping, Acquire.
Open(p) ==
  /\ proc[p].pc = "down"
  /\ proc' = [proc EXCEPT ![p].pc = "locking"]
  /\ UNCHANGED <<versions, schema, lock>>

\* migrate without waiting for the lock.
LockAtOnce(p) ==
  /\ proc[p].pc = "locking"
  /\ lock' = p
  /\ proc' = [proc EXCEPT ![p].pc = "checking"]
  /\ UNCHANGED <<versions, schema>>

\* SELECT pg_advisory_xact_lock
Lock(p) ==
  /\ proc[p].pc = "locking" /\ lock = Free
  /\ lock' = p
  /\ proc' = [proc EXCEPT ![p].pc = "checking"]
  /\ UNCHANGED <<versions, schema>>

\* migrate without the check for unsupported versions.
CheckNothing(p) ==
  /\ proc[p].pc = "checking"
  /\ proc' = [proc EXCEPT ![p].pc = "applying"]
  /\ UNCHANGED <<versions, schema, lock>>

\* A database that a newer release has migrated is refused.  Every statement
\* of the transaction sees what is committed when it starts.
Check(p) ==
  /\ proc[p].pc = "checking"
  /\ IF versions \subseteq Known(p)
     THEN proc' = [proc EXCEPT ![p].pc = "applying"] /\ UNCHANGED lock
     ELSE EndTx(p, "refused")
  /\ UNCHANGED <<versions, schema>>

\* The SQL of migration v needs the objects of the earlier ones, and fails if
\* it has been run before: none of it says IF NOT EXISTS.
Runs(v, applied) == v \notin applied /\ 1..(v - 1) \subseteq applied

\* One turn of the loop over the migrations.
Apply(p) ==
  LET v == proc[p].next
      tx == proc[p].tx IN
  /\ proc[p].pc = "applying" /\ v \in Known(p)
  /\ IF v \in versions \cup tx
     THEN proc' = [proc EXCEPT ![p].next = v + 1] /\ UNCHANGED lock
     ELSE IF Runs(v, schema \cup tx)
     THEN proc' = [proc EXCEPT ![p].next = v + 1, ![p].tx = tx \cup {v}] /\ UNCHANGED lock
     ELSE EndTx(p, "broken")
  /\ UNCHANGED <<versions, schema>>

\* Commit.  What another transaction has created meanwhile makes it fail.  The
\* answer may be lost: then Open closes the pool and reports a failure.
Commit(p) ==
  LET tx == proc[p].tx
      clash == tx \cap schema # {} IN
  /\ proc[p].pc = "applying" /\ proc[p].next \notin Known(p)
  /\ versions' = IF clash THEN versions ELSE versions \cup tx
  /\ schema' = IF clash THEN schema ELSE schema \cup tx
  /\ \E answered \in BOOLEAN :
       EndTx(p, IF clash THEN "broken" ELSE IF answered THEN "open" ELSE "down")

\* The process is stopped or fails, or a statement times out: the deferred
\* Rollback, or PostgreSQL when the connection is gone, undoes the transaction.
Stop(p) ==
  /\ proc[p].pc # "down"
  /\ EndTx(p, "down")
  /\ UNCHANGED <<versions, schema>>

MigrationsNext ==
  \E p \in Processes : Open(p) \/ Lock(p) \/ Check(p) \/ Apply(p) \/ Commit(p) \/ Stop(p)

-----------------------------------------------------------------------------
(***************************************************************************)
(* Processes that start at the same time, whatever their releases and      *)
(* wherever they fail, do not get in each other's way: no start fails on   *)
(* what another has migrated, the schema is exactly that of the versions   *)
(* recorded, which have no gap, and a process that serves finds every      *)
(* table and column its release uses (migrate's lock and transaction).     *)
(***************************************************************************)
MigrationsSerialize ==
  /\ schema = versions
  /\ \A v \in versions : 1..v \subseteq versions
  /\ \A p \in Processes :
       /\ proc[p].pc # "broken"
       /\ Opened(p) => Known(p) \subseteq versions

=============================================================================
