------------------------------ MODULE PyDatabase ------------------------------
(***************************************************************************)
(* What keeps an open database open: the Python objects that share one      *)
(* Database (crates/mongreldb-kit-python/src/lib.rs), and the migration      *)
(* that must have it for itself.                                            *)
(*                                                                         *)
(* refs[c] holds the owners of the Arc<Database>: the Database object, a     *)
(* transaction that is not finished, a query object that is not collected.   *)
(* The thread of a SQL query holds the CoreDatabase inside it.  The          *)
(* interpreter runs one method at a time; a migration keeps its object       *)
(* borrowed until it returns.                                               *)
(***************************************************************************)
EXTENDS DatabaseOpen

VARIABLES
  live,     \* clients with a transaction in progress
  worker    \* clients with a SQL query that runs

pyVars == <<disk, lock, call, refs, schema, failures, damage, live, worker>>

PyInit == Init /\ live = {} /\ worker = {}

\* The last owner of the CoreDatabase lets go of the lock.
Unlock(c, owners, running) ==
  lock' = IF lock = c /\ owners = {} /\ c \notin running THEN NoClient ELSE lock

Free(c) == "database" \in refs[c] /\ call[c].stage = "idle"

\* begin
Begin(c) ==
  /\ Free(c) /\ "txn" \notin refs[c]
  /\ refs' = [refs EXCEPT ![c] = @ \cup {"txn"}]
  /\ live' = live \cup {c}
  /\ UNCHANGED <<disk, lock, call, schema, failures, damage, worker>>

\* commit, whether it succeeds or not, rollback, and a transaction that is
\* dropped: the transaction is taken and ended, then its pin goes.
EndTxn(c) ==
  /\ c \in live /\ live' = live \ {c}
  /\ refs' = [refs EXCEPT ![c] = @ \ {"txn"}]
  /\ Unlock(c, refs'[c], worker)
  /\ UNCHANGED <<disk, call, schema, failures, damage, worker>>

\* start_sql: the query object pins the Database, the thread the core.
StartSql(c) ==
  /\ Free(c) /\ "query" \notin refs[c] /\ c \notin worker
  /\ refs' = [refs EXCEPT ![c] = @ \cup {"query"}]
  /\ worker' = worker \cup {c}
  /\ UNCHANGED <<disk, lock, call, schema, failures, damage, live>>

\* The query ends, or stops after its object was dropped.  result() takes the
\* handle but leaves the object its pin.
WorkerEnds(c) ==
  /\ c \in worker /\ worker' = worker \ {c}
  /\ Unlock(c, refs[c], worker')
  /\ UNCHANGED <<disk, call, refs, schema, failures, damage, live>>

\* The query object is collected.
DropQuery(c) ==
  /\ "query" \in refs[c]
  /\ refs' = [refs EXCEPT ![c] = @ \ {"query"}]
  /\ Unlock(c, refs'[c], worker)
  /\ UNCHANGED <<disk, call, schema, failures, damage, live, worker>>

\* mutant: close frees the database whoever still uses it
FreesAtOnce(c) ==
  /\ Free(c)
  /\ refs' = [refs EXCEPT ![c] = @ \ {"database"}]
  /\ lock' = NoClient
  /\ UNCHANGED <<disk, call, schema, failures, damage, live, worker>>

\* close
CloseDatabase(c) ==
  /\ Free(c)
  /\ refs' = [refs EXCEPT ![c] = @ \ {"database"}]
  /\ Unlock(c, refs'[c], worker)
  /\ UNCHANGED <<disk, call, schema, failures, damage, live, worker>>

\* require_db_mut: no transaction and no query object shares the Database.
Alone(c) == Free(c) /\ refs[c] = {"database"}

\* set_schema, before a migration to that schema.
SetSchema(c) ==
  /\ Alone(c)
  /\ \E s \in Schemas : schema' = [schema EXCEPT ![c] = s]
  /\ UNCHANGED <<disk, lock, call, refs, failures, damage, live, worker>>

\* migrate: the migrations that are pending drop tables, or rebuild them, which
\* drops a table and creates it again, and create the tables the schema adds
\* (module RustMigrate has them operation by operation) ...
Migrate(c) ==
  /\ Alone(c) /\ schema[c] \notin disk.applied
  /\ call' = [call EXCEPT ![c].stage = "migrating", ![c].target = schema[c]]
  /\ UNCHANGED <<disk, lock, refs, schema, failures, damage, live, worker>>

MigrateTable(c) ==
  /\ call[c].stage = "migrating"
  /\ \E t \in TablesOf[call[c].target] \ disk.tables : CreateTable(t)
  /\ UNCHANGED <<lock, call, refs, schema, failures, damage, live, worker>>

MigrateDrop(c) ==
  /\ call[c].stage = "migrating"
  /\ \E t \in disk.tables \ Reserved : disk' = [disk EXCEPT !.tables = @ \ {t}]
  /\ UNCHANGED <<lock, call, refs, schema, failures, damage, live, worker>>

\* ... they are recorded in one transaction ...
Record(c) ==
  /\ call[c].stage = "migrating" /\ TablesOf[call[c].target] \subseteq disk.tables
  /\ disk' = [disk EXCEPT !.applied = @ \cup {call[c].target}]
  /\ Goto(c, "recorded")
  /\ UNCHANGED <<lock, refs, schema, failures, damage, live, worker>>

\* ... and persist_schema writes the file.
Persist(c) ==
  /\ call[c].stage = "recorded"
  /\ disk' = [disk EXCEPT !.file = Torn]
  /\ Goto(c, "persisting")
  /\ UNCHANGED <<lock, refs, schema, failures, damage, live, worker>>

\* load_schema and set_schema read back what was written.
Persisted(c) ==
  /\ call[c].stage = "persisting"
  /\ disk' = [disk EXCEPT !.file = call[c].target]
  /\ schema' = [schema EXCEPT ![c] = call[c].target]
  /\ call' = [call EXCEPT ![c] = Idle]
  /\ damage' = "none"
  /\ UNCHANGED <<lock, refs, failures, live, worker>>

\* The engine or the file system fails, or an operation does not find its table:
\* migrate returns, the handle stays.
MigrateFails(c) ==
  /\ \/ /\ call[c].stage \in {"migrating", "recorded", "persisting"}
        /\ failures < MaxFailures /\ failures' = failures + 1
     \/ /\ call[c].stage = "migrating" /\ ~(TablesOf[call[c].target] \subseteq disk.tables)
        /\ UNCHANGED failures
  /\ damage' = Damage(c)
  /\ call' = [call EXCEPT ![c] = Idle]
  /\ UNCHANGED <<disk, lock, refs, schema, live, worker>>

CrashAll(c) ==
  /\ Crash(c) /\ live' = live \ {c} /\ worker' = worker \ {c}

Kept == UNCHANGED <<live, worker>>

Next ==
  \/ Tick /\ Kept
  \/ \E c \in Clients :
       \/ c \notin worker /\ (CallOpen(c) \/ CallCreate(c)) /\ Kept
       \/ CallSteps(c) /\ Kept
       \/ (SetAuth(c) \/ EngineFails(c) \/ Forget(c)) /\ Kept
       \/ Begin(c) \/ EndTxn(c) \/ StartSql(c) \/ WorkerEnds(c) \/ DropQuery(c)
       \/ CloseDatabase(c)
       \/ SetSchema(c) \/ Migrate(c) \/ MigrateTable(c) \/ MigrateDrop(c)
       \/ Record(c) \/ Persist(c) \/ Persisted(c)
       \/ MigrateFails(c) \/ CrashAll(c)

Spec == PyInit /\ [][Next]_pyVars

\* Time passes, and a call that can take a step takes it.
Fairness ==
  /\ WF_pyVars(Tick /\ Kept)
  /\ \A c \in Clients : WF_pyVars(CallSteps(c) /\ Kept)

FairSpec == Spec /\ Fairness

-----------------------------------------------------------------------------
(* Properties. *)

\* check_internal_tables, on an open handle.
CheckPasses == disk.file # Missing /\ Reserved \subseteq disk.tables

\* Every Database that is open has the reserved tables, and, when no migration is
\* at work on it, the tables of the schema it loaded: also after a crash or a
\* failure in the middle of ensure_internal_tables and on a database of an older
\* release.  A create, or a migration that drops or rebuilds a table, that did
\* not finish may leave a database without its tables.
OpenDatabasesAreWhole ==
  \A c \in Clients : Alive(c) =>
    /\ lock = c
    /\ CheckPasses
    /\ \/ damage \in {"half made", "half migrated"} \/ schema[c] # disk.file
       \/ call[c].stage \in {"migrating", "recorded", "persisting"}
       \/ TablesOf[disk.file] \subseteq disk.tables

\* A database of which no creation and no migration was cut short can be opened
\* again, and finds the tables its schema file declares, whatever happens: only a
\* crash or a failure of the write itself, in the store_schema of a migration,
\* loses the file; a create that is refused does not touch it.  While a migration
\* is at work the file is readable up to the write, but may declare a table that
\* the migration has dropped.
DatabasesStayOpenable ==
  damage = "none" /\ disk.core =>
    \/ disk.file \in Schemas /\ TablesOf[disk.file] \subseteq disk.tables
    \/ \E c \in Clients :
         /\ lock = c
         /\ \/ call[c].fn \in DOMAIN Creators \/ call[c].stage = "persisting"
            \/ call[c].stage \in {"migrating", "recorded"} /\ disk.file \in Schemas

\* The wait for the lock: no sleep passes the deadline, and a function that
\* waits answers DatabaseLocked only when its whole timeout is over and its last
\* attempt found the lock taken by another client ("a hard deadline at
\* lock_timeout_ms", db.rs:31-35).  The deadline is looked at after the attempt:
\* the timeout may have ended, and the holder have let go, in between.
WaitsItsTimeoutOut ==
  [][\A c \in Clients :
       /\ call[c].stage = "asleep" => call[c].sleep <= call[c].left
       /\ call[c].stage # "denied" /\ call'[c].stage = "denied" => lock \notin {NoClient, c}
       /\ call[c].error = "none" /\ call'[c].error = "DatabaseLocked" =>
            IF call[c].fn \in DOMAIN Openers THEN call[c].stage = "denied" /\ call[c].left = 0
            ELSE lock \notin {NoClient, c}]_pyVars

\* The engine stays open exactly while something uses it.  Closing the object,
\* or dropping a query object, never takes the core from under a transaction or a
\* running query; and the lock goes once the object is closed, every transaction
\* has ended, every query object and thread is gone, and after a call that failed.
HeldWhileUsed ==
  \A c \in Clients :
    lock = c <=>
      \/ refs[c] \cap {"database", "query"} # {} \/ c \in live \/ c \in worker
      \/ call[c].stage \in {"load", "ensure", "store", "stored", "tables"}

\* Every call returns, also when the lock is never let go.
CallsReturn ==
  \A c \in Clients : call[c].stage \notin {"idle", "failed", "migrating", "recorded", "persisting"}
                       ~> call[c].stage \in {"idle", "failed"}
=============================================================================
