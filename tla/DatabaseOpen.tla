----------------------------- MODULE DatabaseOpen -----------------------------
(***************************************************************************)
(* Opening and creating a database: the lock the engine takes on the        *)
(* directory, the wait for it, the reserved tables, the schema file beside  *)
(* the engine's files, and the crashes and failures in between              *)
(* (crates/mongreldb-kit/src/db.rs, internal.rs).                           *)
(*                                                                         *)
(* Clients work on one directory.  The engine (external) admits one         *)
(* CoreDatabase per directory, creates a table atomically and durably, and  *)
(* lets go of the lock when the CoreDatabase is dropped or its process      *)
(* dies.  A file written with fs::write is torn until the write ends.       *)
(***************************************************************************)
EXTENDS Integers, Sequences, FiniteSets

CONSTANTS
  Clients,        \* the threads that open, create and use the database
  Timeouts,       \* OpenOptions::lock_timeout_ms, in milliseconds
  TablesOf,       \* the schemas: name -> the tables it declares
  Existing,       \* the directories a behaviour may start from
  Wanted,         \* the functions each client calls, by name
  MaxFailures     \* bound: engine failures and crashes in a behaviour

Schemas == DOMAIN TablesOf
NoClient == "nobody"

\* What a client finds of a schema file that is not there, or half written:
\* fs::write truncates the file before it writes it.
Missing == "missing"
Torn == "torn"

ASSUME DatabaseOpenAssumption ==
  /\ Timeouts \subseteq Nat
  /\ MaxFailures \in Nat
  /\ NoClient \notin Clients
  /\ Missing \notin Schemas /\ Torn \notin Schemas

\* The functions of Database: what they hand the engine and whether they wait.
open == [encrypted |-> FALSE, credentials |-> FALSE, waits |-> FALSE]
open_with_options == [encrypted |-> FALSE, credentials |-> FALSE, waits |-> TRUE]
open_encrypted == [encrypted |-> TRUE, credentials |-> FALSE, waits |-> FALSE]
open_encrypted_with_options == [encrypted |-> TRUE, credentials |-> FALSE, waits |-> TRUE]
open_with_credentials == [encrypted |-> FALSE, credentials |-> TRUE, waits |-> FALSE]
open_with_credentials_and_options ==
  [encrypted |-> FALSE, credentials |-> TRUE, waits |-> TRUE]
open_encrypted_with_credentials ==
  [encrypted |-> TRUE, credentials |-> TRUE, waits |-> FALSE]
open_encrypted_with_credentials_and_options ==
  [encrypted |-> TRUE, credentials |-> TRUE, waits |-> TRUE]

create == [encrypted |-> FALSE, credentials |-> FALSE]
create_encrypted == [encrypted |-> TRUE, credentials |-> FALSE]
create_with_credentials == [encrypted |-> FALSE, credentials |-> TRUE]
create_encrypted_with_credentials == [encrypted |-> TRUE, credentials |-> TRUE]

Openers ==
  [open |-> open, open_with_options |-> open_with_options,
   open_encrypted |-> open_encrypted,
   open_encrypted_with_options |-> open_encrypted_with_options,
   open_with_credentials |-> open_with_credentials,
   open_with_credentials_and_options |-> open_with_credentials_and_options,
   open_encrypted_with_credentials |-> open_encrypted_with_credentials,
   open_encrypted_with_credentials_and_options |->
     open_encrypted_with_credentials_and_options]
Creators ==
  [create |-> create, create_encrypted |-> create_encrypted,
   create_with_credentials |-> create_with_credentials,
   create_encrypted_with_credentials |-> create_encrypted_with_credentials]

\* internal_tables_core: the reserved tables, in the order they are created.
ReservedTables ==
  <<"__kit_schema_migrations", "__kit_schema_catalog", "__kit_sequences",
    "__kit_unique_keys", "__kit_row_guards", "__kit_migration_locks">>
Reserved == {ReservedTables[i] : i \in DOMAIN ReservedTables}

VARIABLES
  disk,      \* the directory: the engine's catalog and the schema file
  lock,      \* the client whose CoreDatabase is alive
  call,      \* what each client is doing
  refs,      \* what keeps each client's Database alive
  schema,    \* the schema in each client's Database
  failures,  \* engine failures and crashes so far
  damage     \* what a call that did not finish left behind

vars == <<disk, lock, call, refs, schema, failures, damage>>

Directories ==
  [core : BOOLEAN, encrypted : BOOLEAN, auth : BOOLEAN,        \* the engine's
   tables : SUBSET (Reserved \cup UNION {TablesOf[s] : s \in Schemas}),
   applied : SUBSET Schemas,       \* schemas whose migrations are recorded
   file : Schemas \cup {Missing, Torn}]

\* A database that is there at the start was once completed.
ASSUME ExistingAssumption ==
  /\ Existing \subseteq Directories
  /\ \A d \in Existing : d.core => d.file \in Schemas /\ TablesOf[d.file] \subseteq d.tables

\* A call of a function, of no function when there is none.
Call(fn, stage, target, left, next, error) ==
  [fn |-> fn, stage |-> stage, target |-> target,
   left |-> left, sleep |-> 0, next |-> next, error |-> error]

Idle == Call("none", "idle", Missing, 0, 0, "none")

Init ==
  /\ disk \in Existing
  /\ lock = NoClient
  /\ call = [c \in Clients |-> Idle]
  /\ refs = [c \in Clients |-> {}]
  /\ schema = [c \in Clients |-> Missing]
  /\ failures = 0
  /\ damage = "none"

\* A client's Database is alive while something refers to it.
Alive(c) == refs[c] # {}

Goto(c, stage) == call' = [call EXCEPT ![c].stage = stage]

\* `?` returns the error; the CoreDatabase the call held is dropped.
Return(c, error) ==
  /\ call' = [call EXCEPT ![c] = Call("none", "failed", Missing, 0, 0, error)]
  /\ lock' = IF lock = c THEN NoClient ELSE lock

-----------------------------------------------------------------------------
(* Opening. *)

FirstSleep == 1
LongestSleep == 50

\* A call starts; its timeout is 0 when the function does not wait.
CallOpen(c) ==
  /\ call[c].stage = "idle" /\ refs[c] = {}
  /\ \E fn \in Wanted[c] \cap DOMAIN Openers :
       \E timeout \in IF Openers[fn].waits THEN Timeouts ELSE {0} :
         call' = [call EXCEPT ![c] = Call(fn, "attempt", Missing, timeout, FirstSleep, "none")]
  /\ UNCHANGED <<disk, lock, refs, schema, failures, damage>>

\* CoreDatabase::open and its variants: the error the engine refuses with once
\* it has the lock.
Refuses(fn) ==
  CASE ~disk.core -> "NotFound"
    [] disk.core /\ disk.encrypted # fn.encrypted -> "Encryption"
    [] disk.core /\ disk.encrypted = fn.encrypted /\ disk.auth /\ ~fn.credentials ->
         "AuthRequired"
    [] disk.core /\ disk.encrypted = fn.encrypted /\ ~disk.auth /\ fn.credentials ->
         "AuthNotRequired"
    [] OTHER -> "none"

\* is_lock_contention
LockContention == lock # NoClient

\* open_core_with_retry: one attempt, which is denied while another has the lock.
Attempt(c) ==
  /\ call[c].stage = "attempt"
  /\ LET why == Refuses(Openers[call[c].fn]) IN
       \/ LockContention /\ Goto(c, "denied") /\ UNCHANGED lock
       \/ ~LockContention /\ why # "none" /\ Return(c, why)
       \/ ~LockContention /\ why = "none" /\ lock' = c /\ Goto(c, "load")
  /\ UNCHANGED <<disk, refs, schema, failures, damage>>

\* mutant: gives up when the next sleep would reach the deadline
GivesUpEarly(c) ==
  /\ call[c].stage = "denied"
  /\ IF call[c].left <= call[c].next THEN Return(c, "DatabaseLocked")
     ELSE /\ call' = [call EXCEPT ![c].stage = "asleep", ![c].sleep = call[c].next,
                        ![c].next = IF 10 * @ < LongestSleep THEN 10 * @ ELSE LongestSleep]
          /\ UNCHANGED lock
  /\ UNCHANGED <<disk, refs, schema, failures, damage>>

\* mutant: each failed attempt starts a new wait
NewDeadline(c) ==
  /\ call[c].stage = "denied"
  /\ IF call[c].left = 0 THEN Return(c, "DatabaseLocked")
     ELSE /\ \E timeout \in Timeouts :
               call' = [call EXCEPT ![c].stage = "asleep", ![c].sleep = FirstSleep,
                                    ![c].left = timeout]
          /\ UNCHANGED lock
  /\ UNCHANGED <<disk, refs, schema, failures, damage>>

\* After an attempt that was denied the clock is read: the deadline ends the wait,
\* and no sleep passes it.  Time passes between the two, and the holder may have
\* let go of the lock by now.
BackOff(c) ==
  /\ call[c].stage = "denied"
  /\ IF call[c].left = 0 THEN Return(c, "DatabaseLocked")
     ELSE /\ call' = [call EXCEPT ![c].stage = "asleep",
                        ![c].sleep = IF call[c].next < call[c].left THEN call[c].next
                                     ELSE call[c].left,
                        ![c].next = IF 10 * @ < LongestSleep THEN 10 * @ ELSE LongestSleep]
          /\ UNCHANGED lock
  /\ UNCHANGED <<disk, refs, schema, failures, damage>>

Wake(c) ==
  /\ call[c].stage = "asleep" /\ call[c].sleep = 0
  /\ Goto(c, "attempt")
  /\ UNCHANGED <<disk, lock, refs, schema, failures, damage>>

Less(a, b) == IF a < b THEN 0 ELSE a - b

\* Time passes until some sleeper may wake or some deadline is over.
Tick ==
  /\ \E c \in Clients : call[c].left > 0
  /\ \E d \in {call[c].sleep : c \in Clients} \cup {call[c].left : c \in Clients} :
       /\ d > 0
       /\ call' = [c \in Clients |->
                     [call[c] EXCEPT !.left = Less(@, d), !.sleep = Less(@, d)]]
  /\ UNCHANGED <<disk, lock, refs, schema, failures, damage>>

\* load_schema
Load(c) ==
  /\ call[c].stage = "load"
  /\ \/ /\ disk.file \in Schemas
        /\ schema' = [schema EXCEPT ![c] = disk.file]
        /\ Goto(c, "ensure") /\ UNCHANGED lock
     \/ disk.file = Missing /\ Return(c, "Migration") /\ UNCHANGED schema
     \/ disk.file = Torn /\ Return(c, "Storage") /\ UNCHANGED schema
  /\ UNCHANGED <<disk, refs, failures, damage>>

-----------------------------------------------------------------------------
(* Tables. *)

\* mutant: the first reserved table stands for all of them
FirstStandsForAll(tables) ==
  IF ReservedTables[1] \in tables THEN {} ELSE Reserved \ tables

\* The tables ensure_internal_tables still has to create.
ToEnsure(tables) == Reserved \ tables

\* create_core_table
CreateTable(t) == disk' = [disk EXCEPT !.tables = @ \cup {t}]

\* ensure_internal_tables creates one table that is missing ...
EnsureTable(c) ==
  /\ call[c].stage = "ensure"
  /\ \E i \in DOMAIN ReservedTables :
       /\ ReservedTables[i] \in ToEnsure(disk.tables)
       /\ \A j \in 1..(i - 1) : ReservedTables[j] \notin ToEnsure(disk.tables)
       /\ CreateTable(ReservedTables[i])
  /\ UNCHANGED <<lock, call, refs, schema, failures, damage>>

\* ... and with none missing the call goes on: an opener returns its handle,
\* after reap_rotated_wal_segments whose errors are ignored.
Ensured(c) ==
  /\ call[c].stage = "ensure" /\ ToEnsure(disk.tables) = {}
  /\ IF call[c].fn \in DOMAIN Openers
     THEN /\ call' = [call EXCEPT ![c] = Idle]
          /\ refs' = [refs EXCEPT ![c] = {"database"}]
     ELSE Goto(c, "store") /\ UNCHANGED refs
  /\ UNCHANGED <<disk, lock, schema, failures, damage>>

-----------------------------------------------------------------------------
(* Creating. *)

CallCreate(c) ==
  /\ call[c].stage = "idle" /\ refs[c] = {}
  /\ \E fn \in Wanted[c] \cap DOMAIN Creators, s \in Schemas :
       call' = [call EXCEPT ![c] = Call(fn, "core", s, 0, 0, "none")]
  /\ UNCHANGED <<disk, lock, refs, schema, failures, damage>>

\* mutant: the schema file is written before the engine has created the database
StoresFirst(c) ==
  /\ call[c].stage = "core"
  /\ \/ LockContention /\ Return(c, "DatabaseLocked") /\ UNCHANGED disk
     \/ /\ ~LockContention /\ disk.core /\ Return(c, "Exists")
        /\ disk' = [disk EXCEPT !.file = call[c].target]
     \/ /\ ~LockContention /\ ~disk.core
        /\ disk' = [disk EXCEPT !.core = TRUE, !.file = call[c].target,
                      !.encrypted = Creators[call[c].fn].encrypted,
                      !.auth = Creators[call[c].fn].credentials]
        /\ lock' = c /\ Goto(c, "ensure")
  /\ UNCHANGED <<refs, schema, failures, damage>>

\* CoreDatabase::create and its variants: the engine's own files first.  The
\* engine refuses a directory that holds a database.
CreateCore(c) ==
  /\ call[c].stage = "core"
  /\ \/ LockContention /\ Return(c, "DatabaseLocked") /\ UNCHANGED disk
     \/ ~LockContention /\ disk.core /\ Return(c, "Exists") /\ UNCHANGED disk
     \/ /\ ~LockContention /\ ~disk.core
        /\ disk' = [disk EXCEPT !.core = TRUE,
                      !.encrypted = Creators[call[c].fn].encrypted,
                      !.auth = Creators[call[c].fn].credentials]
        /\ lock' = c /\ Goto(c, "ensure")
  /\ UNCHANGED <<refs, schema, failures, damage>>

\* store_schema: fs::write empties the file, then fills it.
StoreSchema(c) ==
  /\ call[c].stage = "store"
  /\ disk' = [disk EXCEPT !.file = Torn]
  /\ Goto(c, "stored")
  /\ UNCHANGED <<lock, refs, schema, failures, damage>>

StoreEnds(c) ==
  /\ call[c].stage = "stored"
  /\ disk' = [disk EXCEPT !.file = call[c].target]
  /\ Goto(c, "tables")
  /\ UNCHANGED <<lock, refs, schema, failures, damage>>

\* A user table of the schema; they have no order a property depends on.
CreateUserTable(c) ==
  /\ call[c].stage = "tables"
  /\ \E t \in TablesOf[call[c].target] \ disk.tables : CreateTable(t)
  /\ UNCHANGED <<lock, call, refs, schema, failures, damage>>

Created(c) ==
  /\ call[c].stage = "tables" /\ TablesOf[call[c].target] \subseteq disk.tables
  /\ schema' = [schema EXCEPT ![c] = call[c].target]
  /\ refs' = [refs EXCEPT ![c] = {"database"}]
  /\ call' = [call EXCEPT ![c] = Idle]
  /\ UNCHANGED <<disk, lock, failures, damage>>

-----------------------------------------------------------------------------
(* What a handle does to the directory, and failures. *)

\* enable_auth and disable_auth
SetAuth(c) ==
  /\ "database" \in refs[c] /\ call[c].stage = "idle"
  /\ disk' = [disk EXCEPT !.auth = ~@]
  /\ UNCHANGED <<lock, call, refs, schema, failures, damage>>

\* The tables that a readable schema file declares are there.
Complete == disk.file \in Schemas => TablesOf[disk.file] \subseteq disk.tables

\* What is left behind when c stops in the middle of its call.
Damage(c) ==
  CASE call[c].stage = "persisting" -> "torn file"
    [] call[c].fn \in DOMAIN Creators /\ lock = c -> "half made"
    [] call[c].stage \in {"migrating", "recorded"} /\ ~Complete -> "half migrated"
    [] OTHER -> damage

\* The engine or the file system fails in the middle of a call.
EngineFails(c) ==
  /\ failures < MaxFailures
  /\ call[c].stage \in {"ensure", "store", "stored", "tables"}
  /\ Return(c, "Storage")
  /\ failures' = failures + 1 /\ damage' = Damage(c)
  /\ UNCHANGED <<disk, refs, schema>>

\* The client's process dies.
Crash(c) ==
  /\ failures < MaxFailures
  /\ lock = c
  /\ lock' = NoClient
  /\ call' = [call EXCEPT ![c] = Idle]
  /\ refs' = [refs EXCEPT ![c] = {}]
  /\ schema' = [schema EXCEPT ![c] = Missing]
  /\ failures' = failures + 1 /\ damage' = Damage(c)
  /\ UNCHANGED disk

\* The client has seen the error of its call.
Forget(c) ==
  /\ call[c].stage = "failed"
  /\ call' = [call EXCEPT ![c] = Idle]
  /\ schema' = [schema EXCEPT ![c] = Missing]
  /\ UNCHANGED <<disk, lock, refs, failures, damage>>

CallSteps(c) ==
  \/ Attempt(c) \/ BackOff(c) \/ Wake(c) \/ Load(c) \/ EnsureTable(c) \/ Ensured(c)
  \/ CreateCore(c) \/ StoreSchema(c) \/ StoreEnds(c) \/ CreateUserTable(c) \/ Created(c)
=============================================================================
