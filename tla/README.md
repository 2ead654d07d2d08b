# MongrelDB Kit in TLA+

MongrelDB Kit puts a relational layer — schemas, primary and unique keys, foreign
keys, CHECK and NOT NULL constraints, defaults, migrations, queries, SQL — on top
of the MongrelDB storage engine (`mongreldb_core`), in Rust, TypeScript and
Python. The engine knows nothing of constraints and cannot read its own
uncommitted writes. Much of what makes the Kit's tables correct is therefore a
protocol of the Kit: extra *guard* rows written beside the application rows, an
in-memory replay of what a transaction staged, retries of refused commits, a
translation of filters into conditions the engine evaluates, migrations made of
steps that are durable one by one, and a remote client that has to find out what
became of a statement whose answer was lost.

This directory models those protocols, checks them with TLC on small instances and
proves the core of several for every instance with TLAPS. Paths below are relative
to the repository (`kit/` is `crates/mongreldb-kit/src/`, `core/` is
`crates/mongreldb-kit-core/src/`, `py/` is `crates/mongreldb-kit-python/src/`);
line numbers are those of the commit the models were written from, and
`PROJECT.json` maps every definition to the lines it stands for.

Contents: [inventory](#1-inventory) · [modules](#2-modules-and-the-code-they-model)
· [runs](#3-runs) · [proofs](#4-proofs) · [where code and documents disagree](#5-where-code-and-documents-disagree)
· [limits](#6-what-is-not-modelled) · [plan](#7-plan)

## 1. Inventory

| Component | State | Operations | Hard behaviour | Modelled |
|---|---|---|---|---|
| **Rust transaction layer** `kit/txn.rs`, `kit/db.rs` | an engine transaction, `staged` (rows written, for the replay), `staged_unique` (guards reserved), `touched_guards` | insert, insert_many, update (full and fast), update_where, upsert, delete (full and fast), delete_where, truncate, get_by_pk, commit, rollback; `Database::transaction` runs a closure and retries conflicts | checks read a snapshot or the latest rows, other transactions commit between any two calls; guards must collide exactly when constraints would | `KitTxn` |
| **Delete planner** `core/planner.rs` | the plan, the rows finished, the path | `plan_delete` | diamonds, cycles, a restriction found late | `DeletePlanner` |
| **Sequences** `kit/db.rs` 966-1021 | one row per sequence, a lock per handle | `allocate_sequence`, keys assigned by an insert | its own committed transaction per call, 10,000 retries, overflow, gaps | `SequenceAllocator` |
| **Rust migrations** `kit/migrate.rs`, `core/migrations.rs` | migration records, the live schema, the schema file | plan, apply, rebuild, backfill, record, persist | a crash between any two of them, and two releases that serve in turn | `RustMigrate` |
| **Remote client** `kit/remote.rs` | query id, idempotency key, what the server answered | execute_idempotent_sql, sql_rows, start_sql_rows, cancel, recovery, RemoteTransaction::commit, create_table and other schema changes | lost, late and unreadable answers, repeated requests, a server that restarts, cancellation against commit | `RemoteSql`, `RemoteStatus` |
| **Local SQL handles** `kit/db.rs`, `kit/error.rs`, `kit/arrow_util.rs` | the session, the phase of a running query | start, wait, cancel, deadline, drop; conversion of the output | cancellation against commit and completion, two first calls, errors after a commit | `LocalSql`, `QueryErrors` |
| **Open and lock retry** `kit/db.rs`, `kit/internal.rs` | the engine's lock, reserved tables, the schema file | eight ways to open, four to create, close | another owner holds the lock; a crash in the middle | `DatabaseOpen` |
| **Python binding** `py/lib.rs` | which objects share a database | open, begin, start_sql, migrate, close, collection | objects outlive `close()`; the lock goes with the last of them | `PyDatabase` (lifetimes) |
| **Query and pushdown** `kit/query.rs`, `kit/pushdown.rs`, `kit/schema.rs` | a snapshot, staged rows, common table expressions | select, join, aggregate, incremental_aggregate | conditions plus residual filter must equal a scan; the engine and the filter compare differently; conditions read the latest rows | `KitQueries` and the modules below it |
| **Schema and validation** `core/{schema,validation}.rs` | the declared schema | validate_table, validate_row | pure functions | `KitSchema`, `Values` |
| **Storage engine** `mongreldb_core` (external) | tables, versions, write sets | begin, put, delete, truncate, query, commit | first committer wins; no read of own writes | `MongrelCore` |
| Check expressions `core/check.rs` | – | parse, evaluate | pure functions | no |
| Key encoding `core/keys.rs`, `packages/kit/src/keys.ts` | – | encode and decode typed keys | two languages must agree | no |
| TypeScript constraints, builders, handle `packages/kit/src/{constraints,query,db}.ts` | guard rows, as in Rust | insert, update, delete, upsert builders; `runTxn` | rows are read outside the retried part; `deleteRowGuard` writes nothing when the guard is absent | no |
| TypeScript migrations `packages/kit/src/migrate.ts` | lock row with a time to live, status records | acquireLock, runMigrations, rebuild | lock expiry, a foreign release, failed records counted as applied | no |
| Remote clients in TypeScript and Python | as in Rust | as in Rust | as in Rust | no |
| Search, TSV, CLI, benchmarks | – | conversions and delegation | none of their own | no |

How they interact. An application opens a database (the engine admits one owner
of a directory; the Kit waits for the lock, makes the reserved tables and loads
the schema file), migrates it, and calls `Database::transaction`, whose closure
calls the transaction layer. The layer reads through the engine at the
transaction's snapshot (scans) or at the latest rows (primary-key probes and
pushed-down conditions), validates rows, asks the planner what a delete entails,
and stages application rows and guard rows in the *same* engine transaction. The
engine's commit is the only place where concurrent callers meet: it refuses the
later of two transactions that wrote the same row. Sequences and migrations use
committed transactions of their own. SQL runs in a session of the query engine,
on a thread of its own; the remote client reaches a server that runs the same
layers.

What makes each component correct:

* transaction layer — no committed duplicate of a unique key, no dangling
  reference, guards that are exactly those of the rows, a commit that stores what
  the transaction was shown, statements that look atomic to others, calls that
  return;
* planner — the plan holds exactly the rows that must go, children first, or names a
  restriction; cycles are reported and diamonds are not cycles;
* sequences — ranges never overlap and follow real time; an assigned key replaces
  no row;
* migrations — a version on record has happened, whatever crashed; no row is lost;
  a migration cut short can be run again; guards follow their tables;
* remote — a statement takes effect at most once, what a caller is told of a commit
  is the truth or "unknown", a call returns;
* local SQL — an error never hides a commit, an accepted cancellation never
  returns success, a stopped query ends, output is whole or refused;
* opening — an open database is whole, a database once made can be opened again,
  the lock is held exactly while something uses it, a wait ends at its deadline;
* queries — what conditions, aggregates and joins answer is what a scan would.

`PROJECT.json` lists the hazards behind these, each at its line, with the
properties that catch it, and those without a property and why.

## 2. Modules and the code they model

```
KitSchema ── DeletePlan ─┬─ DeletePlanner ─┬─ MCDeletePlanner
                         │                 └─ DeletePlannerProofs
                         ├─ Relational (abstract store)
                         └─ KitTxn ── KitGuards ─┬─ MCKitTxn
       MongrelCore ──────────┘  (INSTANCE        └─ KitGuardsProofs
                                 Relational)

SequenceAllocator ─┬─ MCSequenceAllocator        RustMigrate ─┬─ MCRustMigrate
                   └─ SequenceAllocatorProofs                 └─ RustMigrateProofs

RemoteStatus ── RemoteSql ─┬─ MCRemoteSql        QueryErrors ── LocalSql ─┬─ MCLocalSql
 (INSTANCE AtMostOnce) ────┘└─ RemoteSqlProofs                            └─ LocalSqlProofs

DatabaseOpen ── PyDatabase ─┬─ MCPyDatabase
                            └─ PyDatabaseProofs

Values ── Pushdown ─┬─ Queries ─┬─ Aggregates ─┬─ KitQueries ── MCKitQueries
                    │           └─ Joins ──────┘
                    └─ PushdownProofs
```

| Module | Models |
|---|---|
| `KitSchema` | the declared schema and what it demands of a database: `core/schema.rs`, `validation.rs` |
| `DeletePlan` | what a delete entails, declaratively: reachability by cascading references, restrictions, references to cut |
| `DeletePlanner` | the search of `planner.rs` with its stack of calls, checked and proved against `DeletePlan` |
| `MongrelCore` | the engine as the transaction layer uses it (external) |
| `KitTxn` | the transaction layer and the retry loop |
| `Relational` | what the Kit promises: statements that take effect one at a time on consistent tables; `KitTxn` refines it |
| `KitGuards` | the inductive invariants behind unique keys, exact guards and references |
| `SequenceAllocator` | `allocate_sequence` with its lock and retries, and the inserts that take a key from it |
| `RustMigrate` | the migration runner, every operation as its durable steps, crashes and refused steps between them, and the handle it runs on |
| `RemoteStatus` | what the client accepts of a server's status, receipt, error and cancel answer, and the error it makes of it |
| `RemoteSql` | one client and one server over a lossy connection |
| `AtMostOnce` | what the client promises; `RemoteSql` refines it |
| `QueryErrors` | the error a SQL call reports, from the engine's error and the status of the query (`kit/error.rs`) |
| `LocalSql` | sessions, handles, phases, cancellation and the conversion of the output |
| `DatabaseOpen` | opening and creating a database, with a clock, crashes and failures |
| `PyDatabase` | the Python objects that share a database, on top of `DatabaseOpen` |
| `Values` | values, cells and their comparison: `json_to_core`, `core_to_json`, `json_cmp`, `eval_pred`, index keys |
| `Pushdown` | the translation of a filter into conditions (`pushdown.rs`), what the engine and the replay make of a condition |
| `Queries`, `Aggregates`, `Joins` | the query evaluator of `query.rs`, as operators on a context |
| `KitQueries` | a transaction that stages writes and queries while another commits |
| `*Proofs` | theorems and proofs |
| `MC*` | instances for TLC |

### The transaction layer

**State of `KitTxn`.** `store` maps keys to committed rows. A key is
`<<"row", x>>` for an application row, `<<"uq", ...>>` and `<<"pk", x>>` for rows of
`__kit_unique_keys` (a guard is keyed by constraint name and value and names its
owner), `<<"rg", x>>` for rows of `__kit_row_guards`. `txn[c]` is the transaction
caller `c` is in: the engine part (`snap`, `staged`, `dirty` — the keys others
committed since it began) and the Kit part (`view` is the replay of
`Transaction.staged`, `reserved` is `staged_unique`, `stmt` is a many-row
statement in progress, `attempt` counts retries). `made` is a history variable
read by one property. `behind` only carries the bound `MaxBehind`.

**Actions.** One per operation: `Insert`, `Update`, `UpdateFast`, `UpsertAbsent`,
`UpsertExisting`, `Delete`, `DeleteFast`, `Truncate`; the many-row statements
start (`StartInsertMany`, `StartUpdateWhere`, `StartDeleteWhere` — the rows are
selected at once) and take one step per row (`InsertManyRow`, ...), so that
others commit in between; `Commit`, `Conflict` (the engine refuses and the loop
retries or gives up), `Rollback` (the closure or an operation failed) and
`RollbackRetry` (it failed with a conflict). An operation is a single step: it
writes no shared state until commit, and its reads of the latest rows
(`ReadByPk`) happen at one point between other callers' commits. What an operation stages is an
*effect* record: puts, rows shown by the replay, rows gone, guards reserved,
released and forgotten, row guards touched. `Stage` applies it.

An operation whose guard is false returns an error in the code; then the closure
fails and `Database::transaction` rolls back, which `Rollback` covers. A caller of
`begin()`/`commit()` that ignores an error and commits anyway is not covered.

**What is kept of reads.** Guards and parents are read as the code reads them:
unique guards and `snapshot_rows` at the snapshot, a primary-key probe at the
latest row when the table has no staged write (`query_core_rows_at` ignores its
snapshot once it has conditions, `kit/db.rs:2075`) and through the replay otherwise.
`update_where` and `delete_where` select in the snapshot (`Selected`); for a filter that
translates, with nothing staged for the table, the code selects among the latest rows. Either way a row
that differs between the two is dirty, and a transaction that writes it is refused.

**Data.** One set `Ids` stands for keys and column values; a row is a function
from its non-key columns; a column list is one column; a CHECK constraint is the
set of rows it rejects. The number of primary-key columns is kept (`Arity`) since
the code branches on it. A child is found by `find_children` only if its key has
as many columns as the deleted row's (`RefsFound`, `kit/txn.rs:1743`).

**Assumptions about the engine** (external; from its use in `txn.rs`, its
documentation in `docs/transactions.md` and the tests in
`crates/mongreldb-kit/tests/guards.rs` and `integration.rs`): a commit installs
all writes or none; it fails when a key in its write set was committed by
another transaction since it began; within one transaction a put wins over a
delete of the same key, because a delete names a committed row version; truncate
writes every row of its table.

**The planner.** `DeletePlanner` is the search of `plan_delete_recursive` with its
recursion unrolled: `stack` holds the calls that are not over, which are also the
path, each with the children it has yet to see and the lengths it would truncate
to; `plan` is the one plan all branches share. A step is one pass of the innermost
loop — the next child restricts, is set null, is skipped as finished, closes a
cycle (the error ends every call), or is visited — or a return, where `Discard` takes
back what a restricted branch appended and `Done` adds the row. Every content of
the tables without a dangling reference is an initial state, every stored row may
be the one to delete, and children come in the order of the schema and of a scan
(`FkOrder`, `RowOrder`).

### Sequences

`next` is the sequence's row, `lock` the `sequence_lock` of each handle, `call` the
allocation a caller is in, `tx` the insert around it. An allocation enters, takes
the lock of its handle, reads the row at a snapshot and stages the next one,
commits or is refused as stale (another handle replaced the row), retries up to
`MaxAttempts` (10,000 in the code) and gives up; an insert then uses the value as
its key without checking it, and commits or rolls back (the range is lost, as the
documentation says). The counter is `next` modulo the width `Last`: additions wrap
as in a release build, or the call panics as in a debug build (`Overflow`).

### Migrations

`disk` holds the tables with their columns and rows, the temporary tables of
rebuilds, the unique and row guards and the triggers and procedures; `records` is
`__kit_schema_migrations`, `file` the release whose schema `kit_schema.json` holds,
`proc` the process that has the database open: the migrations it still has to apply
(`todo`), the one it is at, the operation of it and that operation's next durable step.
`Migrate` finds what is pending; `NextMigration` and `NextOperation` are the two loops
of `migrate` and `apply_migration_ops`, with the checks an operation begins with in
`FirstStep`. `ApplyStep` does one durable step (`Succeeds` when, `Outcome` what, `StepAfter`
what follows); `StepFails` is an error of the operation, `StepRefused` one of the engine,
`DropIgnored` one of the engine that the code discards (DropTable, DropTrigger and DropProcedure:
`let _ =`, `kit/migrate.rs:110,177,188`) before it goes on, cleans the guards and records the version, and
`Crash` may come between any two steps. `rebuild_table` is six steps (read and make a
temporary table, fill, drop, make, fill, drop the temporary one), a backfill one.
`Record` writes all records in one transaction, `Persist` the schema file.
`Write` is a transaction of the release that serves.

### The remote client

`RemoteStatus` has the shape of what a server says of a query (state, terminal
state, what was committed, the counts, codes, the reason of a cancellation), the
checks `remote.rs` makes before it believes it, and the mapping to an error
(`remote_status_error`). `RemoteSql` runs the client against the server: `pc` is
where the call is (sent, refreshing, after a loss, replaying, recovering, cancelling,
polling), `exec[q]` what the server remembers of query `q` in memory, `intent` what
it remembers of the key on disk, `effects` what has really been committed. A request is
a query that has not arrived; it may arrive late, after the client recovered, or
never. Answers are chosen among those the server could give for the state it is in,
those of another query, and unreadable ones. A restart forgets `exec`, keeps
`intent` and `effects`. The client runs calls one after the other; the second call of
an idempotent write repeats the first with the same key.

### Local SQL

`cached` is the session of the database, opened on first use; a call that finds none opens
one and keeps the one that won. `query[c]` is the query engine's record of a
query: phase, statements that committed, whether a commit is under way; `call[c]`
the caller's side: starting, waiting, held handle, converting slice by slice,
completing, done, dropped. A cancellation or a deadline may fall between any two
of these; within the commit fence it is answered "too late". `report[c]` is the error or the success the caller sees, made by
`QueryErrors` from the engine's error and the status.

### Opening a database, and what keeps it open

`disk` is the directory (`core`: the engine's files are there; `tables`; `file`: the
schema file, possibly torn), `lock` the client whose engine has it. `call[c]` walks
through the stages of the function it is in (waiting, asleep with time `left`,
load, ensure, store, tables, ...). Time passes in milliseconds; a step lasts until some sleep or deadline is over, which
may be past those of others: a thread may be late. An attempt at the lock that was `denied` and
the look at the clock after it (`BackOff`) are two steps, between which time passes and the holder may let go.
A migration drops tables and creates them (`MigrateDrop`, `MigrateTable`: DropTable and rebuilds drop,
`kit/migrate.rs:110,413`) in any order, as long as all tables of its schema are there when it records itself;
`RustMigrate` has the operations one by one. `damage` remembers what a crash or failure left: a create cut
short ("half made"), a migration cut short with a table missing ("half migrated"), a torn file. It is repaired by
a migration that ends. `refs[c]` are the owners of the `Arc<Database>` in Python; the lock goes with the
last of them and with the thread of a running query, which has the core itself. A
crash or a failure may fall between any two durable steps.

### Queries

`Values` keeps what distinguishes the two ways a value is compared: JSON values
(null, Boolean, number, text, array) under `json_cmp`, and typed cells under the
engine's order, with the conversions between them, the narrower integer types and
the largest integer a float holds exactly. `Pushdown` translates a predicate as
`pushdown.rs` does, and says which rows satisfy a condition in the engine and in
the replay of staged rows. `Queries`, `Aggregates` and `Joins` are the evaluator as
operators of a context: the snapshot, the latest rows, the staged tables and the
common table expressions. `KitQueries` has two tables, commits by others (`store` is
the sequence of versions), staged operations and one action per kind of query.
Rows are sequences, since order matters. A joined row keeps its aliases in the order of the
joins, as the maps of the crate do (`preserve_order`, `crates/mongreldb-kit/Cargo.toml:19`), which decides what a bare column
name means. The state the engine caches for an incremental aggregate (`kit/db.rs:301-315`) and
merges new rows into is not modelled: it is assumed to be the aggregate of the newest rows, so
`IncrementalAnswer` computes that, and `IncrementalIsExact` is about what the Kit does: which filters it refuses, and
the conditions and the column it hands over.

## 3. Runs

Each passing run ends with every behaviour within its bounds explored, in one or
two minutes.

| Run | Question | Checked |
|---|---|---|
| `statements` | single-statement transactions of two callers, all statement kinds, a unique column, two rows | `GuardsMatchRows`, `Linearizable` |
| `two_ops` | two operations per transaction on orders with a unique set-null reference to a customer | `GuardsInv`, `NoDuplicateKeys`, `NoDanglingReference`, `CommitsWhatItShowed` |
| `references` | one parent, a child table per foreign-key action, composite keys | `GuardsMatchRows`, `Linearizable` |
| `fast_paths` | the fast paths beside insert, upsert and truncate, with a retry, under fairness | `CallsReturn`, `InsertsAddUpdatesReplace` |
| `planner` | every plan over three tables of two rows | `CyclesAreReported`, `PlanIsComplete`, `ChildrenFirst` |
| `sequences` | two callers of one handle and one of another, ranges and inserts, to the end of the counter and past it | `RangesDisjoint`, `LaterCallsGetLaterValues`, `AssignedKeysAreFresh`, `CallsReturn` |
| `migrations` | ten releases, two crashes or refused steps anywhere, started again by the old or the new release | `RecordedMeansApplied`, `RowsReachable`, `OnlyBadRowsFail`, `GuardsFollowTables` |
| `remote_sql` | two calls over a connection that loses, delays and mixes up answers, a server that restarts once | `ReportsAreTrue`, `CancelledStaysCancelled`, `ImplementsAtMostOnce`, `CallsReturn` |
| `local_sql` | a script that fails or is stopped anywhere, beside a second call | `CommitsAreReported`, `AcceptedCancelNeverSucceeds`, `RunningQueriesAreFound`, `OutputIsWholeOrRefused`, `StopsEnd` |
| `database_open` | two clients, an empty directory or that of an older release, a crash or failure | `OpenDatabasesAreWhole`, `DatabasesStayOpenable`, `HeldWhileUsed`, `WaitsItsTimeoutOut`, `CallsReturn` |
| `queries` | some 300 queries on several contents of two tables, with a commit of others and a staged write | `SelectsWhatAScanWould`, `EngineAggregatesAgree`, `GroupsPartitionTheRows`, `JoinsWhatALoopWould`, `IncrementalIsExact` |
| `cascade_race` | expected to be violated: see [section 5](#5-where-code-and-documents-disagree) | `NoDanglingReference` |

What they show.

* `Linearizable` says that the committed application tables change as a module
  without guards, snapshots or transactions (`Relational`) says they may: each
  committed transaction of one statement is that statement applied to the
  *current* rows, leaving every declared constraint true. It is the refinement
  `Relations == INSTANCE Relational WITH tables <- Committed`. `GuardsMatchRows` is
  the other half: the guard tables hold the guards of the committed rows and no
  others, so no key is refused that no row holds. `CommitsWhatItShowed` relates
  what a transaction saw (the replay) to what its commit stores.
  `InsertsAddUpdatesReplace` says that an insert never overwrites a row committed
  meanwhile and an update never resurrects one.
* `RangesDisjoint` and `LaterCallsGetLaterValues` hold although handles share
  nothing but the engine, and although the counter wraps: `MaxTotal` is below the
  `2 * (Last + 1)` values there are. `AssignedKeysAreFresh` rests on explicit keys
  being in a range of their own, as `docs/defaults.md:164-166` demands.
* `RecordedMeansApplied` says of each version on record that the database is as
  its operations promise; `OnlyBadRowsFail` that a migration which was cut short
  fails later only because of rows that violate it. `tried = "mixed"` is their
  one exception: the *old* release served after an interrupted attempt and does
  not maintain the guards the attempt left, which `backfill_unique` then keeps.
  `RecordedMeansApplied` has a second exception, for the drops the runner ignores: a version can be on record
  although a table it drops is still there. What is promised of a drop is that the table is gone or
  its last drop was refused by the engine (`ignored`), and in either case that no guard names it; of a
  dropped trigger or procedure nothing is promised. The run has such refusals (`Refusable`).
  `Rerunnable` excludes the operations that the code does not make twice
  (AddColumn, renames, CreateTrigger and CreateProcedure, and rebuilds, see
  section 5).
* `ImplementsAtMostOnce` is the refinement of `AtMostOnce`: through replays,
  repeated calls with one key, late requests and restarts each statement takes
  effect once, and a commit is told after it happened. `ReportsAreTrue` adds the
  counts and the negative answers, now *and later*: a late request must not
  commit what was reported as not committed, neither the one the report is about nor
  the call's other one. It has two exceptions, both in [section 5](#5-where-code-and-documents-disagree):
  a restarted server that forgot the query, and the replay of an idempotent write, where the "no" is
  only true of the replay. `CancelledStaysCancelled` does the same
  for what a canceller is told.
* `CommitsAreReported` covers errors after a commit, in a later statement, in the
  conversion or from a cancellation; its premises leave out `TransactionAborted`
  and a panic of the worker, which carry no outcome in the code.
* `WaitsItsTimeoutOut` says both that no sleep passes the deadline of `lock_timeout_ms` and
  that none gives up earlier, and that the attempt before found another client with the lock; that client may
  have let go before the error is returned (`kit/db.rs:379-385`), so `DatabaseLocked` may be told of a free lock.
  `OpenDatabasesAreWhole` says that a crash between two reserved
  tables is repaired by the next open, `DatabasesStayOpenable` that a file which can be read declares what is there.
  Neither says so of a database whose creation or migration was cut short: after a crash past
  a DropTable or inside a rebuild the file declares a table that is gone, and `open` accepts it; `HeldWhileUsed` that `close()` neither takes
  the core from under a running query or transaction nor leaves the lock behind.
* The properties of `queries` compare each answer with that of the same query when
  nothing is pushed down. Their premises (`FaithfulFilter`, `FaithfulJoins`, `KnownSides`, `FaithfulAggregate`,
  `ReadsSnapshot`) leave out the filters, joins and columns for which the code does
  something else; section 5 lists them. Each premise is needed: without it TLC finds the property
  violated in this instance.

Every property has a mutant in `PROJECT.json`: a plausible bug (a missed
reservation, stale guards left behind, a retry that does not count, records
written before the operations, a replay without the key, a status believed
unchecked, a lock let go with the object rather than its last user, a bound one
off) under which TLC finds it violated.

**Bounds, and why they are enough to be interesting.**

* `KitTxn`: two callers, since the engine compares pairs of transactions. Two ids:
  two rows compete for a value, or one row moves between values; `references` needs one
  id, since its conflicts are between a parent and its child. `MaxOps` bounds
  operations per transaction: 1 for the refinement (a transaction of two would be
  two abstract steps), 2 where one operation must see another. `MaxBehind = 1`
  bounds the commits others make while a transaction is open; `dirty` is the union
  of what they wrote, and a second one only adds to it. `MaxRetries` is the
  argument of `transaction`. `Revisit = FALSE` keeps a transaction from writing a
  row it already wrote; `InsertThenDelete.cfg` lifts it and shows why. `Ops` and
  `Targets` choose the workload. Symmetry permutes callers and, where no id is
  singled out, ids; it is not used for the liveness run. `planner` turns deadlock
  checking off because the one call it models ends.
* `sequences`: `Last = 2` puts the wrap three values from the start; `MaxTotal`
  ends the run (hence no deadlock check); `MaxAttempts = 1` makes one refusal lead
  to giving up, as the ten-thousandth does in the code.
* `migrations`: two keys and two values, two crashes (one during the repair of the
  other); `Refusable` are the steps whose failure leaves something to repair, and the drops whose failure is ignored. A
  failure after `drop_table` inside a rebuild is left out: the code then drops
  the temporary table too, and the rows are gone (section 5).
* `remote_sql`: two calls (`MaxCalls`), each with a query id for its replay, two
  statements, one restart, one poll (`MaxPolls` stands for the recovery window). Answers
  to other queries and unreadable answers are always possible.
* `local_sql`: one script of one committing statement and one call that only reads
  (`Brief`), two sessions, one free place in the registry, one kind of engine error
  (the theorems of `QueryErrors` cover all kinds), outputs at and just above the
  limits.
* `database_open`: a timeout of 2 ms; `FirstSleep` and `LongestSleep` (1 and 50 ms, tenfold
  in between, as in the code) make the backoff reach the deadline. One crash or failure.
* `queries`: integers from -8 to 7 with floats exact to 4, so that the borders of 64 bits and of
  exactness are met; a narrow column of two bits, with values inside it and one (5) that is read back wrapped; a float
  column with an integer in it; two tables of up to three rows; every predicate form the translation knows; one commit, one staged operation.

**Fairness.** Each liveness property assumes that threads which can go on do, and
nothing about what others choose.

* `KitTxn`: weak fairness of `Operation(c) \/ Finish(c)`: the thread that called
  `transaction` goes on with its closure, or returns. Nothing is assumed about
  which operation it takes or that a commit succeeds. `CallsReturn` rests on the
  retry counter; the closure is finite (`MaxOps`).
* `SequenceAllocator`: weak fairness of the steps of an allocation and of the
  insert that uses its value, strong fairness of `Lock`, since a `parking_lot` mutex hands itself to a
  waiter eventually.
* `RemoteSql`: weak fairness of the client's step. None for the server or the
  network: a request without an answer ends in the client's timeout.
* `LocalSql`: weak fairness for threads that wait, for the worker noticing and
  signalling a stop, for a commit under way to succeed or fail, and for a dropped query to be discarded. None for
  statements: a script may run for ever unless it is stopped.
* `PyDatabase`: weak fairness of time and of the steps of each call. None for the
  owner of the lock: a waiting call returns because of its deadline.

## 4. Proofs

The theorems are checked by `tlapm` (Z3, Zenon and LS4). They assume only what the
modules assume of their constants, named and stated where the constants are declared,
which TLC evaluates on every instance. Sets of callers, tables, ids, constraints,
references and servers' answers are arbitrary; bounds are any naturals.

### Transactions: `KitGuardsProofs`

Assumed: `KitSchemaAssumption` (a schema is well formed — declared tables
and columns, nulls and absent rows distinct from data) and `KitTxnAssumption`
(bounds are naturals, the workload addresses rows that exist in the schema).

* **`TypeCorrect`: `Spec => []TypeOK`.** Every key of the store, of every snapshot and
  staging holds a row of its own table or a guard owner, through cascades,
  set-null updates and patches. Induction needs `TypeInv`: additionally, while a
  many-row statement is in progress its operation is not yet counted, so the
  count stays within its bound. One lemma (`StageTyped`) shows that staging a
  *typed effect* keeps a transaction typed, one per operation that its effect is
  typed.

* **`KeysStayUnique`: `Spec => []NoDuplicateKeys`** (from `GuardsStayComplete`: `Spec => []UniquenessInv`), for schemas
  in which a table's unique constraints have distinct names (`DistinctNames`) and
  transactions that write a row at most once and do not upsert (`WritesOnce`).
  Both conditions are needed: an upsert violates the property (section 5), and a transaction that inserts and then deletes a row leaves the row
  behind without its reservation.

  `NoDuplicateKeys` is not inductive: it says nothing of guards, nor of what is
  staged. `UniquenessInv` is: (1) in the store every row owns the guards of its
  keys; (2) each transaction's snapshot satisfies (1) and agrees with the store
  on the keys that are not dirty; and for a transaction whose write set has not
  met a dirty key, (3) a staged guard of a key is taken from its snapshot owner
  only if the owner is written too, (4) every key of a staged row is guarded by
  what is staged or was the row's own key and was left alone, (5) a staged
  guard is reserved in memory or was owned before, and (6) only written rows
  reserve. The argument: `KeysFree` reads the snapshot's guards and the reservations, so by (5)
  no other written row can hold the key, and by (1) of the snapshot no unwritten
  one. `SafeEffect` states what each operation's effect guarantees; `StageSafe`
  turns it into (3)–(6). At commit the write set holds no dirty key, so what it
  touches is as in the snapshot: `InstallComplete` concludes (1) again. An update
  that read a newer row than its snapshot writes a dirty key, so it can no
  longer commit — this is where the Kit's reads of the latest row are harmless.

* **`GuardsStayExact`: `Spec => []GuardsMatchRows`** and **`InsertsStayInserts`: `Spec =>
  InsertsAddUpdatesReplace`**, under the same conditions. `__kit_unique_keys` holds the
  guards rows need and no other; an insert adds a row and an update replaces one of the
  store its transaction commits to. Names shared by two *tables* are allowed: then a
  value of one is refused in the other (`SharedNames.cfg`), but no guard is left behind.

  `ExactInv` adds to `UniquenessInv` the other direction. (1) In the store and in every
  snapshot a guard belongs to a row that needs it, and a row with a composite key has the guard of
  that key. (2) A guard committed since the snapshot came with a write of its row, so a transaction that
  writes the row sees the guard or cannot commit. (3) Of a transaction that can still commit:
  a staged guard, and a guard of a written row that was left alone, is one
  the new row needs; (4) a composite key keeps its guard while its row stays; (5) a row is recorded as
  inserted iff the snapshot has none there. (6) What `update_where` has left was there when it
  selected. `ExactEffect`, `StageExact` and `InstallExact` play the parts of
  `SafeEffect`, `StageSafe` and `InstallComplete`. (5) is where the checks before a
  write differ: a single-column key is looked up in the latest committed rows, or in the
  replay; a composite one by its guard in the snapshot, which by (1) is as good.

* **`ReferencesStayIntact`: `Spec => []NoDanglingReference`** and **`ReplayIsCommitted`: `Spec
  => CommitsWhatItShowed`**, for transactions as above and foreign keys as `PlainReferences` says: no
  table refers to itself, parent and child keys have the same number of columns, `update_fast` does not serve a
  child table, no chain of references starts with a cascade, and of the references
  from one table to another none sets null beside one that sets null or cascades.
  Each condition excludes a way the code loses a reference: `SelfFkCascade.cfg`, `FastUpdateFk.cfg`
  and the run `cascade_race` show the first, third and fourth; the second is
  `find_children` decoding parent keys with the columns of the deleted row's
  table; the last is `apply_set_null` writing each reference over the one before, from the row the
  planner cached. The schema of `two_ops` satisfies all of them.

  `Standing(store, L)` is what holds of an active transaction while the store moves on. A reference
  gained, or a parent lost, since the snapshot came with a write of the parent's row
  guard (`ReferencesTouch`, `LossesTouch`). While `L` can commit, its replay is exactly what it
  staged; a parent it deletes has its row guard touched and every row of the
  snapshot that refers to it is written (`DeletesCover`); and a reference it stages is to a parent
  whose row guard it touched and that is there, or is an old one (`ReferencesHeld`, with the
  parents the batch cache of `insert_many` remembers). `CarefulEffect` is what each operation
  guarantees, `StageCareful` and `InstallIntact` conclude. The two sides meet in
  the row guard: a child write that relied on a parent, and the delete of that parent, both
  have it in their write sets, so the second to commit is refused, whether
  it looked at its snapshot or at the latest row.

* **`GuardsHold`: `Spec => []GuardsInv`**, all of the above as one invariant:
  `UniquenessInv`, `ExactInv` and `ReferencesInv`. TLC checks it in `two_ops`; the
  theorem holds for every instance that satisfies the conditions.

### Sequences: `SequenceAllocatorProofs`

**`RangesAreDisjoint`: `Spec => []RangesDisjoint`** and **`RangesAreOrdered`: `Spec =>
[]LaterCallsGetLaterValues`**, for any callers, handles, counts, number of retries and width of
the counter, as long as fewer values are handed out than the counter has
(`MaxTotal`). The invariant `SequenceInv` (theorem `SequenceInvariant`) ties what is stored to what was handed out:
the sequence's row holds `Wrap(1 + total)`, every range lies where `total` stood
when it was committed, and of a staged call either the snapshot is stale, so
that the engine refuses it, or it read exactly the present counter. It is
needed because the stored counter alone, being wrapped, says nothing about which
values are used up.

**`AssignedKeysStayFresh`: `Spec => AssignedKeysAreFresh`**, under the same assumptions: the
action property of the inserts, which commit in any order and long after their key was
allocated. `KeysInv` says that a key which nobody inserts explicitly is one that was
granted, and that while an insert holds it no other insert does and no row has it; a
commit of the allocator keeps it because, by `SequenceInv`, the start of a new range was
never granted before.

### Migrations: `RustMigrateProofs`

For any plans (two schemas and the migrations between them), keys and values, any number of
crashes, and any steps the engine may refuse:

* **`RowsAreReachable`: `Spec => []RowsReachable`**, for plans that drop no table of both
  releases (`TablesStay`), as long as the engine refuses neither the creation of the table in a
  rebuild nor the copy back into it: on such an error `rebuild_table` drops the copy as well, and the
  rows are gone ([section 5](#5-where-code-and-documents-disagree)).
* **`RecordsAreApplied`: `Spec => []RecordedMeansApplied`** and **`GuardsAreFollowing`: `Spec
  => []GuardsFollowTables`**, for plans that lead from the old schema to the new one (`Follows`). The drops
  the engine refuses and the runner records all the same are the exception in the property: such a table has no guards left.
* **`FailuresAreTheRows`: `Spec => []OnlyBadRowsFail`**, for such plans whose operations name
  what is declared and what is there (`Applicable`).

The runner takes the migrations as the application wrote them and compares them with no
schema, so what they need of the plan is a hypothesis: `docs/migrations.md` tells the application to change the
schema and write the operations that lead there. `Follows` says that versions differ;
that a new table is created and a removed one not recreated; that a column which differs
is settled by some operation, and column names are unique in a table; that a constraint's name is one of one table
and column in both schemas and an added one is backfilled; and that no object is both created and
dropped. It does not say in which version each of these happens, nor that the rows fit.
`PlansFollow` is the ASSUME with which TLC checks that each plan of `migrations` satisfies all three.

`TypeInv`, `ProcInv` and `RebuildInv` are enough for the rows. `ProcInv` says where an attempt stands: nothing
or everything is on record, and the versions about to be recorded are all. `RebuildInv` follows one
rebuild: until the original is dropped the process has read exactly its rows, from the fill on the temporary
table holds the copy, and so the rows are in one of the two. A crash forgets `saved` and leaves the temporary table,
whose name no later rebuild reuses (`TempName`).

The other theorems follow from `MigrateInv` (**`MigrateInductive`**; TLC checked each part over the plans
of `migrations` before the proof). It looks at the tables as the attempt sees them: between the drop and the copy back a table *is* what
the process has read (`Here`, `RowsOf`, `ColsOf`), so a rebuild changes the columns in one step and otherwise
nothing. An operation is `Past` when the loops are beyond it, or the records are written. Then:

* `PresenceInv`: a table of both releases, and each that a guard names, is there, unless it is `Gone`:
  an operation still ahead drops it, or rebuilds it and will find it missing. A crash in the middle of a
  rebuild makes it `Gone`, and then no attempt gets past that operation — which is why a missing table never goes on record.
* `TableInv`: rows satisfy the NOT NULL of their columns, and a column is as one of the releases declares it.
* `NamesInv`, `OwnersInv`, `CompleteInv`: a guard belongs to a constraint of one of the releases; the guard of
  a row's key is owned by that row; and every key has its guard once the old release had the constraint, or the records are
  written. The last two hold unless `tried = "mixed"`: the old release deletes rows without the guards a cut-short attempt
  made, and `backfill_unique` leaves such a guard as it is.
* `EffectInv`, `UniqueInv`, `DeclaredInv`: what an operation that is past has done still holds whatever came after it. The
  hard cases are a rebuild of the same table by a later operation, which sets all columns to those of the new release, and a
  column renamed by one operation and altered by another.
* `OrderInv`: versions are applied in order, so a table an operation needs was created before.

A `StepFails` is then one of the few left: `FailsForRows` goes through the kinds of steps and finds the rows that violate.

### The remote client: `RemoteSqlProofs`

**`DecisiveStatusIsReported`**: for every status the client accepts
(`ValidStatus`) and that is decisive, recovery tells the caller exactly what the status
says of the commit, whichever fields carry it. **`IndecisiveMeansUnknown`**: any
other status becomes an unknown outcome, never a claim. The argument is that
`ValidStatus` makes the fields which could disagree agree (`OneDurableState`), and then a case for
every terminal state.

These two are about one status. The protocol around it, for any number of calls of any
kinds, statements of a call, codes a server may fail with, polls and restarts
(`RemoteAssumption` only says that the bounds are naturals and the kinds known):

* **`CallersAreToldTheTruth`: `Spec => []ReportsAreTrue`**,
* **`CancelledNeverCommits`: `Spec => CancelledStaysCancelled`**,
* **`StatementsRunAtMostOnce`: `Spec => ImplementsAtMostOnce`**, the refinement of
  `AtMostOnce`: `Commit` is `TakeEffect`, a return of a call is `Tell`, everything else a stutter.

None of the three is inductive; `RemoteInv` is (TLC checks it on the instance of
`remote_sql`). Its parts: `UnusedInv`, an id nothing was sent under has no trace at the
server, and the second id of a call that is not idempotent never has one — the client's
fresh id for the replay. `QueryInv`, a request that is still under way was never
served, and a query that runs has committed only statements before the one it is at; so each id runs once.
`IntentInv`, an idempotent query that runs is the one in the durable intent, and so is any
that ever had an effect; the key is freed only by a query that did nothing. From these
`OneRuns`: of all the queries that stand for one piece of work one ever runs. `NoRestartInv`,
without a restart the current query is not forgotten. `ReportInv` keeps a witness for every
report: the query that committed, which has ended if the statements were counted to the end, and for
"no commit" that the query did nothing and can do nothing any more (`Quiet`; `Settled` where its
request is still under way behind a cancel).

Every step is `Calm`: it takes no effect back, gives none to a query that does not
run, and makes no used id unused. That is all a true report needs to stay true
(`YesStays`, `NoStays`). That it is true when it is told is shown once for every
place that answers: any body the server may hand out, old or of another query, can only understate a
commit (`BodyFacts`), and the three validations of a status, an envelope and a receipt
let "no commit" pass only when the status itself, which is never the old one, is that of a query that ended
without any (`StatusSaysNo`, `EnvelopeSaysNo`, `ReceiptSaysNo`). That query is the one of the last request
(`TellIsAbout`). If no replay was sent, the second id has no trace; if one was, the first request may still be
on its way, and nothing bars it once the replay has ended and freed the key: the second
exception of `ReportsAreTrue`, beside the restarted server ([section 5](#5-where-code-and-documents-disagree)).

### The planner: `DeletePlannerProofs`

For every well-formed schema (`KitSchemaAssumption`), every database whose rows are valid,
every row and every order of foreign keys and rows:

* **`CyclesReported`: `Spec => []CyclesAreReported`.** The error is raised exactly when a cycle
  of cascading references lies on or below the row.
* **`PlansComplete`: `Spec => []PlanIsComplete`.** An unrestricted plan is exactly what
  `DeletePlan` says, and a plan is restricted just when a restricting reference exists.
* **`ChildrenGoFirst`: `Spec => []ChildrenFirst`.**

`DeletePlan` speaks of the least closed set of rows, the code of a stack and a set of finished
rows; **`PlannerInductive`** is what connects them. `PathInv`: the calls under way are a path
of cascading references without repetition, none of it finished — so a child found on the path closes a
cycle. `PassedInv`: a call that is past a child knows it to be finished, on the path, or
restricted, and on no cycle. `FinishedInv`: a finished row is on no cycle and all its cascading
children are finished, so at the end the finished rows are a closed set with the row to
delete in it, and `ReachLeast` makes them all that is reached. `CyclesBelow` is the step at a return: a row
none of whose cascading children is on or above a cycle is not either. `LengthInv` says that a branch
truncates nothing its callers relied on. The delicate part is a restricted branch: it
truncates lists but leaves `deleted` as it is, so finished rows may be missing from the lists.
`Cuts` and `ListsInv` therefore promise the lists' content only while `restricted` is
empty, and say that it is not once a call is restricted.

### Conditions of comparisons: `PushdownProofs`

**`ComparisonsArePushedExactly`**: for every width of integers and every value, the range
that `translate_cmp` makes of `column op literal` selects a row — stored or staged,
null or not — exactly when the filter holds of it, if the bound beside the literal does not leave the
64-bit range. This is what entitles the evaluator to drop the filter.

### SQL on an embedded database: `LocalSqlProofs`

Assumed: `LocalSqlAssumption` (bounds are naturals, a slice of an output has natural
numbers of rows and bytes, and a limit of bytes leaves room for the two brackets or the
header that are written before anything is checked).

* **`CommitsAreNotHidden`**: whatever error the engine raises and whatever the status of
  the query says, after a commit the status knows of, the reported error says that
  something was committed and counts at least as many statements, or that the outcome
  is unknown; `TransactionAborted` is the exception. **`CommitsAreNotInvented`**: no
  report of a commit without one in the error or the status. Both go through `Merge`,
  which keeps the larger of two counts.
* **`ReportsTellOfCommits`**, **`CancelledCallsFail`**, **`QueriesStayFound`** and
  **`LimitsAreExact`**: the four invariants of `local_sql`, for any calls, sessions,
  scripts, failures and outputs.

One inductive invariant, `SqlInv`, carries the four. `Sound`: the registry counts every
commit, except behind an error that says itself that the commit is durable or its fate unknown — this
is what makes `query_error_with_status` enough. `Placed`: a call converts or completes only an output
its worker has handed over, and has returned nothing before it is done. `Stopped`: after an accepted
cancellation the phase is only cancelling, cancelled or failed, and success needs
completed; so the compare-and-set of `Transition`, which demands the serializing phase,
is the step where the race is decided. `Located`: a call holds no session but the
cached one unless a refresh replaced it, which needs `get_or_insert` (a call that opened a
second session while another was first must drop it). `Measured`: what is counted while an
output is converted is the size of the slices so far, so the first slice that does not
fit shows that the whole does not.

That last part is an induction over the length of an output. The sums are a recursive
function; `Least` (every nonempty set of naturals has a least element, from the well-foundedness of
`<`) gives `SumsExist` and `SumsAre` by the least counterexample, without an
induction principle that takes a predicate.

### Opening and lifetimes: `PyDatabaseProofs`

For any clients, schemas, timeouts, directories and any number of crashes and failures:

* **`LockIsHeldWhileUsed`: `Spec => []HeldWhileUsed`.** The lock is held exactly while an
  object, a transaction or a running query of its holder uses the database, or its
  open or create is under way.
* **`OpenDatabasesStayWhole`: `Spec => []OpenDatabasesAreWhole`** and
  **`UndamagedDatabasesOpen`: `Spec => []DatabasesStayOpenable`.** What a database
  declares is there, unless a create or a migration is at work on it or was cut short and not completed since;
  the reserved tables always are.
* **`TimeoutsAreWaitedOut`: `Spec => WaitsItsTimeoutOut`.** No sleep passes the deadline
  of `lock_timeout_ms`, and a caller that waits gets `DatabaseLocked` only when the deadline is
  over and its last attempt found another client with the lock, however much time passes between the steps.

Assumed: `DatabaseOpenAssumption` (times are naturals, no schema is called like a
missing or torn file) and `ExistingAssumption` (a database that is there at the start was
once completed). `OpenInv` is inductive. Beside the types it says of each client what its
call is about at each stage (`Doing`), that it has the lock iff it uses the database or
works on it (`Held`), and what the holder of the lock knows of the directory
(`Finds`): after the reserved tables they are all there, before a migration's file
is written its tables are. `Whole` says of a database nobody is at that its file
and tables agree unless the damage is known. `Others` shows once that a step of
one client leaves what the others hold and find alone: only the holder of
the lock changes the directory, and nobody drops a reserved table. So each action needs one lemma
about its own client. The wait has an invariant of its own, `WaitInv`: times are naturals,
no sleep is longer than what is left, and a create has no time to wait. That the
lock is another client's when an attempt is denied is `Held` of the first invariant.
That `Record` finds all tables of the new schema is a guard of the action: it takes migrations to be written as
`docs/migrations.md` asks, which the runner does not check (`RustMigrate` makes it a hypothesis, `Follows`).

### Model-checked only

`Linearizable` and `CallsReturn` of the transaction layer, and what the theorems exclude:
transactions that upsert, as those of the run `fast_paths` may;
that the calls of the remote client return (`CallsReturn`);
the query evaluator, whose definitions are recursive, so that what they compute is
an induction over data, out of the prover's reach; that the planner's search ends (in the run `planner`
TLC meets no state twice, so no behaviour goes round in a circle); and every liveness property, since fairness and
`ENABLED` are out of its reach.

## 5. Where code and documents disagree

`cascade_race` is a run: TLC finds it violated, and `PROJECT.json` quotes the
document. The other configurations of this table are kept to be run by hand
(`tlc -config X.cfg M`) and are violated too; they are not part of the regular
runs, which they would crowd out.

| Configuration | Property | What the code does |
|---|---|---|
| `CascadeRace.cfg`, `MCKitTxn` (run `cascade_race`) | `NoDanglingReference` | `delete_row` touches the row guard of the row it is asked to delete, not those of the rows the cascade removes: a grandchild inserted meanwhile commits and dangles (`kit/txn.rs:456`, `docs/internal-tables.md:112`) |
| `MixedJoins.cfg`, `MCKitQueries` | `BareColumnsStayResidual` | a conjunct with columns of one alias and a bare column, `i.n = w`, counts as one of that alias and is pushed to its side, where the bare column is null; the rows are lost (`kit/query.rs:540`, comments at `kit/query.rs:498-499`, `537-539`, `602-605`) |
| `NarrowAggregates.cfg`, `MCKitQueries` | `NativeIsIdentical` | the engine aggregates a narrow column's stored integers, a scan the wrapped ones (`kit/txn.rs:768`, comment at `kit/txn.rs:762-763`) |
| `FastUpdateFk.cfg`, `MCKitTxn` | `NoDanglingReference` | `update_fast` is taken for tables that have foreign keys and checks none (`kit/txn.rs:249`, `docs/constraints.md:213`) |
| `Statements.cfg`, `MCKitTxn`, with `Txns = {c1}`, `Ops = {"insert", "upsert"}` and only the invariant | `NoDuplicateKeys` | `upsert` computes guards from the input row while the engine patches the stored row (`kit/txn.rs:570`, `docs/constraints.md:181`) |
| `SelfFkCascade.cfg`, `MCKitTxn` | `NoDanglingReference` | `delete_row` skips the planned rows of the deleted row's own table (`kit/txn.rs:442`, `docs/constraints.md:259`) |
| `SharedNames.cfg`, `MCKitTxn` | `FreeKeysAreFree` | a guard's key has the constraint's name but no table, and default names repeat (`core/keys.rs:169`, `docs/internal-tables.md:78`) |
| `InsertThenDelete.cfg`, `MCKitTxn` | `CommitsWhatItShowed` | deleting a row inserted in the same transaction does not undo the insert (`kit/txn.rs:512`, `kit/txn.rs:20`) |
| `Statements.cfg`, `MCKitTxn`, with only the invariant | `ReadsUseSnapshot` | a primary-key probe ignores the snapshot (`kit/db.rs:2075`, `kit/txn.rs:20`) |
| `RebuildCrash.cfg`, `MCRustMigrate` | `RowsKept` | `rebuild_table` makes the target table before it fills it; after a crash in between, the next run copies the empty table, records the migration, and the rows stay in a temporary table nobody reads (`kit/migrate.rs:401`, `docs/migrations.md:274`) |
| `RestartRecovery.cfg`, `MCRemoteSql` | `NoMeansNo` | recovery cancels a query the server answers 404 for; a server that restarted then says it never started, and the caller reads `committed = false` of a statement that committed (`kit/remote.rs:3055`, `docs/sql-cancellation.md:223`) |
| the same with `Programs <- MCReplayed` and `MaxRestarts = 0` | `NoMeansNo` | the first request of an idempotent write is delayed, the replay passes its deadline before it commits, which frees the key, and the caller reads `committed = false`; then the first request arrives and commits (`kit/remote.rs:2772-2784`, `2821-2824`, `docs/sql-cancellation.md:222-223`: "Only an explicit `false` proves no commit") |

Met while modelling, present in the models, and excluded by a named premise or
without a run of their own:

*Transactions.*
* `find_children` decodes child keys with the number of columns of the *deleted*
  row's key (`kit/txn.rs:1743`), so children whose key has another shape are missed;
* `has_inbound_fk` leaves out the table itself (`kit/txn.rs:485`), so a table whose only
  reference is to itself and that has no unique key takes the fast delete, which
  ignores a restricting or cascading reference;
* two set-null updates of one row start from the same cached row and the later
  overwrites the earlier (`kit/txn.rs:1770`);
* a key taken and given up again in one transaction leaves its staged guard,
  which then belongs to no row (`kit/txn.rs:1361`).

*Migrations.*
* A crash between the records and the schema file is never repaired: the next
  `migrate` finds nothing pending (`kit/migrate.rs:46`; `StoredSchemaFollows` states what
  `docs/migrations.md:3-5` says);
* an engine failure inside `rebuild_table` after the table was dropped drops the
  temporary table as well, and the rows with it (`kit/migrate.rs:401-423`);
* the engine's error of a DropTable, DropTrigger or DropProcedure is discarded and the version recorded
  (`kit/migrate.rs:110`, `177`, `188`; the comment there says "best-effort (idempotent)"): a table stays, without its guards;
* renames of columns, AddColumn, CreateTrigger and CreateProcedure fail when they
  run a second time, so a migration cut short after them cannot be completed;
* the runner neither verifies checksums nor looks at the status of a record;
* `rename_table` does not retarget the `owner_table` of guards (`kit/db.rs:1576-1604`,
  `docs/migrations.md:288-290`);
* AddIndex of a unique index fails when a unique constraint already covers it.

*Remote client.*
* An accepted error envelope of a committed write whose code is not one of those
  `map_error_body` knows drops the durable outcome (`kit/remote.rs:4356-4654`), and
  TRANSACTION_ABORTED hides it in `remote_status_error`;
* a second call with the key of a call whose first request was lost gets the
  receipt of that call, whose query id is not the expected one, and is refused
  (`kit/remote.rs:1752`);
* a lost answer to `RemoteTransaction::commit` is reported as a plain storage error
  that says nothing of the outcome (`kit/remote.rs:3840`);
* the replay of a write does not cancel the first query id.

*Local SQL.*
* `refresh_sql_session` and a change of the principal replace the session, after
  which `cancel_sql` does not find the queries of the old one (their handles do);
* `TransactionAborted` and a panic of the worker report nothing of what committed;
* the two bytes of an empty JSON array are not counted against `max_bytes` below 2;
* a handle dropped while a commit is under way does not stop the statements after it.

*Opening.*
* The schema file is written in place (`kit/db.rs:2311`): a crash in `fs::write` leaves a
  file no open can read;
* a crash in a create leaves a database without its tables, which `open` accepts
  from then on, or, before the schema file, one that nobody can open;
* after a failed write of the schema file the handle's next migrate finds nothing
  pending and leaves it;
* a migration drops and rebuilds tables before it writes the file (`kit/migrate.rs:107-112`, `401-423`): after a crash in
  between the file declares a table that is gone, `open` accepts it, and if the records were written nothing repairs it;
* `DatabaseLocked` may be returned of a lock that was let go after the last attempt and before the
  look at the clock (`kit/db.rs:379-385`);
* a transaction or an uncollected query object keeps the lock after `db.close()`
  (`docs/python.md:585-589`), and a migration may run beside a query whose object was
  dropped;
* `init` of the command-line interface ignores `--passphrase`
  (`crates/mongreldb-kit-cli/src/main.rs:815-840`).

*Queries* (each excluded by the premises of the properties).
* `literal op column` is pushed as `column op literal` (`kit/pushdown.rs:175-181`);
* a strict comparison with the smallest or largest 64-bit integer saturates and
  selects the equal row (`kit/pushdown.rs:205-243`);
* BytesPrefix is not tested on staged rows (`kit/txn.rs:2205-2209`,
  `docs/query-builder.md:123`);
* a conjunct of one alias with a bare column beside is pushed to a side (`MixedJoins.cfg`); EXISTS in the filter of a join,
  and conditions on unknown aliases, are dropped (`kit/query.rs:526-545`); a filter on the right side of a LEFT JOIN is applied before
  the join;
* a common table expression that shadows a table is not filtered when the filter
  translates fully (`kit/query.rs:70-75`);
* with several ORDER BY keys the last one dominates (`kit/query.rs:201-203`), and nulls make
  the order one that is not total;
* an index of another kind passes for a bitmap index, and the foreign-key probe then finds no
  rows (`kit/pushdown.rs:396-410`); a list or prefix on a key column meets the same; the probe also passes over rows whose null
  would equal a null of the left side, and looks for the left value as the right column would hold it;
* pushed conditions read the latest commit, not the snapshot;
* narrow integer columns accept wider values, read them back wrapped and are
  compared and aggregated unwrapped (`NarrowAggregates.cfg`; `HoldsItsType` excludes columns that hold such a value); a text stored in a bytes column reads back as an array; an
  integer in a float column is found neither by a range nor by its key;
* the engine sums integers exactly, a scan through floats, which differs above
  2^53 (`kit/txn.rs:762` says "provably identical").

And one about the schema, outside the models: `docs/constraints.md:176` against
`synthesize_unique_from_indexes` (`core/schema.rs:455-476`).

## 6. What is not modelled

* Callers of `begin()`/`commit()` that commit after an operation failed: the
  statements that fail half-way leave guards staged (a hazard without a property
  says so).
* In the transaction layer: upsert DO NOTHING of an existing row (no effect) and
  `touched_guards`, which only avoids staging a guard twice — except that
  `truncate` also filters it (`kit/txn.rs:1724`). Defaults are left out except those of
  sequences, which `SequenceAllocator` has.
* In migrations: checks, views, virtual tables and raw SQL have no durable effect
  in the model; the tables' own encodings are a value per column.
* In the remote client: pages of results, typed queries, capabilities and the
  details of a connection; the server is what the client's checks and documents
  say of it. `continue_sql_page` does not compare the offset of a page with that of the one before.
* In queries: indexes are present or not; what the engine chooses among them, and the search
  functions (`search.rs`), are not there. Text is a short sequence of letters.
* The TypeScript packages: their guard protocol, their handle and their migrations
  follow the Rust ones but differ in the places the hazards name; they are next.
  The remote clients in TypeScript and Python repeat `remote.rs` in part.
* Check expressions (their result is the set of rejected rows), key encodings,
  formatting, error texts, TSV and Arrow as formats.
* The command-line interface delegates one command at a time to a database it opens and closes;
  benchmarks have no state to be wrong about.

## 7. Plan

Done: transactions, planner, sequences, migrations, remote SQL, local SQL, opening and the
Python objects, queries.

Left, in order of the damage a mistake would do:

| Module | Models | To check or prove |
|---|---|---|
| `TsMigrate` | the migration lock, status records, rebuild of `packages/kit/src/migrate.ts` | one migrator at a time under the lock's time to live, each version applied once, a crash at every step |
| `TsGuards` | `constraints.ts`, builders and `runTxn` | the properties of `KitTxn` on the TypeScript protocol, its read outside the retried part and its row-guard delete |
| `Keys` | the typed encoding in both languages | round trip and injectivity over bounded inputs |
| `CheckExpr` | parser and evaluator of `check.rs` | agreement with a reference evaluator, nulls included |
| proofs | `Linearizable`, from `GuardsInv`; upserts of rows whose unique columns the patch leaves alone; more of the translation of `Pushdown` | |
