-------------------------------- MODULE KitTxn --------------------------------
(***************************************************************************)
(* The transaction layer of the Rust Kit, crates/mongreldb-kit/src/txn.rs,  *)
(* and the retrying wrapper Database::transaction of db.rs.                 *)
(*                                                                         *)
(* The engine knows nothing of unique or foreign keys.  The Kit enforces    *)
(* them with rows of its own that it writes in the same transaction: one    *)
(* guard per live unique key (table __kit_unique_keys), and one guard per   *)
(* referenced row that child writes and parent deletes both touch (table    *)
(* __kit_row_guards), so that two transactions that must not both commit    *)
(* write the same row.                                                     *)
(*                                                                         *)
(* An operation of a transaction is one action; the statements that work    *)
(* row by row (insert_many, update_where, delete_where) take one action per *)
(* row, and other transactions may commit in between.  An operation that    *)
(* returns an error makes the closure fail and transaction() roll back:     *)
(* action Rollback.                                                        *)
(***************************************************************************)
EXTENDS DeletePlan

CONSTANTS
  Txns,        \* concurrent callers of transaction()
  Untouched,   \* nothing staged for a key
  Ops,         \* workload: the operations the closures use
  Targets,     \* workload: the rows they address
  MaxOps,      \* workload: operations in one transaction
  Revisit,     \* workload: may a transaction write a row it already wrote?
  MaxRetries,  \* the max_retries argument of transaction()
  MaxBehind    \* bound: commits of others while a transaction is open

INSTANCE MongrelCore

VARIABLES
  store,   \* the committed rows of every table, guards included
  txn      \* the transaction each caller is in

vars == <<store, txn>>

AllOps == {"insert", "insert_many", "update", "update_where", "delete",
           "delete_where", "truncate", "upsert"}

ASSUME KitTxnAssumption ==
  /\ Untouched \notin AllRows \cup RowIds \cup {NoRow}
  /\ Ops \subseteq AllOps /\ Targets \subseteq RowIds
  /\ MaxOps \in Nat /\ MaxRetries \in Nat /\ MaxBehind \in Nat
  /\ Revisit \in BOOLEAN

-----------------------------------------------------------------------------
(* Keys and the rows stored under them.                                     *)

RowKey(x)   == <<"row", x>>            \* the application row
RowGuard(x) == <<"rg", x>>             \* its row in __kit_row_guards
PkGuard(x)  == <<"pk", x>>             \* its __pk_<table> row in __kit_unique_keys
GuardOf(u, v) == <<"uq", <<u.name, v>>>>  \* the guard of value v, keyed by constraint name

GuardKeys == {PkGuard(x) : x \in RowIds} \cup {GuardOf(u, v) : u \in Uniques, v \in Ids}
Keys == {RowKey(x) : x \in RowIds} \cup {RowGuard(x) : x \in RowIds} \cup GuardKeys

\* A guard row names the application row it belongs to.
Stored(k) == (IF k[1] = "row" THEN RowsOf(k[2][1]) ELSE RowIds) \cup {NoRow}

\* The application tables of the committed store.
Committed == [x \in RowIds |-> store[RowKey(x)]]

-----------------------------------------------------------------------------
(* A transaction: its engine snapshot and staging, and what the Kit keeps   *)
(* in memory because the engine cannot read its own staging.                *)

Nothing == [k \in {} |-> NoRow]   \* the function on no keys

NoStatement == [kind |-> "none", todo |-> Nothing, found |-> {}]

Fresh(s, attempt) ==
  [status   |-> "active",
   attempt  |-> attempt,                          \* retries so far
   ops      |-> 0,                                \* operations so far
   snap     |-> s,                                \* the read snapshot
   behind   |-> 0,                                \* commits of others since
   dirty    |-> {},                               \* the keys they wrote
   staged   |-> [k \in Keys |-> Untouched],       \* writes staged in the engine
   view     |-> [x \in RowIds |-> Untouched],     \* replay of Transaction.staged
   reserved |-> [k \in GuardKeys |-> NoRow],      \* Transaction.staged_unique
   stmt     |-> NoStatement,                      \* rows a statement has left
   made     |-> {}]                               \* history: rows it inserted

NoStore == [k \in Keys |-> NoRow]
Idle == [Fresh(NoStore, 0) EXCEPT !.status = "idle"]

\* replay_staged_rows over the snapshot.
Visible(L, x) == IF L.view[x] = Untouched THEN L.snap[RowKey(x)] ELSE L.view[x]

HasStaged(L, t) == \E p \in Ids : L.view[<<t, p>>] # Untouched

\* get_by_pk_internal: the replayed snapshot once the table has staged
\* writes, else a native probe, which reads the latest committed row.
ReadByPk(L, x) == IF HasStaged(L, x[1]) THEN Visible(L, x) ELSE store[RowKey(x)]

\* Mutant: only the rows of this transaction are looked at.
RowExistsStaged(L, x) == L.view[x] \notin {Untouched, NoRow}

\* parent_exists \/ staged_row_exists
RowExists(L, x) == ReadByPk(L, x) # NoRow

-----------------------------------------------------------------------------
(* Constraint checks.                                                       *)

\* The unique guards a row needs; those that change when it replaces old.
Changed(x, new, old) ==
  {u \in UniquesOf(x[1]) : new[u.col] # Null
                           /\ (old = NoRow \/ old[u.col] # new[u.col])}
KeysFor(x, new, old) == {GuardOf(u, new[u.col]) : u \in Changed(x, new, old)}

\* Mutant: the guards of replaced values are left behind.
StaleKeysKept(x, new, old) == {}

StaleKeys(x, new, old) ==
  IF old = NoRow THEN {}
  ELSE {GuardOf(u, old[u.col]) :
          u \in {w \in UniquesOf(x[1]) : old[w.col] # Null
                                         /\ old[w.col] # new[w.col]}}

\* Mutants: only one of the two places a key can be taken is looked at.
KeysFreeCommitted(L, x, new, old) ==
  \A k \in KeysFor(x, new, old) : L.snap[k] \in {NoRow, x}
KeysFreeReserved(L, x, new, old) ==
  \A k \in KeysFor(x, new, old) : L.reserved[k] \in {NoRow, x}

\* check_unique_constraints: no other row owns a key, committed or reserved.
KeysFree(L, x, new, old) ==
  \A k \in KeysFor(x, new, old) : /\ L.snap[k] \in {NoRow, x}
                                  /\ L.reserved[k] \in {NoRow, x}

Composite(t) == Arity[t] > 1

\* check_pk of a composite key; a single-column key is probed by the caller.
PkGuardFree(L, x) == Composite(x[1]) => /\ L.snap[PkGuard(x)] = NoRow
                                        /\ L.reserved[PkGuard(x)] = NoRow
PkGuardOf(x) == IF Composite(x[1]) THEN {PkGuard(x)} ELSE {}

ParentsOf(x, r) ==
  {<<f.parent, r[f.col]>> : f \in {g \in FKsOf(x[1]) : r[g.col] # Null}}

ParentsExist(L, x, r) == \A y \in ParentsOf(x, r) : RowExists(L, y)

HasInboundFk(t) == \E f \in FKsTo(t) : f.child # t

\* update and delete skip the Kit's work on tables that seem not to need it.
FastDelete(t) == UniquesOf(t) = {} /\ ~HasInboundFk(t) /\ ~Composite(t)
FastUpdate(t) == FastDelete(t) /\ Rejects[t] = {}

-----------------------------------------------------------------------------
(* What an operation stages.  Inside one transaction a put wins over a      *)
(* delete of the same key in whatever order the two are staged, so the      *)
(* order of an operation's calls matters only to the in-memory state, where *)
(* gone and forget are applied last, as in the code.                       *)

NoEffect == [puts    |-> Nothing,   \* rows put in the engine
             shown   |-> Nothing,   \* rows appended to Transaction.staged
             gone    |-> {},     \* rows deleted
             reserve |-> Nothing,   \* guards put in __kit_unique_keys
             release |-> {},     \* committed guards deleted
             forget  |-> {},     \* reservations dropped from staged_unique
             touch   |-> {},     \* rows whose row guard is touched
             made    |-> {}]     \* history: rows inserted, not updated

EnginePuts(e) ==
  [k \in {RowKey(x) : x \in DOMAIN e.puts} \cup DOMAIN e.reserve
         \cup {RowGuard(x) : x \in e.touch} |->
     IF k[1] = "row" THEN e.puts[k[2]]
     ELSE IF k[1] = "rg" THEN k[2]
     ELSE e.reserve[k]]

Stage(L, e) ==
  [L EXCEPT
     !.staged   = StageWrites(@, EnginePuts(e),
                              {RowKey(x) : x \in e.gone} \cup e.release),
     !.view     = [x \in RowIds |->
                     IF x \in e.gone THEN NoRow
                     ELSE IF x \in DOMAIN e.shown THEN e.shown[x]
                     ELSE @[x]],
     !.reserved = [k \in GuardKeys |->
                     IF k \in e.forget THEN NoRow
                     ELSE IF k \in DOMAIN e.reserve THEN e.reserve[k]
                     ELSE @[k]],
     !.made     = @ \cup e.made]

\* Mutant: the write is not recorded in Transaction.staged.
WriteRowUnseen(L, x, r, old) ==
  [NoEffect EXCEPT !.puts    = [y \in {x} |-> r],
                   !.reserve = [k \in KeysFor(x, r, old) |-> x],
                   !.release = {k \in StaleKeys(x, r, old) : L.snap[k] # NoRow},
                   !.forget  = StaleKeys(x, r, old),
                   !.touch   = ParentsOf(x, r)]

\* Put the row r at x over old and move its unique guards.
WriteRow(L, x, r, old) ==
  LET stale == StaleKeys(x, r, old)
  IN  [NoEffect EXCEPT
         !.puts    = [y \in {x} |-> r],
         !.shown   = [y \in {x} |-> r],
         !.reserve = [k \in KeysFor(x, r, old) |-> x],
         !.release = {k \in stale : L.snap[k] # NoRow},
         !.forget  = stale,
         !.touch   = ParentsOf(x, r)]

\* do_insert: additionally reserve the guard of a composite key.
InsertRow(L, x, r) ==
  [WriteRow(L, x, r, NoRow) EXCEPT
     !.reserve = [k \in KeysFor(x, r, NoRow) \cup PkGuardOf(x) |-> x],
     !.made    = {x}]

\* Mutant: no committed guard is deleted.
CommittedGuardsKept(L, S) == {}

\* The committed guards and the reservations of the rows in S.
CommittedGuards(L, S) == {k \in GuardKeys : L.snap[k] \in S}

Reservations(L, S) == {k \in GuardKeys : L.reserved[k] \in S}

\* Mutant: the children this transaction wrote are not found.
RefsFoundCommitted(L, x) ==
  References([y \in RowIds |-> IF L.view[y] = Untouched THEN Visible(L, y) ELSE NoRow])

\* plan_delete of the row x.  find_children decodes every parent key it is
\* given as a key of the deleted row's table, so it finds no child of a
\* table whose key has another number of columns.
RefsFound(L, x) ==
  {h \in References([y \in RowIds |-> Visible(L, y)]) :
     Arity[h[2][1]] = Arity[x[1]]}

\* apply_set_null of one reference: the cached child row, its column null.
Nulled(L, f, y) == [Visible(L, y) EXCEPT ![f.col] = Null]

\* The row guards a delete of x touches, and a mutant that touches none.
NoneTouched(x) == {}
TouchedByDelete(x) == {x}

\* delete_row and the engine deletes, for the references refs; pick names,
\* for every row that is set null, the update that is applied to it last.
\* Each starts from the row the planner cached and overwrites the one before.
DeleteRow(L, x, refs, pick) ==
  LET cut   == DOMAIN pick
      gone  == {x} \cup {y \in Reach(refs, x) : y[1] # x[1]}
      kept  == [y \in cut |-> Nulled(L, pick[y], y)]
      guard == UNION {KeysFor(y, kept[y], NoRow) \cup PkGuardOf(y) : y \in cut}
      owner == [k \in guard |->
                  CHOOSE y \in cut : k \in KeysFor(y, kept[y], NoRow) \cup PkGuardOf(y)]
  IN  [NoEffect EXCEPT
         !.puts    = kept,
         !.shown   = kept,
         !.gone    = gone,
         !.reserve = owner,
         !.release = CommittedGuards(L, cut \cup gone),
         !.forget  = (Reservations(L, cut \cup gone) \ guard)
                       \cup {k \in guard : owner[k] \in gone},
         !.touch   = TouchedByDelete(x)]

\* delete_all_guards_for_table and the engine's truncate.
TruncateTable(L, t) ==
  LET gone == {x \in RowIds : x[1] = t}
  IN  [NoEffect EXCEPT
         !.gone    = gone,
         !.release = CommittedGuards(L, gone)
                       \cup {RowGuard(x) : x \in {y \in gone : L.snap[RowGuard(y)] # NoRow}},
         !.forget  = Reservations(L, gone)]

-----------------------------------------------------------------------------
(* The operations.                                                          *)

\* Caller c is in the closure and may start an operation.
Running(c, op) == /\ txn[c].status = "active"
                  /\ txn[c].stmt = NoStatement
                  /\ op \in Ops
                  /\ txn[c].ops < MaxOps

\* Workload bound: rows are written once unless Revisit.
MayWrite(L, e) ==
  Revisit \/ \A x \in DOMAIN e.shown \cup e.gone : L.view[x] = Untouched

\* The operation, or the row of one, is done; stmt is what it has left.
Done(L, e, stmt) ==
  [Stage(L, e) EXCEPT !.ops  = IF stmt = NoStatement THEN L.ops + 1 ELSE L.ops,
                      !.stmt = stmt]

Perform(c, e, stmt) ==
  /\ MayWrite(txn[c], e)
  /\ txn' = [txn EXCEPT ![c] = Done(txn[c], e, stmt)]
  /\ UNCHANGED store

\* db.begin()
Begin(c) ==
  /\ txn[c].status = "idle"
  /\ txn' = [txn EXCEPT ![c] = Fresh(store, 0)]
  /\ UNCHANGED store

\* insert: every check, then guards and row.
Insert(c, x, r) ==
  LET L == txn[c]
  IN  /\ Running(c, "insert")
      /\ r \in RowsOf(x[1]) /\ ValidRow(x[1], r)
      /\ KeysFree(L, x, r, NoRow)
      /\ ~Composite(x[1]) => ~RowExists(L, x)
      /\ PkGuardFree(L, x)
      /\ ParentsExist(L, x, r)
      /\ Perform(c, InsertRow(L, x, r), NoStatement)

\* update on the full path.
Update(c, x, r) ==
  LET L   == txn[c]
      old == ReadByPk(L, x)
  IN  /\ Running(c, "update")
      /\ ~FastUpdate(x[1])
      /\ old # NoRow
      /\ r \in RowsOf(x[1]) /\ ValidRow(x[1], r)
      /\ KeysFree(L, x, r, old)
      /\ ParentsExist(L, x, r)
      /\ Perform(c, WriteRow(L, x, r, old), NoStatement)

\* update_fast: the latest row id, read at the snapshot, and a single put.
UpdateFast(c, x, r) ==
  /\ Running(c, "update")
  /\ FastUpdate(x[1])
  /\ store[RowKey(x)] # NoRow
  /\ RowKey(x) \notin txn[c].dirty
  /\ r \in RowsOf(x[1]) /\ ValidRow(x[1], r)
  /\ Perform(c, [NoEffect EXCEPT !.puts = [y \in {x} |-> r],
                                 !.shown = [y \in {x} |-> r]], NoStatement)

\* The rows of the plan can be deleted and set null.
Deletable(L, x, refs, pick) ==
  /\ ~Restricted(refs, x)
  /\ ~Circular(refs, x)
  /\ \A y \in DOMAIN pick : ValidRow(y[1], Nulled(L, pick[y], y))

\* One set-null update for every row the plan sets null.
Picks(refs, x) ==
  {p \in [{h[3] : h \in Cut(refs, x)} -> FKs] :
     \A y \in DOMAIN p : \E h \in Cut(refs, x) : h[1] = p[y] /\ h[3] = y}

\* delete on the full path.
Delete(c, x) ==
  LET L    == txn[c]
      refs == RefsFound(L, x)
  IN  /\ Running(c, "delete")
      /\ ~FastDelete(x[1])
      /\ RowExists(L, x)
      /\ \E pick \in Picks(refs, x) :
           /\ Deletable(L, x, refs, pick)
           /\ Perform(c, DeleteRow(L, x, refs, pick), NoStatement)

\* delete on the fast path: the latest row id and an engine delete.
DeleteFast(c, x) ==
  /\ Running(c, "delete")
  /\ FastDelete(x[1])
  /\ store[RowKey(x)] # NoRow
  /\ Perform(c, [NoEffect EXCEPT !.gone = {x}], NoStatement)

Truncate(c, t) ==
  /\ Running(c, "truncate")
  /\ ~HasStaged(txn[c], t)
  /\ ~HasInboundFk(t)
  /\ Perform(c, TruncateTable(txn[c], t), NoStatement)

Patched(r, patch) == [a \in DOMAIN r |-> IF a \in DOMAIN patch THEN patch[a] ELSE r[a]]

\* upsert of an absent row, whatever on_conflict says; check_pk is not called.
UpsertAbsent(c, x, r) ==
  LET L == txn[c]
  IN  /\ Running(c, "upsert")
      /\ r \in RowsOf(x[1]) /\ ValidRow(x[1], r)
      /\ ~RowExists(L, x)
      /\ KeysFree(L, x, r, NoRow)
      /\ ParentsExist(L, x, r)
      /\ Perform(c, InsertRow(L, x, r), NoStatement)

\* upsert DO UPDATE of an existing row: checks, guards and the replay use the
\* patched input row; the engine patches, and tests, the stored row.
UpsertExisting(c, x, r, patch) ==
  LET L      == txn[c]
      old    == ReadByPk(L, x)
      merged == Patched(r, patch)
  IN  /\ Running(c, "upsert")
      /\ old # NoRow
      /\ r \in RowsOf(x[1]) /\ ValidRow(x[1], r) /\ ValidRow(x[1], merged)
      /\ ValidRow(x[1], Patched(old, patch))
      /\ KeysFree(L, x, merged, old)
      /\ ParentsExist(L, x, merged)
      /\ Perform(c, [WriteRow(L, x, merged, old) EXCEPT
                       !.puts = [y \in {x} |-> Patched(old, patch)]], NoStatement)

-----------------------------------------------------------------------------
(* Statements that work row by row.  todo maps the rows left to what they   *)
(* become.                                                                 *)

\* insert_many, update_where, delete_where start: update_where and
\* delete_where read the rows their filter selects, all at once.
StartStatement(c, kind, todo) ==
  /\ Running(c, kind)
  /\ DOMAIN todo # {}
  /\ txn' = [txn EXCEPT ![c].stmt = [kind |-> kind, todo |-> todo, found |-> {}]]
  /\ UNCHANGED store

\* The rows a filter may select.  With a filter that translates and nothing staged
\* for the table the code fetches the latest rows instead; those that differ from
\* the snapshot's are dirty, so that a statement that writes one cannot commit,
\* and neither can one that writes the old row it finds here.
Selected(L, t) == {x \in Targets : x[1] = t /\ Visible(L, x) # NoRow}

StartInsertMany(c, t) ==
  \E S \in SUBSET {x \in Targets : x[1] = t} : \E todo \in [S -> RowsOf(t)] :
    StartStatement(c, "insert_many", todo)

StartUpdateWhere(c, t) ==
  \E S \in SUBSET Selected(txn[c], t) :
  \E a \in ColsOf[t], v \in Ids \cup {Null} :
    StartStatement(c, "update_where",
      [x \in S |-> [Visible(txn[c], x) EXCEPT ![a] = v]])

StartDeleteWhere(c, t) ==
  \E S \in SUBSET Selected(txn[c], t) :
    StartStatement(c, "delete_where", [x \in S |-> Visible(txn[c], x)])

\* The statement once the row x is done and the parents in found were seen.
Rest(L, x, found) ==
  IF DOMAIN L.stmt.todo = {x} THEN NoStatement
  ELSE [L.stmt EXCEPT !.todo  = [y \in DOMAIN @ \ {x} |-> @[y]],
                      !.found = @ \cup found]

InStatement(c, kind, x) == /\ txn[c].status = "active"
                           /\ txn[c].stmt.kind = kind
                           /\ x \in DOMAIN txn[c].stmt.todo

\* One row of insert_many: keys against the set read at the start, parents
\* through the batch cache.
InsertManyRow(c, x) ==
  LET L == txn[c]
      r == L.stmt.todo[x]
  IN  /\ InStatement(c, "insert_many", x)
      /\ ValidRow(x[1], r)
      /\ KeysFree(L, x, r, NoRow)
      /\ ~Composite(x[1]) => Visible(L, x) = NoRow
      /\ PkGuardFree(L, x)
      /\ \A y \in ParentsOf(x, r) : y \in L.stmt.found \/ RowExists(L, y)
      /\ Perform(c, InsertRow(L, x, r), Rest(L, x, ParentsOf(x, r)))

\* One row of update_where, always on the full path.
UpdateWhereRow(c, x) ==
  LET L   == txn[c]
      r   == L.stmt.todo[x]
      old == Visible(L, x)
  IN  /\ InStatement(c, "update_where", x)
      /\ ValidRow(x[1], r)
      /\ KeysFree(L, x, r, old)
      /\ ParentsExist(L, x, r)
      /\ Perform(c, WriteRow(L, x, r, old), Rest(L, x, {}))

\* One row of delete_where, always on the full path.
DeleteWhereRow(c, x) ==
  LET L    == txn[c]
      refs == RefsFound(L, x)
  IN  /\ InStatement(c, "delete_where", x)
      /\ \E pick \in Picks(refs, x) :
           /\ Deletable(L, x, refs, pick)
           /\ Perform(c, DeleteRow(L, x, refs, pick), Rest(L, x, {}))

-----------------------------------------------------------------------------
(* The end of a transaction, and transaction()'s loop around it.            *)

\* Mutant: a retry loop that never counts.
SameAttempt(L) == L.attempt

RetriesLeft(L) == L.attempt < MaxRetries

NextAttempt(L) == L.attempt + 1

Conflicts(L) == WriteSet(L.staged) \cap L.dirty # {}

\* The closure returned and the engine installs what it staged.
Commit(c) ==
  LET L == txn[c]
  IN  /\ L.status = "active"
      /\ L.stmt = NoStatement
      /\ ~Conflicts(L)
      /\ \A d \in Txns \ {c} : txn[d].status = "active" => txn[d].behind < MaxBehind
      /\ store' = Install(store, L.staged)
      /\ txn' = [d \in Txns |->
                   IF d = c THEN Idle
                   ELSE IF txn[d].status = "active"
                   THEN [txn[d] EXCEPT !.behind = @ + 1,
                                       !.dirty  = @ \cup WriteSet(L.staged)]
                   ELSE txn[d]]

\* The engine refuses the commit: run the closure again, or give up.
Conflict(c) ==
  LET L == txn[c]
  IN  /\ L.status = "active"
      /\ L.stmt = NoStatement
      /\ Conflicts(L)
      /\ txn' = [txn EXCEPT ![c] = IF RetriesLeft(L)
                                    THEN Fresh(store, NextAttempt(L))
                                    ELSE Idle]
      /\ UNCHANGED store

\* The closure returned an error, its own or an operation's.
Rollback(c) ==
  /\ txn[c].status = "active"
  /\ txn' = [txn EXCEPT ![c] = Idle]
  /\ UNCHANGED store

\* The error is itself a conflict: roll back and run the closure again.
RollbackRetry(c) ==
  /\ txn[c].status = "active"
  /\ RetriesLeft(txn[c])
  /\ txn' = [txn EXCEPT ![c] = Fresh(store, NextAttempt(txn[c]))]
  /\ UNCHANGED store

-----------------------------------------------------------------------------
Init == /\ store = NoStore
        /\ txn = [c \in Txns |-> Idle]

Operation(c) ==
  \/ \E x \in Targets :
       \/ \E r \in RowsOf(x[1]) :
            \/ Insert(c, x, r)
            \/ Update(c, x, r)
            \/ UpdateFast(c, x, r)
            \/ UpsertAbsent(c, x, r)
            \/ \E S \in SUBSET ColsOf[x[1]] : \E patch \in [S -> Ids \cup {Null}] :
                 UpsertExisting(c, x, r, patch)
       \/ Delete(c, x)
       \/ DeleteFast(c, x)
       \/ InsertManyRow(c, x)
       \/ UpdateWhereRow(c, x)
       \/ DeleteWhereRow(c, x)
  \/ \E t \in Tables :
       \/ Truncate(c, t)
       \/ StartInsertMany(c, t)
       \/ StartUpdateWhere(c, t)
       \/ StartDeleteWhere(c, t)

Finish(c) == Commit(c) \/ Conflict(c) \/ Rollback(c) \/ RollbackRetry(c)

Next == \E c \in Txns : Begin(c) \/ Operation(c) \/ Finish(c)

Spec == Init /\ [][Next]_vars

\* The thread that called transaction() keeps running: the closure goes on or
\* returns, and the loop commits, retries or rolls back.
FairSpec == Spec /\ \A c \in Txns : WF_vars(Operation(c) \/ Finish(c))

-----------------------------------------------------------------------------
(* Properties.                                                              *)

Values == AllRows \cup RowIds \cup {NoRow}

Statements == [kind  : {"none", "insert_many", "update_where", "delete_where"},
               todo  : UNION {[S -> AllRows] : S \in SUBSET RowIds},
               found : SUBSET RowIds]

Transactions ==
  [status   : {"idle", "active"},
   attempt  : 0..MaxRetries,
   ops      : 0..MaxOps,
   snap     : [Keys -> Values],
   behind   : 0..MaxBehind,
   dirty    : SUBSET Keys,
   staged   : [Keys -> Values \cup {Untouched}],
   view     : [RowIds -> AllRows \cup {NoRow, Untouched}],
   reserved : [GuardKeys -> RowIds \cup {NoRow}],
   stmt     : Statements,
   made     : SUBSET RowIds]

\* Row keys hold rows of their table, guards hold owners.
WellTyped(s, extra) == \A k \in Keys : s[k] \in Stored(k) \cup extra

\* What a transaction reads, shows and is about to write are rows of the
\* tables they are for.
TypedTxn(L) ==
  /\ WellTyped(L.snap, {})
  /\ WellTyped(L.staged, {Untouched})
  /\ \A x \in RowIds : L.view[x] \in RowsOf(x[1]) \cup {NoRow, Untouched}
  /\ \A x \in DOMAIN L.stmt.todo : L.stmt.todo[x] \in RowsOf(x[1])

\* Every key holds a row of its kind, in the store, in every snapshot and in
\* every staging, and so does every row a statement has yet to write.
TypeOK ==
  /\ store \in [Keys -> Values]
  /\ WellTyped(store, {})
  /\ txn \in [Txns -> Transactions]
  /\ \A c \in Txns : TypedTxn(txn[c])

\* No two committed rows of a table share a non-null unique value, whatever
\* transactions were interleaved (docs/constraints.md, "Unique constraints").
NoDuplicateKeys == KeysUnique(Committed)

\* No committed row refers to a row that is not there: a parent delete and a
\* child write that overlap never both commit (txn.rs, "Foreign keys").
NoDanglingReference == ReferencesIntact(Committed)

\* The rows that must own the guard k.
OwnersOf(k) ==
  {x \in RowIds : /\ Committed[x] # NoRow
                  /\ k \in KeysFor(x, Committed[x], NoRow) \cup PkGuardOf(x)}

\* __kit_unique_keys holds one row per live key, owned by the row that holds
\* the key, and no other: a guard left behind would refuse a key that no row
\* holds, a missing one would admit a duplicate.
GuardsMatchRows ==
  \A k \in GuardKeys :
    IF OwnersOf(k) = {} THEN store[k] = NoRow ELSE store[k] \in OwnersOf(k)

\* The step commits the writes of c.
Commits(c) == txn[c].status = "active" /\ txn'[c].status = "idle" /\ store' # store

\* A commit changes the application tables to exactly what the transaction
\* itself saw: rows it showed as deleted are gone, rows it showed are stored.
CommitsWhatItShowed ==
  [][\A c \in Txns :
       Commits(c) =>
         \A x \in RowIds : store'[RowKey(x)] =
            IF txn[c].view[x] = Untouched THEN store[RowKey(x)] ELSE txn[c].view[x]]_vars

\* An insert adds a row and an update replaces one, of the tables as they are
\* when the transaction commits: an insert never overwrites a row another
\* transaction committed, an update never brings back one it deleted.
InsertsAddUpdatesReplace ==
  [][\A c \in Txns :
       Commits(c) =>
         \A x \in RowIds : txn[c].view[x] \in AllRows =>
            (x \in txn[c].made <=> store[RowKey(x)] = NoRow)]_vars

\* A read by primary key inside a transaction returns what the transaction's
\* snapshot and its own writes say (txn.rs, module comment).
ReadsUseSnapshot ==
  \A c \in Txns, x \in RowIds :
    txn[c].status = "active" => ReadByPk(txn[c], x) = Visible(txn[c], x)

\* A key no row of its table holds can be taken: no guard stands in the way.
FreeKeysAreFree ==
  \A u \in Uniques, v \in Ids :
    (\A p \in Ids : ~Holds(Committed, u, p, v)) => store[GuardOf(u, v)] = NoRow

\* Every call of transaction() returns: it commits, fails, or runs out of
\* retries, whatever the other callers do.
CallsReturn == \A c \in Txns : txn[c].status = "active" ~> txn[c].status = "idle"

\* The committed tables change as if each transaction of one operation had run
\* alone, on the rows committed at that moment.
Relations == INSTANCE Relational WITH tables <- Committed
Linearizable == Relations!Spec
=============================================================================
