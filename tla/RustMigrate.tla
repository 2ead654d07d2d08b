------------------------------ MODULE RustMigrate ------------------------------
(***************************************************************************)
(* The migration runner of the Rust kit (crates/mongreldb-kit/src/          *)
(* migrate.rs, mongreldb-kit-core/src/migrations.rs) and the handle it runs  *)
(* on (open, set_schema and the schema file of db.rs).  Every operation of a *)
(* migration is durable by itself; the records of all pending migrations are *)
(* one transaction at the end, and the schema file is written after it.  The *)
(* process may crash between any two durable steps, and the engine may       *)
(* refuse a step: an error that ends migrate(), unless it drops a table, a   *)
(* trigger or a procedure, whose errors migrate() ignores.                  *)
(*                                                                         *)
(* `old' and `new' are two releases of the application with their schemas;   *)
(* the new one migrates and serves only once migrate() returned Ok.  Nobody *)
(* else writes meanwhile: migrate takes &mut Database, and the engine locks *)
(* the directory.                                                          *)
(***************************************************************************)
EXTENDS Integers, Sequences, FiniteSets, TLC

CONSTANTS
  Plans,        \* [old, new : schema, migrations : set of [version, ops]]
  RowKeys,      \* primary keys
  Values,       \* column values other than Null
  Null,
  MaxCrashes,   \* bound on crashes and refused steps
  Refusable     \* the kinds of steps the engine may refuse (I/O)

\* A schema maps its tables to [cols : id -> [name, required], uniques :
\* name -> column id, indexes : name -> [col, unique], fks : name ->
\* [col, parent]].
Kinds == {"create_table", "drop_table", "add_column", "drop_column", "alter_column",
          "add_unique", "drop_unique", "add_index", "drop_index", "add_foreign_key",
          "create_object", "replace_object", "drop_object", "metadata"}

ASSUME MigrateAssumption ==
  /\ MaxCrashes \in Nat
  /\ Null \notin Values
  /\ \A p \in Plans, s \in {"old", "new"} : \A t \in DOMAIN p[s] :
       /\ DOMAIN p[s][t] = {"cols", "uniques", "indexes", "fks"}
       /\ p[s][t].cols = [c \in DOMAIN p[s][t].cols |-> p[s][t].cols[c]]
  /\ \A p \in Plans : \A m \in p.migrations :
       m.version \in Nat \ {0} /\ Len(m.ops) \in Nat /\ DOMAIN m.ops = 1..Len(m.ops)
  /\ \A p \in Plans : \A m \in p.migrations : \A i \in DOMAIN m.ops : m.ops[i].kind \in Kinds

VARIABLES
  plan,      \* the two schemas and the migrations between them
  disk,      \* tables, unique and row guards, triggers and procedures
  records,   \* the versions in __kit_schema_migrations
  file,      \* the release whose schema kit_schema.json holds
  proc,      \* the process that has the database open
  crashes,   \* crashes and refusals so far
  tried,     \* "no" migration was tried, one was ("yes"), and the old release
             \* was started again after it ("mixed"): history
  written,   \* the rows the application stored: history
  ignored    \* the tables whose last drop the engine refused: history

vars == <<plan, disk, records, file, proc, crashes, tried, written, ignored>>

\* A process that works on no migration.
None == [version |-> 0, ops |-> <<>>]

\* todo: the migrations still to come; m, i and step: the one being applied,
\* its operation and the durable step of it that comes next; saved and temp:
\* the local variables of rebuild_table.
Down == [phase |-> "down", code |-> "old", todo |-> {}, m |-> None, i |-> 0,
         step |-> "done", versions |-> {}, saved |-> <<>>, temp |-> <<>>]

-----------------------------------------------------------------------------
(* Schemas and guards. *)

\* synthesize_unique_from_indexes: a unique index is a unique constraint of
\* the same name unless one covers its column already.
UniquesOf(table) ==
  LET covered == {table.uniques[u] : u \in DOMAIN table.uniques}
      extra   == {x \in DOMAIN table.indexes : /\ table.indexes[x].unique
                                               /\ table.indexes[x].col \notin covered}
  IN  table.uniques @@ [x \in extra |-> table.indexes[x].col]

Cell(row, c) == IF c \in DOMAIN row THEN row[c] ELSE Null

\* The guards the rows of table t ask for by constraint u on column c.
KeysIn(d, t, u, c) ==
  {<<<<u, Cell(d.tables[t].rows[k], c)>>, k>> : k \in
     {k \in DOMAIN d.tables[t].rows : Cell(d.tables[t].rows[k], c) # Null}}

Without(f, S) == [x \in DOMAIN f \ S |-> f[x]]
With(f, x, v) == [y \in {x} \cup DOMAIN f |-> IF y = x THEN v ELSE f[y]]

\* to_core_schema: the physical table a declared one becomes.
Physical(table) == [cols |-> table.cols, rows |-> <<>>]

\* The engine's NOT NULL test.
Storable(cols, row) == \A c \in DOMAIN cols : cols[c].required => Cell(row, c) # Null

-----------------------------------------------------------------------------
(* plan_migrations and the durable steps of an operation, between which a  *)
(* crash can fall.                                                         *)

Pending(desired) ==
  {m \in desired : \A v \in records : m.version > v}

\* apply_migration_ops: the first step of an operation under the handle's
\* schema; "fail" is an error, "done" that it changes nothing.
FirstStep(op, schema) ==
  LET declared == op.t \in DOMAIN schema
      table    == schema[op.t]
      column   == declared /\ \E c \in DOMAIN table.cols : table.cols[c].name = op.x
      index    == declared /\ op.x \in DOMAIN table.indexes
      unique   == declared /\ op.x \in DOMAIN UniquesOf(table)
      backfill == IF unique THEN "backfill" ELSE "fail"
  IN CASE op.kind = "create_table" -> IF declared THEN "create" ELSE "done"
       [] op.kind = "drop_table"   -> "drop"
       [] op.kind = "add_column"   -> IF column THEN "addcol" ELSE "done"
       [] op.kind = "add_unique"   -> backfill
       [] op.kind = "drop_unique"  -> "dropguards"
       [] op.kind = "add_foreign_key" ->
            IF declared /\ op.x \in DOMAIN table.fks /\ table.fks[op.x].parent \in DOMAIN schema
            THEN "checkfk" ELSE "fail"
       [] op.kind = "alter_column" -> IF declared THEN "alter" ELSE "fail"
       [] op.kind \in {"create_object", "replace_object", "drop_object"} -> op.kind
       [] op.kind = "drop_column"  -> IF declared /\ ~column THEN "temp" ELSE "fail"
       [] op.kind = "add_index"    -> IF ~index THEN "fail"
                                      ELSE IF table.indexes[op.x].unique THEN backfill ELSE "temp"
       [] op.kind = "drop_index"   -> IF declared /\ ~index THEN "temp" ELSE "fail"
       [] op.kind = "metadata"     -> "done"   \* checks, DropForeignKey, views

\* Mutant: the table is dropped before its copy is filled.
DropFirst == [temp |-> "droptable", droptable |-> "filltemp", filltemp |-> "maketable",
              maketable |-> "fill", fill |-> "droptemp"]

\* rebuild_table: copy, drop, create again, copy back.
Rebuild == [temp |-> "filltemp", filltemp |-> "droptable", droptable |-> "maketable",
            maketable |-> "fill", fill |-> "droptemp"]

\* The step of an operation of this kind after another.
StepAfter(step, kind) ==
  IF step \in DOMAIN Rebuild THEN Rebuild[step]
  ELSE IF step = "drop" THEN "clean"
  ELSE IF step = "backfill" /\ kind = "add_index" THEN "temp"
  ELSE IF step = "droptemp" /\ kind \in {"drop_column", "drop_index"} THEN "stale"
  ELSE "done"

-----------------------------------------------------------------------------
(* The durable steps: what each does to the disk, and when it fails.        *)

Schema == plan[proc.code]
Doing     == proc.m.ops[proc.i]
T      == Doing.t            \* the operation's table:
Target == Schema[T]       \* as the migrations should leave it,
Now    == disk.tables[T]  \* as it is

PutTable(phys) == [disk EXCEPT !.tables = With(@, T, phys)]
WithoutTable      == [disk EXCEPT !.tables = Without(@, {T})]

Create == IF T \in DOMAIN disk.tables THEN disk ELSE PutTable(Physical(Target))

\* Mutant: the row guards of the dropped table stay.
CleanUnique == [disk EXCEPT !.uq = Without(@, {g \in DOMAIN @ : @[g][1] = T})]

\* clean_table_guards.
Clean == [disk EXCEPT !.uq = Without(@, {g \in DOMAIN @ : @[g][1] = T}),
                      !.rg = {r \in @ : r[1] # T}]

\* drop_unique_guards: the constraint names the guard, with its table.
DropGuards == [disk EXCEPT
  !.uq = Without(@, {g \in DOMAIN @ : @[g][1] = T /\ g[1] = Doing.x})]

\* drop_stale_unique_guards.
DropStale == [disk EXCEPT
  !.uq = Without(@, {g \in DOMAIN @ : @[g][1] = T /\ g[1] \notin DOMAIN UniquesOf(Target)})]

Named(cols, name) == {c \in DOMAIN cols : cols[c].name = name}

\* The engine changes the definition of column c, unless a row does not fit.
WithColumn(c) == With(Now.cols, c, Target.cols[c])
ColumnFits(c) == \A k \in DOMAIN Now.rows : Storable(WithColumn(c), Now.rows[k])
PutColumn(c)  == PutTable([Now EXCEPT !.cols = WithColumn(c)])

AddedColumn == CHOOSE c \in Named(Target.cols, Doing.x) : TRUE
AddsColumn  == /\ T \in DOMAIN disk.tables
               /\ AddedColumn \notin DOMAIN Now.cols
               /\ ColumnFits(AddedColumn)

\* alter_column: the column of that name in the target schema or, when the
\* migration names the old one, the target column with the same id.
AlteredColumns == IF Named(Target.cols, Doing.x) # {} THEN Named(Target.cols, Doing.x)
                  ELSE Named(Now.cols, Doing.x) \cap DOMAIN Target.cols
AlteredColumn  == CHOOSE c \in AlteredColumns : TRUE
AltersColumn   == /\ T \in DOMAIN disk.tables
                  /\ AlteredColumns \cap DOMAIN Now.cols # {}
                  /\ ColumnFits(AlteredColumn)

\* backfill_unique: rows that agree refuse the migration; guards that exist
\* are left as they are.
Found     == KeysIn(disk, T, Doing.x, UniquesOf(Target)[Doing.x])
\* Mutant: a second run trips over the guards of the first.
BackfillsOnce == /\ T \in DOMAIN disk.tables
                 /\ \A p, q \in Found : p[1] = q[1] => p[2] = q[2] /\ p[1] \notin DOMAIN disk.uq
Backfills == T \in DOMAIN disk.tables /\ \A p, q \in Found : p[1] = q[1] => p[2] = q[2]
Backfill  == [disk EXCEPT
  !.uq = [g \in DOMAIN @ \cup {p[1] : p \in Found} |->
            IF g \in DOMAIN @ THEN @[g] ELSE <<T, (CHOOSE p \in Found : p[1] = g)[2]>>]]

\* backfill_foreign_key: every child finds its parent, whose guard is touched.
Parent   == Target.fks[Doing.x].parent
Wanted   == {Cell(Now.rows[k], Target.fks[Doing.x].col) : k \in DOMAIN Now.rows} \ {Null}
ChecksForeignKey == /\ {T, Parent} \subseteq DOMAIN disk.tables
                    /\ Wanted \subseteq DOMAIN disk.tables[Parent].rows
CheckForeignKey == [disk EXCEPT !.rg = @ \cup {<<Parent, k>> : k \in Wanted}]

\* copy_rows_to_table: the cells of the target's columns.
Copy     == [k \in DOMAIN proc.saved |-> [c \in DOMAIN Target.cols |-> Cell(proc.saved[k], c)]]
CopyFits == \A k \in DOMAIN Copy : Storable(Target.cols, Copy[k])

\* temp_rebuild_name: the first number no temporary table of T has.
TempName == <<T, CHOOSE n \in 0..Cardinality(DOMAIN disk.temps) :
                   /\ <<T, n>> \notin DOMAIN disk.temps
                   /\ \A m \in 0..(n - 1) : <<T, m>> \in DOMAIN disk.temps>>

MakeTemp == [disk EXCEPT !.temps = With(@, TempName, Physical(Target))]
FillTemp == [disk EXCEPT !.temps[proc.temp].rows = Copy]
DropTemp == [disk EXCEPT !.temps = Without(@, {proc.temp})]

\* Triggers and procedures: create refuses a name in use, replace and drop
\* do not care.
Object == [disk EXCEPT !.objects = IF Doing.kind = "drop_object" THEN @ \ {Doing.x}
                                   ELSE @ \cup {Doing.x}]

Succeeds ==
  /\ proc.step # "fail"
  /\ proc.step = "addcol"   => AddsColumn
  /\ proc.step = "alter"    => AltersColumn
  /\ proc.step = "backfill" => Backfills
  /\ proc.step = "checkfk"  => ChecksForeignKey
  /\ proc.step = "temp"     => T \in DOMAIN disk.tables
  /\ proc.step = "filltemp" => CopyFits
  /\ proc.step = "create_object" => Doing.x \notin disk.objects

Outcome ==
  \/ proc.step = "create"     /\ disk' = Create
  \/ proc.step = "drop"       /\ disk' = WithoutTable
  \/ proc.step = "clean"      /\ disk' = Clean
  \/ proc.step = "addcol"     /\ disk' = PutColumn(AddedColumn)
  \/ proc.step = "alter"      /\ disk' = PutColumn(AlteredColumn)
  \/ proc.step = "backfill"   /\ disk' = Backfill
  \/ proc.step = "dropguards" /\ disk' = DropGuards
  \/ proc.step = "stale"      /\ disk' = DropStale
  \/ proc.step = "checkfk"    /\ disk' = CheckForeignKey
  \/ proc.step = "temp"       /\ disk' = MakeTemp
  \/ proc.step = "filltemp"   /\ disk' = FillTemp
  \/ proc.step = "droptable"  /\ disk' = WithoutTable
  \/ proc.step = "maketable"  /\ disk' = PutTable(Physical(Target))
  \/ proc.step = "fill"       /\ disk' = PutTable([Physical(Target) EXCEPT !.rows = Copy])
  \/ proc.step = "droptemp"   /\ disk' = DropTemp
  \/ proc.step \in {"create_object", "replace_object", "drop_object"} /\ disk' = Object

-----------------------------------------------------------------------------
(* The process. *)

Idle == proc.phase = "serving"

\* open (load_schema, the reserved tables) and set_schema with the schema the
\* release was built with.  The old release runs while nothing is recorded.
Open(code) ==
  /\ proc.phase = "down"
  /\ code = "old" => records = {}
  /\ proc' = [Down EXCEPT !.phase = IF code = "old" THEN "serving" ELSE "open", !.code = code]
  /\ tried' = IF code = "old" /\ tried = "yes" THEN "mixed" ELSE tried
  /\ UNCHANGED <<plan, disk, records, file, crashes, written, ignored>>

\* migrate: nothing is pending, or the operations of what is.
Migrate ==
  /\ proc.phase = "open"
  /\ LET ms == Pending(plan.migrations) IN
     proc' = IF ms = {} THEN [proc EXCEPT !.phase = "serving"]
             ELSE [proc EXCEPT !.phase    = "applying",
                               !.todo     = ms,
                               !.versions = {m.version : m \in ms}]
  /\ tried' = IF tried = "no" THEN "yes" ELSE tried
  /\ UNCHANGED <<plan, disk, records, file, crashes, written, ignored>>

\* The loops of migrate and apply_migration_ops: the next migration in the
\* order of the versions, its next operation.
NextMigration ==
  /\ proc.phase = "applying" /\ proc.step = "done"
  /\ proc.i + 1 \notin DOMAIN proc.m.ops
  /\ \E m \in proc.todo :
       /\ \A n \in proc.todo : m.version <= n.version
       /\ proc' = [proc EXCEPT !.todo = @ \ {m}, !.m = m, !.i = 0]
  /\ UNCHANGED <<plan, disk, records, file, crashes, tried, written, ignored>>

NextOperation ==
  /\ proc.phase = "applying" /\ proc.step = "done"
  /\ proc.i + 1 \in DOMAIN proc.m.ops
  /\ proc' = [proc EXCEPT !.i = @ + 1, !.step = FirstStep(proc.m.ops[proc.i + 1], Schema)]
  /\ UNCHANGED <<plan, disk, records, file, crashes, tried, written, ignored>>

Working == proc.phase = "applying" /\ proc.step # "done"

ApplyStep ==
  /\ Working /\ Succeeds
  /\ Outcome
  /\ proc' = [proc EXCEPT
       !.step  = StepAfter(@, Doing.kind),
       !.saved = IF proc.step = "temp" THEN Now.rows ELSE IF proc.step = "droptemp" THEN <<>> ELSE @,
       !.temp  = IF proc.step = "temp" THEN TempName ELSE IF proc.step = "droptemp" THEN <<>> ELSE @]
  /\ ignored' = IF proc.step = "drop" THEN ignored \ {T} ELSE ignored
  /\ UNCHANGED <<plan, records, file, crashes, tried, written>>

\* The error ends migrate(), after the temporary table is dropped.
Abort(phase) ==
  /\ disk' = DropTemp
  /\ proc' = [Down EXCEPT !.phase = phase, !.code = proc.code]

\* An operation is refused for what the schema or the rows are.
StepFails ==
  /\ Working /\ ~Succeeds
  /\ Abort("failed")
  /\ UNCHANGED <<plan, records, file, crashes, tried, written, ignored>>

\* DropTable, DropTrigger and DropProcedure are best-effort: `let _ =' drops
\* the engine's error, and migrate() goes on to its next step.
BestEffort == {"drop", "drop_object"}

DropIgnored ==
  /\ Working /\ proc.step \in Refusable \cap BestEffort
  /\ crashes < MaxCrashes
  /\ crashes' = crashes + 1
  /\ proc' = [proc EXCEPT !.step = StepAfter(@, Doing.kind)]
  /\ ignored' = IF proc.step = "drop" THEN ignored \cup {T} ELSE ignored
  /\ UNCHANGED <<plan, disk, records, file, tried, written>>

\* The engine refuses another step (the drop of rebuild_table among them).
StepRefused ==
  /\ Working /\ proc.step \in Refusable \ BestEffort
  /\ crashes < MaxCrashes
  /\ crashes' = crashes + 1
  /\ Abort("refused")
  /\ UNCHANGED <<plan, records, file, tried, written, ignored>>

\* Mutant: the records are written before the operations are done.
RecordEarly ==
  /\ proc.phase = "applying" /\ proc.step = "done"
  /\ records' = records \cup proc.versions
  /\ proc' = [proc EXCEPT !.phase = IF proc.todo = {} THEN "recorded" ELSE "applying"]
  /\ UNCHANGED <<plan, disk, file, crashes, tried, written, ignored>>

\* All applied versions are recorded in one transaction.
Record ==
  /\ proc.phase = "applying" /\ proc.step = "done"
  /\ proc.todo = {} /\ proc.i + 1 \notin DOMAIN proc.m.ops
  /\ records' = records \cup proc.versions
  /\ proc' = [proc EXCEPT !.phase = "recorded"]
  /\ UNCHANGED <<plan, disk, file, crashes, tried, written, ignored>>

\* persist_schema, load_schema and set_schema.
Persist ==
  /\ proc.phase = "recorded"
  /\ file' = proc.code
  /\ proc' = [proc EXCEPT !.phase = "serving", !.m = None, !.i = 0, !.versions = {}]
  /\ UNCHANGED <<plan, disk, records, crashes, tried, written, ignored>>

Close ==
  /\ proc.phase \in {"serving", "failed", "refused"}
  /\ proc' = Down
  /\ UNCHANGED <<plan, disk, records, file, crashes, tried, written, ignored>>

Crash ==
  /\ proc.phase # "down" /\ crashes < MaxCrashes
  /\ crashes' = crashes + 1
  /\ proc' = Down
  /\ UNCHANGED <<plan, disk, records, file, tried, written, ignored>>

Stored(t) == t \in DOMAIN Schema /\ t \in DOMAIN disk.tables

\* A transaction of the serving release: guards and references as in KitTxn,
\* whose commit is one step.
InsertRow(t, k, row) ==
  LET table == Schema[t]
      keys  == {<<u, Cell(row, UniquesOf(table)[u])>> : u \in DOMAIN UniquesOf(table)}
      mine  == {g \in keys : g[2] # Null}
      refs  == {<<table.fks[f].parent, Cell(row, table.fks[f].col)>> : f \in DOMAIN table.fks}
  IN
  /\ Idle /\ Stored(t) /\ k \notin DOMAIN disk.tables[t].rows
  /\ DOMAIN row \subseteq DOMAIN disk.tables[t].cols
  /\ Storable(disk.tables[t].cols, row)
  /\ mine \cap DOMAIN disk.uq = {}
  /\ \A r \in refs : r[2] # Null => Stored(r[1]) /\ r[2] \in DOMAIN disk.tables[r[1]].rows
  /\ disk' = [disk EXCEPT !.tables[t].rows = With(@, k, row),
                          !.uq = [g \in mine \cup DOMAIN @ |-> IF g \in mine THEN <<t, k>> ELSE @[g]],
                          !.rg = @ \cup {r \in refs : r[2] # Null}]
  /\ written' = With(written, <<t, k>>, row)
  /\ UNCHANGED <<plan, records, file, proc, crashes, tried, ignored>>

DeleteRow(t, k) ==
  /\ Idle /\ Stored(t) /\ k \in DOMAIN disk.tables[t].rows
  /\ \A c \in DOMAIN Schema : \A f \in DOMAIN Schema[c].fks : Schema[c].fks[f].parent = t =>
       Stored(c) /\ \A x \in DOMAIN disk.tables[c].rows :
         Cell(disk.tables[c].rows[x], Schema[c].fks[f].col) # k
  /\ disk' = [disk EXCEPT !.tables[t].rows = Without(@, {k}),
                          !.uq = Without(@, {g \in DOMAIN @ :
                                   @[g] = <<t, k>> /\ g[1] \in DOMAIN UniquesOf(Schema[t])}),
                          !.rg = @ \cup {<<t, k>>}]
  /\ written' = Without(written, {<<t, k>>})
  /\ UNCHANGED <<plan, records, file, proc, crashes, tried, ignored>>

Write == \E t \in DOMAIN Schema, k \in RowKeys :
  \/ \E row \in [DOMAIN Schema[t].cols -> Values \cup {Null}] : InsertRow(t, k, row)
  \/ DeleteRow(t, k)

\* Database::create with the old schema.
Init ==
  /\ plan \in Plans
  /\ disk = [tables |-> [t \in DOMAIN plan.old |-> Physical(plan.old[t])],
             temps |-> <<>>, uq |-> <<>>, rg |-> {}, objects |-> {}]
  /\ records = {} /\ file = "old"
  /\ proc = Down
  /\ crashes = 0 /\ tried = "no" /\ written = <<>> /\ ignored = {}

Next == \/ \E code \in {"old", "new"} : Open(code)
        \/ Migrate \/ NextMigration \/ NextOperation \/ ApplyStep \/ DropIgnored
        \/ StepFails \/ StepRefused \/ Record \/ Persist
        \/ Close \/ Crash
        \/ Write

Spec == Init /\ [][Next]_vars

-----------------------------------------------------------------------------
(* Properties. *)

OpsOf(p) == UNION {{m.ops[i] : i \in DOMAIN m.ops} : m \in p.migrations}
Ops == OpsOf(plan)
Table(t) == disk.tables[t]

Duplicates(t, u) ==
  \E p, q \in KeysIn(disk, t, u, UniquesOf(plan.new[t])[u]) : p[1] = q[1] /\ p[2] # q[2]

Orphans(t, fk) ==
  {k \in DOMAIN Table(t).rows : Cell(Table(t).rows[k], fk.col) \notin
                                DOMAIN Table(fk.parent).rows \cup {Null}}

AddsUnique(op) ==
  \/ op.kind = "add_unique"
  \/ op.kind = "add_index" /\ plan.new[op.t].indexes[op.x].unique

\* No guard is one of table t.
Unguarded(t) == /\ \A g \in DOMAIN disk.uq : disk.uq[g][1] # t
                /\ \A r \in disk.rg : r[1] # t

\* What an operation leaves behind.  A table whose drop the engine refused
\* is still there, although its drop is recorded and its guards are gone; and
\* of a trigger or a procedure that was dropped nothing is promised, for the
\* same reason.
Applied(op) ==
  /\ op.kind = "create_table" => op.t \in DOMAIN disk.tables
  /\ op.kind = "drop_table"   => /\ op.t \notin DOMAIN disk.tables \/ op.t \in ignored
                                /\ Unguarded(op.t)
  /\ op.kind = "drop_unique"  => \A g \in DOMAIN disk.uq : g[1] # op.x
  /\ op.kind = "drop_column"  => \A c \in DOMAIN Table(op.t).cols : Table(op.t).cols[c].name # op.x
  /\ op.kind \in {"add_column", "alter_column"} => Table(op.t).cols = plan.new[op.t].cols
  /\ op.kind = "add_foreign_key" => Orphans(op.t, plan.new[op.t].fks[op.x]) = {}
  /\ op.kind = "create_object" => op.x \in disk.objects
  /\ AddsUnique(op) => ~Duplicates(op.t, op.x)

\* A version is on record only when everything its migration promises holds,
\* wherever the process crashed or the engine refused a step (migrate: the
\* records are written last), but for the drops whose error the runner ignored
\* (migrate.rs:108: "Drop is best-effort"), and unless the old release served
\* after an attempt was cut short: guards it does not know of outlive their
\* rows, and backfill_unique keeps them.
RecordedMeansApplied ==
  tried # "mixed" =>
    \A m \in plan.migrations : m.version \in records => \A i \in DOMAIN m.ops : Applied(m.ops[i])

\* Every row the application stored in a table that stays is in its table or
\* in a temporary table of a rebuild, with its values (rebuild_table copies
\* before it drops).
RowsReachable ==
  \A x \in DOMAIN written : x[1] \in DOMAIN plan.old \cap DOMAIN plan.new =>
    LET t == x[1]  k == x[2]
        kept == DOMAIN plan.old[t].cols \cap DOMAIN plan.new[t].cols
        holds(table) == k \in DOMAIN table.rows
                        /\ \A c \in kept : Cell(table.rows[k], c) = Cell(written[x], c)
    IN  \/ t \in DOMAIN disk.tables /\ holds(disk.tables[t])
        \/ \E n \in DOMAIN disk.temps : n[1] = t /\ holds(disk.temps[n])

\* Stronger, and not true of the code: the rows are in their table whenever
\* the application works.
RowsKept ==
  Idle /\ proc.code = "new" =>
    \A x \in DOMAIN written : x[1] \in DOMAIN plan.old \cap DOMAIN plan.new =>
      x[2] \in DOMAIN disk.tables[x[1]].rows

\* Operations that may run again after they ran half or whole.
Rerunnable == \A op \in Ops :
  /\ op.kind \notin {"add_column", "create_object", "drop_column", "add_index", "drop_index"}
  /\ op.kind = "alter_column" =>   \* a rename does not find the old name again
       \E c \in DOMAIN plan.new[op.t].cols : plan.new[op.t].cols[c].name = op.x

\* A migration that only uses such operations fails, however often it was cut
\* short before, only because the rows violate what it adds.
OnlyBadRowsFail ==
  proc.phase = "failed" /\ Rerunnable =>
    \E op \in Ops : \/ AddsUnique(op) /\ Duplicates(op.t, op.x)
                    \/ op.kind = "add_foreign_key" /\ Orphans(op.t, plan.new[op.t].fks[op.x]) # {}
                    \/ op.kind = "alter_column" /\ \E k \in DOMAIN Table(op.t).rows :
                         ~Storable(plan.new[op.t].cols, Table(op.t).rows[k])

\* While the new release serves, each key of a row is guarded, so that the
\* constraint is enforced for rows older than it, and no guard names a table
\* that is gone, so that a table created later under the name starts clean
\* (backfill_unique, clean_table_guards).
GuardsFollowTables ==
  Idle /\ proc.code = "new" /\ tried # "mixed" =>
    /\ \A t \in DOMAIN Schema : \A u \in DOMAIN UniquesOf(Schema[t]) :
         \A p \in KeysIn(disk, t, u, UniquesOf(Schema[t])[u]) : p[1] \in DOMAIN disk.uq
    /\ \A g \in DOMAIN disk.uq : disk.uq[g][1] \in DOMAIN disk.tables
    /\ \A r \in disk.rg : r[1] \in DOMAIN disk.tables

\* The schema file is that of the recorded migrations while a release serves;
\* docs/migrations.md:3-5 says the runner rewrites it.
StoredSchemaFollows == Idle /\ records # {} => file = "new"
-----------------------------------------------------------------------------
(* Plans whose migrations lead from the old schema to the new one, as        *)
(* docs/migrations.md tells an application to write them.  The code checks   *)
(* none of this; the theorems say which parts they need.                     *)

\* No table of both releases is dropped in between.
TablesStay(p) ==
  \A op \in OpsOf(p) : op.kind = "drop_table" => op.t \notin DOMAIN p.old \cap DOMAIN p.new

\* Tables appear and go by an operation, once.
TablesFollow(p) ==
  /\ \A op \in OpsOf(p) :
       /\ op.kind = "create_table" => op.t \in DOMAIN p.new \ DOMAIN p.old
       /\ op.kind = "drop_table" => op.t \notin DOMAIN p.new
  /\ \A t \in DOMAIN p.new \ DOMAIN p.old :
       \E op \in OpsOf(p) : op.kind = "create_table" /\ op.t = t

Rebuilds(op) == op.kind \in {"drop_column", "drop_index", "add_index"}

\* Where the new release finds a column, c, an operation changed it.
Settles(p, op, c) ==
  LET t == op.t  name == op.x IN
  \/ Rebuilds(op)
  \/ op.kind \in {"add_column", "alter_column"} /\ c \in Named(p.new[t].cols, name)
  \/ /\ op.kind = "alter_column" /\ Named(p.new[t].cols, name) = {}
     /\ t \in DOMAIN p.old /\ c \in Named(p.old[t].cols, name) \cap DOMAIN p.new[t].cols

\* The columns of an altered table become those of the new release.
ColumnsFollow(p) ==
  /\ \A s \in {"old", "new"} : \A t \in DOMAIN p[s] : \A c, d \in DOMAIN p[s][t].cols :
       p[s][t].cols[c].name = p[s][t].cols[d].name => c = d
  /\ \A op \in OpsOf(p) : op.kind \in {"add_column", "alter_column"} =>
       /\ op.t \in DOMAIN p.new
       /\ op.kind = "add_column" => Named(p.new[op.t].cols, op.x) # {}
       /\ op.t \in DOMAIN p.old =>
            LET old == p.old[op.t].cols  new == p.new[op.t].cols IN
            \A c \in DOMAIN old \cup DOMAIN new :
              \/ c \in DOMAIN old /\ c \in DOMAIN new /\ old[c] = new[c]
              \/ \E x \in OpsOf(p) : x.t = op.t /\ Settles(p, x, c)

\* A unique constraint is one of one table and column throughout; it appears
\* by an operation and is not dropped while the new release has it.
UniquesFollow(p) ==
  /\ \A s, r \in {"old", "new"} : \A t \in DOMAIN p[s], v \in DOMAIN p[r] :
       \A u \in DOMAIN UniquesOf(p[s][t]) \cap DOMAIN UniquesOf(p[r][v]) :
         t = v /\ UniquesOf(p[s][t])[u] = UniquesOf(p[r][v])[u]
  /\ \A t \in DOMAIN p.old \cap DOMAIN p.new :
       \A u \in DOMAIN UniquesOf(p.new[t]) \ DOMAIN UniquesOf(p.old[t]) :
         \E op \in OpsOf(p) : /\ op.t = t /\ op.x = u
                             /\ \/ op.kind = "add_unique"
                                \/ op.kind = "add_index" /\ p.new[t].indexes[u].unique
  /\ \A op \in OpsOf(p) : op.kind = "drop_unique" =>
       \A s \in {"old", "new"} : \A t \in DOMAIN p[s] :
         op.x \in DOMAIN UniquesOf(p[s][t]) => s = "old" /\ t = op.t

\* No object is created and dropped.
ObjectsFollow(p) ==
  \A x, y \in OpsOf(p) : x.kind = "create_object" /\ y.kind = "drop_object" => x.x # y.x

VersionsDiffer(p) == \A m, n \in p.migrations : m.version = n.version => m = n

Follows(p) ==
  VersionsDiffer(p) /\ TablesFollow(p) /\ ColumnsFollow(p) /\ UniquesFollow(p) /\ ObjectsFollow(p)

\* The tables an operation works on.
Needs(p, op) ==
  IF op.kind \in {"add_unique", "alter_column"} THEN {op.t}
  ELSE IF op.kind = "add_foreign_key" THEN {op.t, p.new[op.t].fks[op.x].parent} ELSE {}

\* Operations name what is declared, and work on tables that are there.
Applicable(p) ==
  \A m \in p.migrations : \A i \in DOMAIN m.ops : LET op == m.ops[i] IN
    /\ op.kind \in {"add_unique", "add_foreign_key", "alter_column"} => FirstStep(op, p.new) # "fail"
    /\ op.kind = "alter_column" /\ op.t \in DOMAIN p.old =>
         Named(p.new[op.t].cols, op.x) \subseteq DOMAIN p.old[op.t].cols
    /\ \A t \in Needs(p, op) :
         \/ t \in DOMAIN p.old \cap DOMAIN p.new
         \/ \E n \in p.migrations : \E j \in DOMAIN n.ops :
              /\ n.ops[j].kind = "create_table" /\ n.ops[j].t = t
              /\ n.version < m.version \/ (n = m /\ j < i)
=============================================================================
