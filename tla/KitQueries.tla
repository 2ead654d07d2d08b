------------------------------- MODULE KitQueries -------------------------------
(***************************************************************************)
(* A transaction that queries tables others commit to (Transaction::select,   *)
(* select_distinct, select_with, aggregate and join, txn.rs, and              *)
(* Database::incremental_aggregate, db.rs).  The transaction began on the     *)
(* first version of the store and may stage writes of its own.               *)
(***************************************************************************)
EXTENDS Aggregates, Joins

CONSTANTS
  Defs,        \* the tables of the schema, by name
  Contents,    \* by name, the contents (sequences of rows) a table may have
  StagedOps,   \* the operations the transaction may stage
  Asks,        \* the queries it may ask, with their kind
  MaxCommits,  \* bound: commits of others
  MaxStaged    \* bound: staged operations

VARIABLES
  store,    \* the committed versions of the tables, the newest last
  staged,   \* the operations staged, oldest first
  asked,    \* the last query, or NoQuery
  answer,   \* its answer, a sequence of rows
  native    \* the engine's own aggregate answered it

vars == <<store, staged, asked, answer, native>>

NoQuery == [kind |-> "none"]

NoTables == [name \in {} |-> <<>>]

Stored(rows) == [i \in DOMAIN rows |-> Cells(rows[i])]

\* A key compares by its integer or text (encode_pk).
Key(t, row) == [i \in DOMAIN t.pk |-> row[t.pk[i]]]

\* replay_staged_rows: an insert and an update take the place of the row with
\* their key, an update also that of the row it is of.
Replay(name, rows, op) ==
  LET t == Defs[name]
      without(keys) == LET other(row) == Key(t, row) \notin keys IN SelectSeq(rows, other)
  IN  IF op.table # name THEN rows
      ELSE IF op.op = "insert" THEN Append(without({Key(t, op.row)}), op.row)
      ELSE IF op.op = "update" THEN Append(without({op.key, Key(t, op.row)}), op.row)
      ELSE IF op.op = "delete" THEN without({op.key})
      ELSE <<>>

View(name) ==
  LET step(rows, op) == Replay(name, rows, op)
  IN  FoldLeft(step, ReadAll(Defs[name], store[1][name]), staged)

StagedTables == {staged[i].table : i \in DOMAIN staged}

\* exec_ctx
Context == [defs   |-> Defs,
            view   |-> [name \in DOMAIN Defs |-> View(name)],
            latest |-> store[Len(store)],
            staged |-> StagedTables,
            ctes   |-> NoTables]

\* The database's own context: the newest rows, nothing staged.
Newest == [Context EXCEPT !.staged = {},
             !.view = [name \in DOMAIN Defs |-> ReadAll(Defs[name], store[Len(store)][name])]]

\* The read snapshot is the newest epoch, compared under the table's lock.
SnapshotIsNewest == Len(store) = 1

Init ==
  /\ store \in {<<[name \in DOMAIN Defs |-> Stored(c[name])]>> :
                  c \in {d \in [DOMAIN Defs -> UNION {Contents[n] : n \in DOMAIN Defs}] :
                           \A n \in DOMAIN Defs : d[n] \in Contents[n]}}
  /\ staged = <<>>
  /\ asked = NoQuery
  /\ answer = <<>>
  /\ native = FALSE

\* Another transaction commits new contents of a table.
CommitOther(name) ==
  /\ Len(store) <= MaxCommits
  /\ \E rows \in Contents[name] :
       store' = Append(store, [store[Len(store)] EXCEPT ![name] = Stored(rows)])
  /\ UNCHANGED <<staged, asked, answer, native>>

\* validate_row_kit_only: the primary key is required, every value has the type
\* of its column.
ValidRow(t, row) ==
  /\ \A i \in DOMAIN t.pk : row[t.pk[i]] # NullV
  /\ \A c \in DOMAIN t.type : Accepts(t.type[c], row[c])

\* Of a row that is there, or with a key that is not, and valid values: what the
\* statements check.
Stageable(op) ==
  LET t    == Defs[op.table]
      keys == {Key(t, View(op.table)[i]) : i \in DOMAIN View(op.table)}
  IN  /\ op.op \in {"insert", "update"} => ValidRow(t, op.row)
      /\ op.op = "insert" => Key(t, op.row) \notin keys
      /\ op.op \in {"update", "delete"} => op.key \in keys
      /\ op.op = "update" => Key(t, op.row) = op.key

Stage(op) ==
  /\ Len(staged) < MaxStaged
  /\ Stageable(op)
  /\ staged' = Append(staged, op)
  /\ asked' = NoQuery
  /\ answer' = <<>>
  /\ native' = FALSE
  /\ UNCHANGED store

\* A query changes nothing, so it is enough to ask one, and that one again.
Asking(kind) == {q \in IF asked = NoQuery THEN Asks ELSE {asked} : q.kind = kind}

Answers(q, rows, byEngine) ==
  /\ asked' = q
  /\ answer' = rows
  /\ native' = byEngine
  /\ UNCHANGED <<store, staged>>

Select ==
  \E q \in Asking("select") :
    OrderKnown(Context, q) /\ Answers(q, RunSelect(Context, q), FALSE)

SelectDistinct ==
  \E q \in Asking("distinct") :
    OrderKnown(Context, q) /\ Answers(q, Distinct(q, RunSelect(Context, q)), FALSE)

SelectWith ==
  \E q \in Asking("with") :
    Answers(q, RunSelect(WithCtes(Context, q.ctes), q.query), FALSE)

JoinTables ==
  \E q \in Asking("join") : Answers(q, RunJoin(Context, q), FALSE)

\* try_native_aggregate: the engine may decline for reasons of its own.
NativeAggregate ==
  \E q \in Asking("aggregate") :
    /\ HasColumn(q)
    /\ NativeApplies(Context, q)
    /\ SnapshotIsNewest
    /\ EngineServes(Defs[q.table], q.aggs[1])
    /\ Answers(q, NativeAnswer(Context, q), TRUE)

ScanAggregate ==
  \E q \in Asking("aggregate") :
    HasColumn(q) /\ Answers(q, RunAggregate(Context, q), FALSE)

IncrementalAggregate ==
  \E q \in Asking("incremental") :
    /\ IncrementalAccepts(Context, q)
    /\ EngineServes(Defs[q.table], q.aggs[1])
    /\ Answers(q, <<[a \in {q.aggs[1].alias} |-> IncrementalAnswer(Context, q)]>>, TRUE)

Next ==
  \/ \E name \in DOMAIN Defs : CommitOther(name)
  \/ \E op \in StagedOps : Stage(op)
  \/ Select \/ SelectDistinct \/ SelectWith
  \/ NativeAggregate \/ ScanAggregate \/ IncrementalAggregate
  \/ JoinTables

Spec == Init /\ [][Next]_vars

-------------------------------------------------------------------------------
(* What a query should answer: with no table definitions nothing is          *)
(* translated, and every row is fetched and tested.                          *)

Scan(ctx) == [ctx EXCEPT !.defs = NoTables]

ColumnType(name, p) == Defs[name].type[TheColumn(p)]

ValueType(type) == IF type = "narrow" THEN "int" ELSE type

\* Every value a column holds has its type, and reads back as what the engine
\* compares: validation lets integers into a float column, strings into one of
\* bytes, and into a narrow column integers that are read back wrapped.
HoldsItsType(name, c) ==
  LET type       == Defs[name].type[c]
      of(v)      == v.t \in {"null", ValueType(type)}
      back(cell) == Cell(FromCell(cell, type)) = cell
  IN  /\ \A rows \in {View(name), ReadAll(Defs[name], store[Len(store)][name])} :
           \A i \in DOMAIN rows : of(rows[i][c])
      /\ \A v \in DOMAIN store : \A i \in DOMAIN store[v][name] : back(store[v][name][i][c])

\* The translation of a comparison is faithful to the comparison, of a literal
\* on the right, when the column and the literal have one type and the bound
\* beside it does not leave the range of i64.
FaithfulLiteral(type, lit) ==
  \/ type \in {"int", "narrow"} /\ lit.t = "int"
  \/ type = "float" /\ IsNumber(lit)
  \/ type = "text" /\ lit.t = "text"

FaithfulComparison(name, p) ==
  /\ FaithfulLiteral(ColumnType(name, p), TheLiteral(p))
  /\ HoldsItsType(name, TheColumn(p))
  /\ p.op # "eq" => p.r.o = "lit"
  /\ p.op = "lt" => TheLiteral(p).n # MinInt
  /\ p.op = "gt" => TheLiteral(p).n # MaxInt

FaithfulList(name, p) ==
  /\ EngineBitmap(Defs[name], p.l.c)
  /\ HoldsItsType(name, p.l.c)
  /\ \A i \in DOMAIN p.list : p.list[i].t = ValueType(Defs[name].type[p.l.c])

FaithfulPrefix(name, p) == EngineBitmap(Defs[name], p.l.c) /\ name \notin StagedTables

\* The subqueries in a predicate, those inside them aside.
RECURSIVE Subqueries(_)
Subqueries(p) ==
  IF p.op \in {"and", "or"} THEN UNION {Subqueries(p.args[i]) : i \in DOMAIN p.args}
  ELSE IF p.op = "not" THEN Subqueries(p.arg)
  ELSE IF p.op \in {"in_sub", "exists", "not_exists"} THEN {p.sub} ELSE {}

\* What is translated of a predicate is translated faithfully.
RECURSIVE Faithful(_, _)
Faithful(name, p) ==
  IF p.op = "and" THEN \A i \in DOMAIN p.args : Faithful(name, p.args[i])
  ELSE Translated(Defs[name], p) # Nothing =>
         /\ p.op \in {"eq", "lt", "lte", "gt", "gte"} => FaithfulComparison(name, p)
         /\ p.op = "in" => FaithfulList(name, p)
         /\ p.op = "prefix" => FaithfulPrefix(name, p)

RECURSIVE FaithfulFilter(_, _)
FaithfulFilter(name, filter) ==
  filter # <<>> => /\ Faithful(name, filter[1])
                   /\ \A sub \in Subqueries(filter[1]) : FaithfulFilter(sub.table, sub.filter)

NobodyCommitted == Len(store) = 1

\* Nobody has committed since, or the rows come from the snapshot, those of a
\* subquery too.
RECURSIVE ReadsSnapshot(_, _)
ReadsSnapshot(name, filter) ==
  \/ NobodyCommitted
  \/ /\ name \in StagedTables \/ Pushed(Context, name, filter) = {}
     /\ filter # <<>> =>
          \A sub \in Subqueries(filter[1]) : ReadsSnapshot(sub.table, sub.filter)

Answered == asked' # NoQuery /\ UNCHANGED <<store, staged>>

\* Index conditions change how rows are found, never which: a SELECT answers
\* what evaluating its filter on every row the transaction sees would answer,
\* in the same order, its own staged rows included (pushdown.rs:15-21).
SelectsWhatAScanWould ==
  [][Answered /\ asked'.kind = "select" /\ FaithfulFilter(asked'.table, asked'.filter)
       /\ ReadsSnapshot(asked'.table, asked'.filter)
       => answer' = RunSelect(Scan(Context), asked')]_vars

\* No sum of values in the column is one a double rounds.
SumsExactly(q) ==
  LET size(row) == IF IsNumber(Cell0(row, q.aggs[1].col))
                   THEN LET n == row[q.aggs[1].col].n IN IF n < 0 THEN -n ELSE n ELSE 0
      total(rows) == FoldLeft(LAMBDA n, row : n + size(row), 0, rows)
  IN  q.aggs[1].fn \in {"sum", "avg"} =>
        \A ctx \in {Context, Newest} : total(ctx.view[q.table]) <= Exact

\* The engine aggregates raw cells, the scan what they are read back as.
FaithfulAggregate(q) ==
  /\ FaithfulFilter(q.table, q.filter) /\ SumsExactly(q)
  /\ q.aggs[1].col # "" => HoldsItsType(q.table, q.aggs[1].col)

\* The engine's aggregates are those of a scan: neither writes staged here nor
\* commits since the snapshot, nor rows the filter rejects, make a difference
\* (txn.rs:762-772).
EngineAggregatesAgree ==
  [][Answered /\ asked'.kind = "aggregate" /\ native' /\ FaithfulAggregate(asked')
       => answer' = RunAggregate(Scan(Context), asked')]_vars

\* Every selected row is in one group: no two groups have the same key, and
\* their counts add up to the number of rows.
GroupsPartitionTheRows ==
  [][Answered /\ asked'.kind = "aggregate" /\ asked'.group # <<>> /\ asked'.having = <<>>
       /\ asked'.aggs[1].fn = "count" /\ asked'.aggs[1].col = ""
       => /\ \A i, j \in DOMAIN answer' :
               (\A k \in DOMAIN asked'.group :
                  answer'[i][asked'.group[k]] = answer'[j][asked'.group[k]]) => i = j
          /\ FoldLeft(LAMBDA n, row : n + row[asked'.aggs[1].alias].n, 0, answer')
               = Len(Filtered(Context, asked'.table, asked'.filter))]_vars

\* Pushing conjuncts and join keys to one side leaves the rows of a plain
\* nested loop that tests the whole filter on every joined row.  (A filter on
\* the right side of a left join does change them.)
PlainJoin(q) ==
  LET ctx == Scan(Context)
      holds(scope) == q.filter # <<>> => Eval(ctx, scope, q.filter[1])
  IN  SortedScopes(q, SelectSeq(JoinedRows(ctx, [q EXCEPT !.filter = <<>>]), holds))

FaithfulSide(q, name, alias) ==
  LET own == SideFilter(q.filter, alias)
  IN  \A i \in DOMAIN own : FaithfulFilter(name, <<own[i]>>) /\ ReadsSnapshot(name, <<own[i]>>)

\* The probe finds the rows the ON would: a column with an index, that holds its
\* type, and literals of that type among the rows of the base table, no null
\* (which equals a null, but has no key).
FaithfulProbe(q, j) ==
  LET col  == ProbeColumn(j.on[1], j.alias)
      type == Defs[j.table].type[col]
      base == RightOf(j.on[1], j.alias)
  IN  /\ EngineBitmap(Defs[j.table], col)
      /\ NobodyCommitted \/ j.table \in StagedTables
      /\ HoldsItsType(j.table, col)
      /\ base.a = q.alias /\ base.c \in Columns(Defs[q.table])
      /\ \A i \in DOMAIN View(q.table) : FaithfulLiteral(type, View(q.table)[i][base.c])

FaithfulJoin(q, j) ==
  /\ FaithfulSide(q, j.table, j.alias)
  /\ j.kind = "left" => SideFilter(q.filter, j.alias) = <<>>
  /\ ProbeApplies(Context, j) => FaithfulProbe(q, j)

RECURSIVE HasBareColumn(_)
HasBareColumn(p) ==
  IF p.op \in {"and", "or"} THEN \E i \in DOMAIN p.args : HasBareColumn(p.args[i])
  ELSE IF p.op = "not" THEN HasBareColumn(p.arg)
  ELSE IF p.op \in {"exists", "not_exists"} THEN FALSE
  ELSE \E f \in DOMAIN p \cap {"l", "r"} : p[f].o = "col" /\ p[f].a = ""

\* A part pushed to one side is of an alias of the join, and names that side's
\* columns only.  (One with a bare column beside is pushed too, see
\* BareColumnsStayResidual; one of another alias, or of EXISTS alone, is lost.)
KnownSides(q) ==
  \A i \in DOMAIN Parts(q.filter) : SingleAlias(Parts(q.filter)[i]) =>
    /\ Aliases(Parts(q.filter)[i]) \subseteq {q.alias} \cup {q.joins[j].alias : j \in DOMAIN q.joins}
    /\ ~HasBareColumn(Parts(q.filter)[i])

\* The subqueries of an ON and of what is left for the joined rows.
FaithfulSubqueries(q) ==
  LET left == Residual(q.filter) \o FlattenSeq([j \in DOMAIN q.joins |-> q.joins[j].on])
  IN  \A sub \in UNION {Subqueries(left[i]) : i \in DOMAIN left} :
        FaithfulFilter(sub.table, sub.filter) /\ ReadsSnapshot(sub.table, sub.filter)

FaithfulJoins(q) ==
  /\ FaithfulSide(q, q.table, q.alias)
  /\ \A i \in DOMAIN q.joins : FaithfulJoin(q, q.joins[i])
  /\ FaithfulSubqueries(q)

JoinsWhatALoopWould ==
  [][Answered /\ asked'.kind = "join" /\ FaithfulJoins(asked') /\ KnownSides(asked')
       => answer' = PlainJoin(asked')]_vars

\* Conjuncts with bare column names are left as post-join residuals, that is
\* are tested on the joined rows (query.rs:537-539).
BareColumnsStayResidual ==
  [][Answered /\ asked'.kind = "join" /\ FaithfulJoins(asked')
       /\ (\A i \in DOMAIN Parts(asked'.filter) : HasBareColumn(Parts(asked'.filter)[i]))
       => answer' = PlainJoin(asked')]_vars

\* The engine's aggregates are provably identical to the row scan
\* (txn.rs:762-767): those without a filter, exact as sums go, are.
NativeIsIdentical ==
  [][Answered /\ asked'.kind = "aggregate" /\ native' /\ asked'.filter = <<>> /\ SumsExactly(asked')
       => answer' = RunAggregate(Scan(Context), asked')]_vars

\* An incremental aggregate is exact: a filter that conditions do not replace
\* is refused (db.rs:1452-1463).
IncrementalIsExact ==
  [][Answered /\ asked'.kind = "incremental" /\ FaithfulAggregate(asked')
       => answer' = RunAggregate(Scan(Newest), asked')]_vars
=============================================================================
