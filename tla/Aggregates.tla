------------------------------- MODULE Aggregates -------------------------------
(***************************************************************************)
(* Aggregate queries: by scanning (run_aggregate, query.rs), by the engine's *)
(* own aggregates (try_native_aggregate, txn.rs) and the incremental ones     *)
(* (Database::incremental_aggregate, db.rs).                                 *)
(*                                                                         *)
(* A query has table, filter, group (a sequence of columns), aggs (of         *)
(* [fn, col, distinct, alias], col "" for COUNT of rows) and having.         *)
(***************************************************************************)
EXTENDS Queries

\* mutant: a new group whenever the key changes.
GroupsOfRuns(group, rows) ==
  LET key(row) == [i \in DOMAIN group |-> Cell0(row, group[i])]
      first(i) == i = 1 \/ key(rows[i]) # key(rows[i - 1])
      of(i)    == {j \in i..Len(rows) : \A l \in i..j : key(rows[l]) = key(rows[i])}
      starts   == SelectSeq([i \in DOMAIN rows |-> i], first)
  IN  IF group = <<>> THEN <<[key |-> <<>>, rows |-> rows]>>
      ELSE [i \in DOMAIN starts |-> [key |-> key(rows[starts[i]]),
                                    rows |-> SubSeq(rows, starts[i], Max(of(starts[i])))]]

\* The rows grouped by their key, groups and rows in the order they are met;
\* without GROUP BY one group, even of no rows.
Groups(group, rows) ==
  LET key(row) == [i \in DOMAIN group |-> Cell0(row, group[i])]
      add(keys, row) == IF Contains(keys, key(row)) THEN keys ELSE Append(keys, key(row))
      keys == IF group = <<>> THEN <<<<>>>> ELSE FoldLeft(add, <<>>, rows)
      of(k) == LET same(row) == key(row) = k IN SelectSeq(rows, same)
  IN  [i \in DOMAIN keys |-> [key |-> keys[i], rows |-> of(keys[i])]]

\* The values of a column that are not null, each once if distinct.
NonNull(rows, c, distinct) ==
  LET present(v) == v.t # "null"
      once(out, v) == IF Contains(out, v) THEN out ELSE Append(out, v)
      values == SelectSeq([i \in DOMAIN rows |-> Cell0(rows[i], c)], present)
  IN  IF distinct THEN FoldLeft(once, <<>>, values) ELSE values

\* sum as i64: the nearest integer of 64 bits.
AsI64(n) == Saturated(n)

RatioV(sum, count) == [t |-> "ratio", n |-> sum, d |-> count]

\* Sums are taken in doubles and given back as integers if every value that is
\* not null is one.
SumOrAvg(fn, values) ==
  LET add(acc, v) == AsF64(acc + AsF64(v.n))
      nums == SelectSeq(values, IsNumber)
      sum  == FoldLeft(add, 0, nums)
  IN  IF nums = <<>> THEN NullV
      ELSE IF fn = "avg" THEN RatioV(sum, Len(nums))
      ELSE IF \A i \in DOMAIN values : values[i].t = "int" THEN IntV(AsI64(sum))
      ELSE FloatV(sum)

\* The first of the smallest or largest values.
Extreme(fn, values) ==
  LET better(best, v) == IF JsonCmp(v, best) = (IF fn = "min" THEN "lt" ELSE "gt") THEN v ELSE best
  IN  IF values = <<>> THEN NullV ELSE FoldLeft(better, values[1], values)

ComputeAggregate(agg, rows) ==
  IF agg.fn = "count"
  THEN IntV(IF agg.col = "" THEN Len(rows) ELSE Len(NonNull(rows, agg.col, agg.distinct)))
  ELSE IF agg.fn \in {"sum", "avg"} THEN SumOrAvg(agg.fn, NonNull(rows, agg.col, agg.distinct))
  ELSE Extreme(agg.fn, NonNull(rows, agg.col, FALSE))

\* require_agg_column refuses the others.
HasColumn(q) == \A i \in DOMAIN q.aggs : q.aggs[i].col = "" => q.aggs[i].fn = "count"

\* A row of the answer: the group's key and the aggregates by alias.
GroupRow(q, g) ==
  LET aliases == {q.aggs[i].alias : i \in DOMAIN q.aggs}
      agg(a)  == q.aggs[Max({i \in DOMAIN q.aggs : q.aggs[i].alias = a})]
      place(c) == Max({i \in DOMAIN q.group : q.group[i] = c})
  IN  [c \in aliases \cup ToSet(q.group) |->
         IF c \in aliases THEN ComputeAggregate(agg(c), g.rows) ELSE g.key[place(c)]]

GroupRows(q, groups) == [i \in DOMAIN groups |-> GroupRow(q, groups[i])]

RunAggregate(ctx, q) ==
  SelectSeq(GroupRows(q, Groups(q.group, Filtered(ctx, q.table, q.filter))),
            LAMBDA row : q.having # <<>> => Eval(ctx, Flat(row), q.having[1]))

-------------------------------------------------------------------------------
(* The engine's aggregates, over the newest committed rows.                  *)

\* mutant: whatever is staged.
NativeAppliesStaged(ctx, q) ==
  /\ q.group = <<>> /\ q.having = <<>> /\ Len(q.aggs) = 1
  /\ IF q.aggs[1].distinct
     THEN q.aggs[1].fn = "count" /\ q.filter = <<>> /\ q.aggs[1].col # ""
     ELSE /\ q.filter # <<>> => /\ Pushed(ctx, q.table, q.filter) # {}
                                /\ FullyTranslated(ctx.defs[q.table], q.filter[1])
          /\ q.aggs[1].col = "" => q.aggs[1].fn = "count"

\* Those a query may ask the engine for: one aggregate of one group, nothing
\* staged, and a filter the conditions replace.
NativeApplies(ctx, q) ==
  /\ q.group = <<>> /\ q.having = <<>> /\ Len(q.aggs) = 1
  /\ q.table \notin ctx.staged
  /\ IF q.aggs[1].distinct
     THEN q.aggs[1].fn = "count" /\ q.filter = <<>> /\ q.aggs[1].col # ""
     ELSE /\ q.filter # <<>> => /\ Pushed(ctx, q.table, q.filter) # {}
                                /\ FullyTranslated(ctx.defs[q.table], q.filter[1])
          /\ q.aggs[1].col = "" => q.aggs[1].fn = "count"

\* What the engine computes: integers are added exactly, a distinct count is
\* the number of keys in the bitmap of the column.
EngineAggregate(agg, stored) ==
  LET present(cell) == cell.c # "null"
      cells    == SelectSeq([i \in DOMAIN stored |-> stored[i][agg.col]], present)
      values   == [i \in DOMAIN cells |-> FromCell(cells[i], "int")]
      add(acc, v) == acc + v.n
      sum      == FoldLeft(add, 0, values)
      integral == \A i \in DOMAIN cells : cells[i].c = "int64"
  IN  IF agg.fn = "count" /\ agg.col = "" THEN IntV(Len(stored))
      ELSE IF agg.fn = "count" /\ agg.distinct
      THEN IntV(Cardinality({CellKey(cells[i]) : i \in DOMAIN cells}))
      ELSE IF agg.fn = "count" THEN IntV(Len(cells))
      ELSE IF cells = <<>> THEN NullV
      ELSE IF agg.fn \in {"min", "max"} THEN Extreme(agg.fn, values)
      ELSE IF agg.fn = "sum" /\ integral THEN IntV(sum)
      ELSE IF agg.fn = "sum" THEN SumOrAvg("sum", values)
      ELSE RatioV(AsF64(sum), Len(cells))

\* The engine declines a distinct count without a bitmap index, and numbers
\* over a column that has none.
EngineServes(t, agg) ==
  IF agg.distinct THEN EngineBitmap(t, agg.col)
  ELSE agg.col # "" => t.type[agg.col] \in {"int", "narrow", "float"}

Selected(ctx, q) ==
  LET holds(cells) == \A cond \in Pushed(ctx, q.table, q.filter) :
                         EngineMatches(ctx.defs[q.table], cells, cond)
  IN  SelectSeq(ctx.latest[q.table], holds)

NativeAnswer(ctx, q) ==
  LET agg   == q.aggs[1]
      value == EngineAggregate(agg, Selected(ctx, q))
  IN  <<[a \in {agg.alias} |-> value]>>

\* mutant: a filter that is translated in part.
IncrementalAcceptsInPart(ctx, q) ==
  /\ q.aggs[1].col = "" => q.aggs[1].fn = "count"
  /\ q.filter # <<>> => Pushed(ctx, q.table, q.filter) # {}

\* incremental_aggregate: the same filters, on the database itself; the sum is
\* kept in 128 bits, and one that does not fit an i64 is given as a float.
IncrementalAccepts(ctx, q) ==
  /\ q.aggs[1].col = "" => q.aggs[1].fn = "count"
  /\ q.filter # <<>> => /\ Pushed(ctx, q.table, q.filter) # {}
                        /\ FullyTranslated(ctx.defs[q.table], q.filter[1])

\* The engine keeps a state by table, column, function and conditions, and
\* merges the rows committed since; that this is the aggregate of all of them
\* is assumed of the engine, and that no two of these have one hashed key.
IncrementalAnswer(ctx, q) ==
  LET agg   == q.aggs[1]
      value == EngineAggregate(agg, Selected(ctx, q))
  IN  IF agg.fn = "sum" /\ value.t = "int" /\ value.n \notin MinInt..MaxInt
      THEN FloatV(AsF64(value.n)) ELSE value
=============================================================================
