--------------------------------- MODULE Queries ---------------------------------
(***************************************************************************)
(* The query layer (crates/mongreldb-kit/src/query.rs): predicates, SELECT,   *)
(* aggregates and joins over the rows a read context supplies.               *)
(*                                                                         *)
(* A context is a record: defs (the table definitions of the schema), view    *)
(* (by table, the rows the transaction sees: its snapshot with its staged     *)
(* operations replayed), latest (by table, the cells of the newest committed  *)
(* rows), staged (the tables with staged operations) and ctes (the rows of    *)
(* the common table expressions, by name).  Rows map columns to values.      *)
(*                                                                         *)
(* A predicate is a record whose op says what else it has: args (and, or),    *)
(* arg (not), l and r (comparisons), l with list, pattern, s or sub, or sub   *)
(* alone (exists, not_exists).                                              *)
(***************************************************************************)
EXTENDS Pushdown, SequencesExt, FiniteSetsExt

\* A scope is a sequence of <<alias, row>>; "" is the alias of a lone row.
Flat(row)  == <<<<"", row>>>>
Unmatched == <<>>     \* the right side of a left join's row without a match

\* A name with an alias is looked up in that row, one without in the first row
\* that has the column, in the order of the joins: the map of a joined row keeps
\* the order of insertion (preserve_order).  What is not there is null.
ValueOf(x, scope) ==
  LET found == {i \in DOMAIN scope : /\ x.a \in {"", scope[i][1]}
                                     /\ x.c \in DOMAIN scope[i][2]}
  IN  IF x.o = "lit" THEN x.v
      ELSE IF found = {} THEN NullV
      ELSE scope[Min(found)][2][x.c]

Cell0(row, c) == IF c \in DOMAIN row THEN row[c] ELSE NullV

Truthy(v) ==
  \/ v.t = "bool" /\ v.b
  \/ IsNumber(v) /\ v.n # 0
  \/ v.t \in {"text", "bytes"} /\ v.s # <<>>

-------------------------------------------------------------------------------
(* Reading a table.                                                          *)

Cells(row)         == [c \in DOMAIN row |-> Cell(row[c])]
ReadBack(t, cells) == [c \in DOMAIN cells |-> FromCell(cells[c], t.type[c])]
ReadAll(t, stored) == [i \in DOMAIN stored |-> ReadBack(t, stored[i])]

\* table_rows and table_rows_filtered with the fetch of a transaction: a CTE
\* shadows a table; without conditions the snapshot is read, with conditions
\* the newest committed rows, unless something is staged for the table.
Fetch(ctx, name, conds) ==
  LET t            == ctx.defs[name]
      staged(row)  == \A cond \in conds : StagedMatches(t, Cells(row), cond)
      engine(cells) == \A cond \in conds : EngineMatches(t, cells, cond)
  IN  IF name \in DOMAIN ctx.ctes THEN ctx.ctes[name]
      ELSE IF conds = {} THEN ctx.view[name]
      ELSE IF name \in ctx.staged THEN SelectSeq(ctx.view[name], staged)
      ELSE ReadAll(t, SelectSeq(ctx.latest[name], engine))

\* collect_conditions: a conjunction is translated part by part.
RECURSIVE Conditions(_, _), FullyTranslated(_, _)
Conditions(t, p) ==
  IF p.op = "and" THEN UNION {Conditions(t, p.args[i]) : i \in DOMAIN p.args}
  ELSE ToSet(Translated(t, p))

FullyTranslated(t, p) ==
  IF p.op = "and" THEN \A i \in DOMAIN p.args : FullyTranslated(t, p.args[i])
  ELSE TranslatedExactly(t, p)

\* The conditions pushed for a filter (<<>> or <<predicate>>) on a name, which
\* is translated when the schema has a table of that name.
Pushed(ctx, name, filter) ==
  IF filter = <<>> \/ name \notin DOMAIN ctx.defs THEN {}
  ELSE Conditions(ctx.defs[name], filter[1])

ResidualNeeded(ctx, name, filter) ==
  /\ filter # <<>>
  /\ Pushed(ctx, name, filter) # {} => ~FullyTranslated(ctx.defs[name], filter[1])

-------------------------------------------------------------------------------
(* Sorting and windows.                                                      *)

\* By one key after the other, each sort stable: keys[i][k] is the k-th key of
\* row i.  An insertion goes to the left of the rows it is less than; values that
\* do not compare count as equal.
Sorted(rows, keys, order) ==
  LET by(perm, k) ==
        LET less(i, j) == JsonCmp(keys[i][k], keys[j][k]) = (IF order[k].desc THEN "gt" ELSE "lt")
            insert(done, i) ==
              LET keeps == {n \in DOMAIN done : ~less(i, done[n])}
              IN  InsertAt(done, Max({0} \cup keeps) + 1, i)
        IN  FoldLeft(insert, <<>>, perm)
      perm == FoldLeft(by, [i \in DOMAIN rows |-> i], [k \in DOMAIN order |-> k])
  IN  [i \in DOMAIN rows |-> rows[perm[i]]]

NoLimit == -1

\* limit and offset, NoLimit and 0 when they are not given.
Window(rows, limit, offset) ==
  LET start == IF offset < Len(rows) THEN offset ELSE Len(rows)
      end   == IF limit = NoLimit \/ start + limit > Len(rows) THEN Len(rows) ELSE start + limit
  IN  SubSeq(rows, start + 1, end)

-------------------------------------------------------------------------------
(* Predicates and SELECT: a query has table, cols, filter, order (of          *)
(* [c, desc]), limit and offset.                                             *)

\* What a row of a subquery offers to IN: its first projected column.
SubqueryValue(q, row) ==
  IF q.cols # <<>> THEN Cell0(row, q.cols[1]) ELSE row[CHOOSE c \in DOMAIN row : TRUE]

\* What the rows of its subquery decide.
SubqueryHolds(p, v, rows) ==
  CASE p.op = "in_sub"     -> \E i \in DOMAIN rows : SubqueryValue(p.sub, rows[i]) = v
    [] p.op = "exists"     -> rows # <<>>
    [] p.op = "not_exists" -> rows = <<>>

RECURSIVE Eval(_, _, _), RunSelect(_, _)
Eval(ctx, scope, p) ==
  LET v == ValueOf(p.l, scope)
  IN CASE p.op = "and"        -> \A i \in DOMAIN p.args : Eval(ctx, scope, p.args[i])
       [] p.op = "or"         -> \E i \in DOMAIN p.args : Eval(ctx, scope, p.args[i])
       [] p.op = "not"        -> ~Eval(ctx, scope, p.arg)
       [] p.op \in Comparisons -> Compares(p.op, JsonCmp(v, ValueOf(p.r, scope)))
       [] p.op = "in"         -> \E i \in DOMAIN p.list : v = p.list[i]
       [] p.op = "not_in"     -> \A i \in DOMAIN p.list : v # p.list[i]
       [] p.op = "is_null"    -> v.t = "null"
       [] p.op = "not_null"   -> v.t # "null"
       [] p.op = "like"       -> v.t = "text" /\ v.s \in p.pattern.matches
       [] p.op = "contains"   -> v.t = "text" /\ HasInfix(v.s, p.s)
       [] p.op = "prefix"     -> v.t \in {"text", "bytes"} /\ StartsWith(v.s, p.s)
       [] p.op = "truthy"     -> Truthy(v)
       [] OTHER               -> SubqueryHolds(p, v, RunSelect(ctx, p.sub))

\* The rows a filter leaves of a table.
Filtered(ctx, name, filter) ==
  LET rows == Fetch(ctx, name, Pushed(ctx, name, filter))
  IN  IF ResidualNeeded(ctx, name, filter)
      THEN SelectSeq(rows, LAMBDA row : Eval(ctx, Flat(row), filter[1]))
      ELSE rows

SortedRows(q, rows) ==
  LET keys == [i \in DOMAIN rows |-> [k \in DOMAIN q.order |-> Cell0(rows[i], q.order[k].c)]]
  IN  Window(Sorted(rows, keys, q.order), q.limit, q.offset)

RunSelect(ctx, q) == SortedRows(q, Filtered(ctx, q.table, q.filter))

\* An order column the table of the schema does not have is refused.
OrderKnown(ctx, q) ==
  q.table \in DOMAIN ctx.defs =>
    \A i \in DOMAIN q.order : q.order[i].c \in Columns(ctx.defs[q.table])

\* select_distinct: the projection, each row the first time it appears.
Distinct(q, rows) ==
  LET project(row) == IF q.cols = <<>> THEN row ELSE [c \in ToSet(q.cols) |-> Cell0(row, c)]
      add(out, row) == IF Contains(out, project(row)) THEN out ELSE Append(out, project(row))
  IN  FoldLeft(add, <<>>, rows)

\* select_with: the CTEs in order, each seeing the ones before it.
WithCtes(ctx, ctes) ==
  LET add(c, cte) == [c EXCEPT !.ctes = [n \in DOMAIN @ \cup {cte.name} |->
                        IF n = cte.name THEN RunSelect(c, cte.query) ELSE @[n]]]
  IN  FoldLeft(add, ctx, ctes)
=============================================================================
