---------------------------------- MODULE Joins ----------------------------------
(***************************************************************************)
(* Joins (run_join, query.rs).  A query has table, alias, joins (of          *)
(* [table, alias, kind, on], kind "inner", "left" or "cross", on <<>> or a    *)
(* predicate), filter, order, limit and offset.  A row of the answer is a     *)
(* scope: the aliases with their rows.                                       *)
(***************************************************************************)
EXTENDS Queries

RECURSIVE Conjuncts(_), Aliases(_), Stripped(_, _)
Conjuncts(p) ==
  IF p.op = "and" THEN FlattenSeq([i \in DOMAIN p.args |-> Conjuncts(p.args[i])]) ELSE <<p>>

\* collect_aliases: an EXISTS counts as an alias of its own.
Aliases(p) ==
  LET of(x) == IF x.o = "col" /\ x.a # "" THEN {x.a} ELSE {}
  IN  IF p.op \in {"and", "or"} THEN UNION {Aliases(p.args[i]) : i \in DOMAIN p.args}
      ELSE IF p.op = "not" THEN Aliases(p.arg)
      ELSE IF p.op \in {"exists", "not_exists"} THEN {"__subquery__"}
      ELSE of(p.l) \cup (IF p.op \in Comparisons THEN of(p.r) ELSE {})

StripOperand(x, alias) == IF x.o = "col" /\ x.a = alias THEN Column("", x.c) ELSE x

\* The predicate with the alias taken off its columns.
Stripped(p, alias) ==
  [f \in DOMAIN p |->
     CASE f \in {"l", "r"} -> StripOperand(p[f], alias)
       [] f = "args"       -> [i \in DOMAIN p.args |-> Stripped(p.args[i], alias)]
       [] f = "arg"        -> Stripped(p.arg, alias)
       [] OTHER            -> p[f]]

\* split_join_filter: what goes to the rows of one alias, and what is left for
\* the joined rows.
Parts(filter) == IF filter = <<>> THEN <<>> ELSE Conjuncts(filter[1])

SideFilter(filter, alias) ==
  LET mine(p) == Aliases(p) = {alias}
      own     == SelectSeq(Parts(filter), mine)
  IN  [i \in DOMAIN own |-> Stripped(own[i], alias)]

\* mutant: a conjunct of two aliases is taken for one of a side.
AnyAlias(p) == Aliases(p) # {}

SingleAlias(p) == Cardinality(Aliases(p)) = 1

Residual(filter) ==
  LET spans(p) == ~SingleAlias(p) IN SelectSeq(Parts(filter), spans)

SideConditions(ctx, name, own) ==
  IF name \notin DOMAIN ctx.defs THEN {}
  ELSE UNION {Conditions(ctx.defs[name], own[i]) : i \in DOMAIN own}

\* The rows of a side: fetched with its conditions and the probe of the join,
\* and filtered again.
SideRows(ctx, name, own, probe) ==
  SelectSeq(Fetch(ctx, name, SideConditions(ctx, name, own) \cup probe),
            LAMBDA row : \A i \in DOMAIN own : Eval(ctx, Flat(row), own[i]))

\* fk_join_condition: for an ON of right column = left column, the right
\* column indexed, the keys of the left rows are looked up.
RightOf(on, alias) == IF on.l.a = alias THEN on.r ELSE on.l   \* the left side's column
ProbeColumn(on, alias) == IF on.l.a = alias THEN on.l.c ELSE on.r.c

ProbeApplies(ctx, join) ==
  /\ join.kind # "cross" /\ join.on # <<>> /\ join.table \in DOMAIN ctx.defs
  /\ join.on[1].op = "eq" /\ join.on[1].l.o = "col" /\ join.on[1].r.o = "col"
  /\ (join.on[1].l.a = join.alias) # (join.on[1].r.a = join.alias)
  /\ RightOf(join.on[1], join.alias).a # ""
  /\ HasDeclaredBitmapIndex(ctx.defs[join.table], ProbeColumn(join.on[1], join.alias))

ProbeKeys(ctx, join, left) ==
  LET on   == join.on[1]
      type == ctx.defs[join.table].type[ProbeColumn(on, join.alias)]
      value(i) == ValueOf(RightOf(on, join.alias), left[i])
  IN  {LiteralKey(value(i), type) : i \in {j \in DOMAIN left : value(j).t # "bytes"}} \ {NoKey}

FkProbe(ctx, join, left) ==
  IF ProbeApplies(ctx, join) /\ ProbeKeys(ctx, join, left) # {}
  THEN {[k |-> "bitmap_in", col |-> ProbeColumn(join.on[1], join.alias),
         keys |-> ProbeKeys(ctx, join, left)]}
  ELSE {}

\* One row of the left with every right row it is kept with.
JoinOne(ctx, join, right, scope) ==
  LET with(row) == Append(scope, <<join.alias, row>>)
      pairs     == SelectSeq([i \in DOMAIN right |-> with(right[i])],
                     LAMBDA s : join.kind = "cross" \/ join.on = <<>> \/ Eval(ctx, s, join.on[1]))
  IN  IF pairs = <<>> /\ join.kind = "left" THEN <<with(Unmatched)>> ELSE pairs

JoinStep(ctx, filter, left, join) ==
  LET right == SideRows(ctx, join.table, SideFilter(filter, join.alias), FkProbe(ctx, join, left))
  IN  FlattenSeq([i \in DOMAIN left |-> JoinOne(ctx, join, right, left[i])])

BaseRows(ctx, q) ==
  LET rows == SideRows(ctx, q.table, SideFilter(q.filter, q.alias), {})
  IN  [i \in DOMAIN rows |-> <<<<q.alias, rows[i]>>>>]

JoinedRows(ctx, q) ==
  LET step(left, join) == JoinStep(ctx, q.filter, left, join)
      rest == Residual(q.filter)
  IN  SelectSeq(FoldLeft(step, BaseRows(ctx, q), q.joins),
                LAMBDA scope : \A i \in DOMAIN rest : Eval(ctx, scope, rest[i]))

SortedScopes(q, scopes) ==
  LET keys == [i \in DOMAIN scopes |-> [k \in DOMAIN q.order |-> ValueOf(q.order[k].c, scopes[i])]]
  IN  Window(Sorted(scopes, keys, q.order), q.limit, q.offset)

RunJoin(ctx, q) == SortedScopes(q, JoinedRows(ctx, q))
=============================================================================
