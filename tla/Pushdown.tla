-------------------------------- MODULE Pushdown --------------------------------
(***************************************************************************)
(* The translation of one comparison into a condition of the storage engine  *)
(* (crates/mongreldb-kit/src/pushdown.rs), what the engine makes of the       *)
(* condition, and what a transaction makes of it for the rows it has staged   *)
(* (row_matches_condition, txn.rs).                                          *)
(*                                                                         *)
(* A table is a record: name, pk (the sequence of key columns), type (a       *)
(* function from its columns to their types), unique (the columns of its      *)
(* unique constraints) and, by kind of index, bitmap, fm and learned: the     *)
(* columns declared in an index of that kind.                                *)
(*                                                                         *)
(* An operand is a column, qualified by an alias in a join ("" if not), or a  *)
(* literal.  A LIKE pattern is known by the texts between its wildcards       *)
(* (runs), the texts it matches, and whether it has a backslash (escaped).    *)
(***************************************************************************)
EXTENDS Values

Column(alias, c) == [o |-> "col", a |-> alias, c |-> c]
Literal(v)       == [o |-> "lit", v |-> v]

Columns(t) == DOMAIN t.type

\* The column the operand names, looked up by its full name.
IsColumnOf(t, x) == x.o = "col" /\ x.a = "" /\ x.c \in Columns(t)

Comparisons == {"eq", "ne", "lt", "lte", "gt", "gte"}

\* extract_column_literal: the column and the literal of a comparison, in
\* either order; the operator stays as it is.
HasColumnLiteral(t, p) == \/ IsColumnOf(t, p.l) /\ p.r.o = "lit"
                          \/ p.l.o = "lit" /\ IsColumnOf(t, p.r)
TheColumn(p)  == IF p.l.o = "col" THEN p.l.c ELSE p.r.c
TheLiteral(p) == IF p.l.o = "col" THEN p.r.v ELSE p.l.v

SinglePk(t, c) == t.pk = <<c>>
InPk(t, c)     == \E i \in 1..Len(t.pk) : t.pk[i] = c

HasBitmapIndex(t, c) == c \in t.bitmap \cup t.unique \/ InPk(t, c)

\* Of any kind, where the key is not enough.
HasDeclaredBitmapIndex(t, c) == c \in t.bitmap \cup t.fm \cup t.learned \cup t.unique

Saturated(n) == IF n < MinInt THEN MinInt ELSE IF n > MaxInt THEN MaxInt ELSE n

Nothing == <<>>

TranslateEq(t, p) ==
  LET c   == TheColumn(p)
      key == LiteralKey(TheLiteral(p), t.type[c])
  IN  IF ~HasColumnLiteral(t, p) \/ key = NoKey THEN Nothing
      ELSE IF SinglePk(t, c) THEN <<[k |-> "pk", key |-> key]>>
      ELSE IF HasBitmapIndex(t, c) THEN <<[k |-> "bitmap_eq", col |-> c, key |-> key]>>
      ELSE Nothing

\* mutant: a strict upper bound that includes its end.
IntBoundsClosed(op, n) ==
  IF op \in {"lt", "lte"} THEN <<MinInt, n>>
  ELSE IF op = "gt" THEN <<Saturated(n + 1), MaxInt>>
  ELSE <<n, MaxInt>>

IntBounds(op, n) ==
  IF op = "lt" THEN <<MinInt, Saturated(n - 1)>>
  ELSE IF op = "lte" THEN <<MinInt, n>>
  ELSE IF op = "gt" THEN <<Saturated(n + 1), MaxInt>>
  ELSE <<n, MaxInt>>

\* Bool is an integer type here, true and false the integers 1 and 0.
TranslateCmp(t, p) ==
  LET c    == TheColumn(p)
      lit  == TheLiteral(p)
      n    == IF lit.t = "bool" THEN (IF lit.b THEN 1 ELSE 0) ELSE lit.n
      type == t.type[c]
  IN  IF ~HasColumnLiteral(t, p) THEN Nothing
      ELSE IF type \in {"int", "narrow", "bool"} /\ lit.t \in {"int", "bool"}
      THEN <<[k |-> "range", col |-> c, lo |-> IntBounds(p.op, n)[1], hi |-> IntBounds(p.op, n)[2]]>>
      ELSE IF type = "float" /\ IsNumber(lit)
      THEN <<[k |-> "range_f64", col |-> c, op |-> p.op, n |-> AsF64(n)]>>
      ELSE Nothing

\* One literal without a key, a null, and the list is not translated.
TranslateIn(t, p) ==
  LET key(i) == LiteralKey(p.list[i], t.type[p.l.c])
  IN  IF /\ IsColumnOf(t, p.l)
         /\ HasBitmapIndex(t, p.l.c)
         /\ \A i \in 1..Len(p.list) : key(i) # NoKey
      THEN <<[k |-> "bitmap_in", col |-> p.l.c, keys |-> {key(i) : i \in 1..Len(p.list)}]>>
      ELSE Nothing

TranslatePrefix(t, p) ==
  IF IsColumnOf(t, p.l) /\ HasBitmapIndex(t, p.l.c)
  THEN <<[k |-> "prefix", col |-> p.l.c, s |-> p.s]>> ELSE Nothing

TranslateContains(t, p) ==
  IF IsColumnOf(t, p.l) /\ p.l.c \in t.fm
  THEN <<[k |-> "fm_contains", col |-> p.l.c, s |-> p.s]>> ELSE Nothing

TranslateLike(t, p) ==
  IF /\ IsColumnOf(t, p.l) /\ p.l.c \in t.fm
     /\ ~p.pattern.escaped /\ p.pattern.runs # {}
  THEN <<[k |-> "fm_contains_all", col |-> p.l.c, runs |-> p.pattern.runs]>> ELSE Nothing

TranslateNull(t, p) ==
  IF IsColumnOf(t, p.l) THEN <<[k |-> p.op, col |-> p.l.c]>> ELSE Nothing

\* The condition of a predicate that is not a conjunction, if it has one.
Translated(t, p) ==
  IF p.op = "eq" THEN TranslateEq(t, p)
  ELSE IF p.op \in {"lt", "lte", "gt", "gte"} THEN TranslateCmp(t, p)
  ELSE IF p.op = "in" THEN TranslateIn(t, p)
  ELSE IF p.op = "prefix" THEN TranslatePrefix(t, p)
  ELSE IF p.op = "contains" THEN TranslateContains(t, p)
  ELSE IF p.op = "like" THEN TranslateLike(t, p)
  ELSE IF p.op \in {"is_null", "not_null"} THEN TranslateNull(t, p)
  ELSE Nothing

\* No residual filter is needed for it.
TranslatedExactly(t, p) ==
  p.op \in {"eq", "lt", "lte", "gt", "gte", "in", "prefix"} /\ Translated(t, p) # Nothing

-------------------------------------------------------------------------------
(* Conditions on the cells of a row.                                         *)

KeyAt(cells, c) == IF cells[c].c = "null" THEN NoKey ELSE CellKey(cells[c])

InF64Range(op, x, n) ==
  \/ op = "lt" /\ x < n
  \/ op = "lte" /\ x <= n
  \/ op = "gt" /\ x > n
  \/ op = "gte" /\ x >= n

\* What the two readings below have in common.
KeyCondition(cells, cond, pk) ==
  \/ cond.k = "pk" /\ KeyAt(cells, pk[1]) = cond.key
  \/ cond.k = "bitmap_eq" /\ KeyAt(cells, cond.col) = cond.key
  \/ cond.k = "bitmap_in" /\ KeyAt(cells, cond.col) \in cond.keys

RangeCondition(cells, cond) ==
  \/ /\ cond.k = "range"
     /\ cells[cond.col].c = "int64"
     /\ cond.lo <= cells[cond.col].n /\ cells[cond.col].n <= cond.hi
  \/ /\ cond.k = "range_f64"
     /\ cells[cond.col].c = "float64"
     /\ InF64Range(cond.op, cells[cond.col].n, cond.n)

\* row_matches_condition, for rows with this transaction's staged ones among
\* them: a condition it does not know selects every row.
StagedMatches(t, cells, cond) ==
  \/ KeyCondition(cells, cond, t.pk)
  \/ RangeCondition(cells, cond)
  \/ /\ cond.k = "fm_contains"
     /\ \/ cond.s = <<>>
        \/ cells[cond.col].c = "bytes" /\ HasInfix(cells[cond.col].s, cond.s)
  \/ cond.k = "is_null" /\ cells[cond.col].c = "null"
  \/ cond.k = "not_null" /\ cells[cond.col].c # "null"
  \/ cond.k \in {"prefix", "fm_contains_all"}

\* The engine, as the translation relies on it: the key conditions answer from
\* an index, and a column without the index answers with no rows; the text and
\* null conditions may return more rows than match.
EngineBitmap(t, c) == c \in t.bitmap \cup t.unique

EngineMatches(t, cells, cond) ==
  \/ /\ cond.k \in {"bitmap_eq", "bitmap_in"} => EngineBitmap(t, cond.col)
     /\ KeyCondition(cells, cond, t.pk)
  \/ RangeCondition(cells, cond)
  \/ /\ cond.k = "prefix" /\ EngineBitmap(t, cond.col)
     /\ cells[cond.col].c = "bytes" /\ StartsWith(cells[cond.col].s, cond.s)
  \/ cond.k \in {"fm_contains", "fm_contains_all", "is_null", "not_null"}
=============================================================================
