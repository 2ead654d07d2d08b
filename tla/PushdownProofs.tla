----------------------------- MODULE PushdownProofs -----------------------------
(***************************************************************************)
(* A comparison of an integer column with an integer is translated exactly:   *)
(* for every width of integers and every value, the range condition selects   *)
(* a row, staged or committed, if and only if the comparison holds of it.     *)
(***************************************************************************)
EXTENDS Pushdown, TLAPS

Ranges == {"lt", "lte", "gt", "gte"}

\* A comparison whose bound does not leave the range of i64.
Bounded(op, n) == /\ n \in MinInt..MaxInt
                  /\ op = "lt" => n # MinInt
                  /\ op = "gt" => n # MaxInt

LtOf(c, op, n) == [op |-> op, l |-> Column("", c), r |-> Literal(IntV(n))]

\* The bounds of a range hold exactly the integers that compare as asked.
LEMMA BoundsAreExact ==
  ASSUME NEW op \in Ranges, NEW n \in Int, Bounded(op, n), NEW x \in MinInt..MaxInt
  PROVE  /\ IntBounds(op, n)[1] <= x /\ x <= IntBounds(op, n)[2]
         <=> Compares(op, Order(x, n))
  BY ValuesAssumption, SMT DEF Ranges, Bounded, IntBounds, Saturated, Compares, Order

\* An integer compares with an integer by its order, and null with none.
LEMMA IntegersCompare ==
  ASSUME NEW x \in Int, NEW n \in Int
  PROVE  JsonCmp(IntV(x), IntV(n)) = Order(x, n)
  BY DEF JsonCmp, IntV

LEMMA NullComparesWithNone ==
  ASSUME NEW n \in Int
  PROVE  JsonCmp(NullV, IntV(n)) = "none"
  BY DEF JsonCmp, IntV, NullV, IsNumber

LEMMA NoneIsNoRange ==
  ASSUME NEW op \in Ranges
  PROVE  ~Compares(op, "none")
  BY DEF Ranges, Compares

\* The condition a comparison of an integer column is translated to.
LEMMA IntegerRange ==
  ASSUME NEW t, NEW c \in Columns(t), t.type[c] = "int",
         NEW op \in Ranges, NEW n \in Int
  PROVE  TranslateCmp(t, LtOf(c, op, n))
           = <<[k |-> "range", col |-> c, lo |-> IntBounds(op, n)[1], hi |-> IntBounds(op, n)[2]]>>
  <1> DEFINE p == LtOf(c, op, n)
  <1>1. HasColumnLiteral(t, p)
    BY DEF HasColumnLiteral, IsColumnOf, LtOf, Column, Literal
  <1>2. TheColumn(p) = c /\ TheLiteral(p) = IntV(n) /\ p.op = op
    BY DEF TheColumn, TheLiteral, LtOf, Column, Literal
  <1>3. IntV(n).t = "int" /\ IntV(n).n = n
    BY DEF IntV
  <1> QED
    BY <1>1, <1>2, <1>3 DEF TranslateCmp

\* What the range selects of the stored cells: neither reading of it, for staged
\* rows (row_matches_condition) or by the engine, looks at anything else.
LEMMA RangeSelects ==
  ASSUME NEW t, NEW c, NEW cells, NEW lo, NEW hi
  PROVE  LET cond == [k |-> "range", col |-> c, lo |-> lo, hi |-> hi]
         IN  /\ StagedMatches(t, cells, cond)
                 <=> cells[c].c = "int64" /\ lo <= cells[c].n /\ cells[c].n <= hi
             /\ EngineMatches(t, cells, cond)
                 <=> cells[c].c = "int64" /\ lo <= cells[c].n /\ cells[c].n <= hi
  BY DEF StagedMatches, EngineMatches, KeyCondition, RangeCondition

\* A comparison pushed to the engine selects what the comparison itself would,
\* of committed and of staged rows alike, null or not, and so needs no residual
\* filter (pushdown.rs:205-243, txn.rs:2115-2226).
THEOREM ComparisonsArePushedExactly ==
  ASSUME NEW t, NEW c \in Columns(t), t.type[c] = "int",
         NEW op \in Ranges, NEW n, Bounded(op, n),
         NEW v \in {IntV(x) : x \in MinInt..MaxInt} \cup {NullV},
         NEW cells, cells[c] = Cell(v)
  PROVE  LET cond == TranslateCmp(t, LtOf(c, op, n))[1]
         IN  /\ StagedMatches(t, cells, cond) <=> Compares(op, JsonCmp(v, IntV(n)))
             /\ EngineMatches(t, cells, cond) <=> Compares(op, JsonCmp(v, IntV(n)))
  <1> DEFINE lo   == IntBounds(op, n)[1]
             hi   == IntBounds(op, n)[2]
             cond == [k |-> "range", col |-> c, lo |-> lo, hi |-> hi]
  <1>1. n \in Int
    BY ValuesAssumption DEF Bounded
  <1>2. TranslateCmp(t, LtOf(c, op, n))[1] = cond
    BY <1>1, IntegerRange
  <1>3. /\ StagedMatches(t, cells, cond)
            <=> cells[c].c = "int64" /\ lo <= cells[c].n /\ cells[c].n <= hi
        /\ EngineMatches(t, cells, cond)
            <=> cells[c].c = "int64" /\ lo <= cells[c].n /\ cells[c].n <= hi
    BY RangeSelects
  <1>4. (cells[c].c = "int64" /\ lo <= cells[c].n /\ cells[c].n <= hi)
          <=> Compares(op, JsonCmp(v, IntV(n)))
    <2>1. CASE v = NullV
      <3>1. cells[c].c # "int64"
        BY <2>1 DEF Cell, NullV
      <3>2. ~Compares(op, JsonCmp(v, IntV(n)))
        BY <2>1, <1>1, NullComparesWithNone, NoneIsNoRange
      <3> QED
        BY <3>1, <3>2
    <2>2. ASSUME NEW x \in MinInt..MaxInt, v = IntV(x)
          PROVE  (cells[c].c = "int64" /\ lo <= cells[c].n /\ cells[c].n <= hi)
                   <=> Compares(op, JsonCmp(v, IntV(n)))
      <3>1. x \in Int
        BY ValuesAssumption
      <3>2. cells[c].c = "int64" /\ cells[c].n = x
        BY <2>2 DEF Cell, IntV
      <3>3. JsonCmp(v, IntV(n)) = Order(x, n)
        BY <2>2, <3>1, <1>1, IntegersCompare
      <3>4. (lo <= x /\ x <= hi) <=> Compares(op, Order(x, n))
        BY <1>1, BoundsAreExact
      <3> QED
        BY <3>2, <3>3, <3>4
    <2> QED
      BY <2>1, <2>2
  <1> QED
    BY <1>2, <1>3, <1>4
=============================================================================
