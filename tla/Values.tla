--------------------------------- MODULE Values ---------------------------------
(***************************************************************************)
(* The values of the Kit's query layer: JSON scalars and byte arrays, how   *)
(* they compare (crates/mongreldb-kit/src/query.rs), the cells the engine    *)
(* stores for them (schema.rs) and the keys its indexes hold (pushdown.rs).  *)
(*                                                                         *)
(* A text is a sequence of letters, numbered in their order.  An integer of  *)
(* 64 bits is one of MinInt..MaxInt; a double holds every integer of          *)
(* -Exact..Exact, beyond that the even ones, and beyond twice that every       *)
(* fourth, as a double does with the integers above 2^53.  Fractions and NaN (not JSON) are left out, objects   *)
(* too; a column of 8, 16 or 32 bits has the type "narrow".                  *)
(***************************************************************************)
EXTENDS Integers, Sequences

CONSTANTS
  MinInt, MaxInt,   \* the range of i64
  Exact,            \* the integers a double holds exactly
  MinNarrow, MaxNarrow   \* the range of a column narrower than i64

ASSUME ValuesAssumption ==
  /\ MinInt \in Int /\ MaxInt \in Int /\ Exact \in Nat
  /\ MinNarrow \in Int /\ MaxNarrow \in Int
  /\ MinInt <= MinNarrow /\ MinNarrow <= MaxNarrow /\ MaxNarrow <= MaxInt
  /\ -2 * Exact <= MinInt /\ MaxInt <= 2 * Exact

NullV     == [t |-> "null"]
BoolV(b)  == [t |-> "bool", b |-> b]
IntV(n)   == [t |-> "int", n |-> n]
FloatV(n) == [t |-> "float", n |-> n]
TextV(s)  == [t |-> "text", s |-> s]
BytesV(s) == [t |-> "bytes", s |-> s]

IsNumber(v) == v.t \in {"int", "float"}

\* n as f64: rounded to the nearest double, a tie to the even one.
AsF64(n) ==
  LET step  == IF n \in -Exact..Exact THEN 1 ELSE IF n \in (-2 * Exact)..(2 * Exact) THEN 2 ELSE 4
      below == n \div step
      over  == n - below * step
      up    == 2 * over > step \/ (2 * over = step /\ below % 2 = 1)
  IN  (IF up THEN below + 1 ELSE below) * step

Order(x, y) == IF x < y THEN "lt" ELSE IF x = y THEN "eq" ELSE "gt"

\* Strings compare letter by letter, the shorter of two that agree first.
TextBefore(s, u) ==
  \/ Len(s) < Len(u) /\ \A i \in 1..Len(s) : s[i] = u[i]
  \/ \E i \in 1..Len(s) : /\ i <= Len(u)
                          /\ s[i] < u[i]
                          /\ \A j \in 1..(i - 1) : s[j] = u[j]

\* Arrays of one length compare element by element, others by their length.
BytesBefore(s, u) == IF Len(s) = Len(u) THEN TextBefore(s, u) ELSE Len(s) < Len(u)

\* json_cmp: values of different types, and null with anything else, do not
\* compare ("none"); an integer and a float compare as doubles.
JsonCmp(a, b) ==
  IF a.t = "int" /\ b.t = "int" THEN Order(a.n, b.n)
  ELSE IF IsNumber(a) /\ IsNumber(b) THEN Order(AsF64(a.n), AsF64(b.n))
  ELSE IF a.t # b.t THEN "none"
  ELSE IF a = b THEN "eq"
  ELSE IF a.t = "bool" THEN (IF b.b THEN "lt" ELSE "gt")
  ELSE IF a.t = "text" THEN (IF TextBefore(a.s, b.s) THEN "lt" ELSE "gt")
  ELSE (IF BytesBefore(a.s, b.s) THEN "lt" ELSE "gt")

\* What eval_pred makes of a comparison; only "ne" holds of what does not compare.
Compares(op, o) ==
  \/ op = "eq" /\ o = "eq"
  \/ op = "ne" /\ o # "eq"
  \/ op = "lt" /\ o = "lt"
  \/ op = "gt" /\ o = "gt"
  \/ op = "lte" /\ o \in {"lt", "eq"}
  \/ op = "gte" /\ o \in {"gt", "eq"}

StartsWith(s, p) == Len(p) <= Len(s) /\ SubSeq(s, 1, Len(p)) = p
HasInfix(s, p)   == \E i \in 0..Len(s) : StartsWith(SubSeq(s, i + 1, Len(s)), p)

-------------------------------------------------------------------------------
(* Cells: what is stored depends on the JSON value, not on the column.       *)

Cell(v) ==
  IF v.t = "int" THEN [c |-> "int64", n |-> v.n]
  ELSE IF v.t = "float" THEN [c |-> "float64", n |-> v.n]
  ELSE IF v.t \in {"text", "bytes"} THEN [c |-> "bytes", s |-> v.s]
  ELSE IF v.t = "bool" THEN [c |-> "bool", b |-> v.b]
  ELSE [c |-> "null"]

\* n as i8, i16 or i32.
Wrapped(n) == MinNarrow + ((n - MinNarrow) % ((MaxNarrow - MinNarrow) + 1))

\* What a cell is read back as depends on the column.
FromCell(cell, type) ==
  IF cell.c = "int64" THEN IntV(IF type = "narrow" THEN Wrapped(cell.n) ELSE cell.n)
  ELSE IF cell.c = "float64" THEN FloatV(cell.n)
  ELSE IF cell.c = "bytes" THEN (IF type = "bytes" THEN BytesV(cell.s) ELSE TextV(cell.s))
  ELSE IF cell.c = "bool" THEN BoolV(cell.b)
  ELSE NullV

\* A cell in the byte form of an index: zero is eight zero bytes, integer or
\* float; a null has no key.
CellKey(cell) ==
  IF cell.c \in {"int64", "float64"} /\ cell.n = 0 THEN [c |-> "zero"] ELSE cell

NoKey == [c |-> "none"]

\* literal_to_index_key: an integer compared with a float column is encoded as
\* a float, every other literal as what it is.
LiteralKey(lit, type) ==
  IF lit.t = "null" THEN NoKey
  ELSE IF lit.t = "int" /\ type = "float" THEN CellKey(Cell(FloatV(AsF64(lit.n))))
  ELSE CellKey(Cell(lit))

\* The values type_check lets into a column: a narrow column takes every
\* integer, a float column integers too, a bytes column strings.
Accepts(type, v) ==
  \/ v.t = "null"
  \/ type \in {"int", "narrow"} /\ v.t = "int"
  \/ type = "float" /\ IsNumber(v)
  \/ type = "text" /\ v.t = "text"
  \/ type = "bytes" /\ v.t \in {"text", "bytes"}
  \/ type = "bool" /\ v.t = "bool"
=============================================================================
