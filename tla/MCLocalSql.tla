----------------------------- MODULE MCLocalSql -----------------------------
(* Two calls that may ask for the same id, and results around the limits.   *)
EXTENDS LocalSql

SliceOf(rows, bytes) == [rows |-> rows, bytes |-> bytes]

Result(slices, rows, bytes) == [slices |-> slices, limits |-> [rows |-> rows, bytes |-> bytes]]

\* No row; two slices with room for both, for all but a byte, for all but a row.
SmallOutputs ==
    LET two == <<SliceOf(2, 3), SliceOf(1, 2)>> IN
    {Result(<<>>, 0, 2), Result(two, 3, 9), Result(two, 3, 8), Result(two, 2, 9)}
=============================================================================
