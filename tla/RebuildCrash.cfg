SPECIFICATION Spec
CONSTANTS
  Plans <- Reindexing
  k1 = k1
  k2 = k2
  RowKeys = {k1, k2}
  Values = {k1}
  Null = Null
  MaxCrashes = 1
  Refusable = {"temp", "filltemp", "clean", "backfill", "checkfk", "alter"}
INVARIANT RowsKept
