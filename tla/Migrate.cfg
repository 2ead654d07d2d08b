SPECIFICATION Spec
CONSTANTS
  Plans <- AllPlans
  k1 = k1
  k2 = k2
  RowKeys = {k1, k2}
  Values = {k1, k2}
  Null = Null
  MaxCrashes = 2
  Refusable = {"temp", "filltemp", "clean", "backfill", "checkfk", "alter", "drop", "drop_object"}
INVARIANTS RecordedMeansApplied RowsReachable OnlyBadRowsFail GuardsFollowTables
