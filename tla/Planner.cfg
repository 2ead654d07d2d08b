SPECIFICATION Spec
CHECK_DEADLOCK FALSE
CONSTANTS
  Ids <- ShopIds
  a = a
  b = b
  c = c
  i1 = i1
  i2 = i2
  Null = Null
  NoRow = NoRow
  Tables <- Shop
  ColsOf <- ShopCols
  Arity <- ShopArity
  Required <- ShopNone
  Rejects <- ShopNone
  Uniques = {}
  FKs <- ShopFKs
  FkOrder <- FkPlaces
  RowOrder <- RowPlaces
INVARIANTS CyclesAreReported PlanIsComplete ChildrenFirst
