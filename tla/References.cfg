SPECIFICATION Spec
CONSTANTS
  Txns = {c1, c2}
  Ids = {p}
  a = a
  Null = Null
  NoRow = NoRow
  Untouched = Untouched
  Tables <- Shop
  ColsOf <- ShopCols
  Arity <- ShopArity
  Required <- ShopNone
  Rejects <- ShopNone
  Uniques <- ShopUnique
  FKs <- ShopFKs
  Ops = {"insert", "update", "delete"}
  Targets <- ShopTargets
  MaxOps = 1
  Revisit = FALSE
  MaxRetries = 0
  MaxBehind = 1
SYMMETRY CallerSymmetry
INVARIANTS GuardsMatchRows
PROPERTIES Linearizable
