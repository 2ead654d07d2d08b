SPECIFICATION Spec
CONSTANTS
  Txns = {c1}
  Ids = {p, q}
  a = a
  Null = Null
  NoRow = NoRow
  Untouched = Untouched
  Tables <- Orders
  ColsOf <- OrdersCols
  Arity <- OrdersArity
  Required <- OrdersNone
  Rejects <- OrdersNone
  Uniques = {}
  FKs <- OrdersRestrict
  Ops = {"insert", "update"}
  Targets <- OrdersTargets
  MaxOps = 1
  Revisit = FALSE
  MaxRetries = 0
  MaxBehind = 1
INVARIANTS NoDanglingReference
