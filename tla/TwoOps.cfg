SPECIFICATION Spec
CONSTANTS
  Txns = {c1, c2}
  Ids = {p, q}
  a = a
  Null = Null
  NoRow = NoRow
  Untouched = Untouched
  Tables <- Orders
  ColsOf <- OrdersCols
  Arity <- OrdersArity
  Required <- OrdersNone
  Rejects <- OrdersNone
  Uniques <- OrdersUnique
  FKs <- OrdersSetNull
  Ops = {"insert", "delete"}
  Targets <- OneCustomer
  MaxOps = 2
  Revisit = FALSE
  MaxRetries = 0
  MaxBehind = 1
SYMMETRY CallerSymmetry
INVARIANTS GuardsInv NoDuplicateKeys NoDanglingReference
PROPERTIES CommitsWhatItShowed
