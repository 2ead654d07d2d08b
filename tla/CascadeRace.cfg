SPECIFICATION Spec
CONSTANTS
  Txns = {c1, c2}
  Ids = {p, q}
  a = a
  Null = Null
  NoRow = NoRow
  Untouched = Untouched
  Tables <- Chain
  ColsOf <- ChainCols
  Arity <- ChainArity
  Required <- ChainNone
  Rejects <- ChainNone
  Uniques = {}
  FKs <- ChainCascade
  Ops = {"insert", "delete"}
  Targets <- ChainTargets
  MaxOps = 1
  Revisit = FALSE
  MaxRetries = 0
  MaxBehind = 1
SYMMETRY Symmetry
INVARIANTS NoDanglingReference
