SPECIFICATION Spec
CONSTANTS
  Txns = {c1}
  Ids = {p, q}
  a = a
  Null = Null
  NoRow = NoRow
  Untouched = Untouched
  Tables <- Staffed
  ColsOf <- StaffedCols
  Arity <- StaffedArity
  Required <- StaffedNone
  Rejects <- StaffedNone
  Uniques <- StaffedUnique
  FKs = {}
  Ops = {"insert"}
  Targets <- StaffedTargets
  MaxOps = 1
  Revisit = FALSE
  MaxRetries = 0
  MaxBehind = 1
SYMMETRY Symmetry
INVARIANTS FreeKeysAreFree
