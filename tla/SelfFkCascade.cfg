SPECIFICATION Spec
CONSTANTS
  Txns = {c1}
  Ids = {p, q}
  a = a
  Null = Null
  NoRow = NoRow
  Untouched = Untouched
  Tables <- Employees
  ColsOf <- EmployeesCols
  Arity <- EmployeesArity
  Required <- EmployeesNone
  Rejects <- EmployeesNone
  Uniques <- EmployeesUnique
  FKs <- EmployeesCascade
  Ops = {"insert", "delete"}
  Targets <- EmployeesTargets
  MaxOps = 1
  Revisit = FALSE
  MaxRetries = 0
  MaxBehind = 1
SYMMETRY Symmetry
INVARIANTS NoDanglingReference
