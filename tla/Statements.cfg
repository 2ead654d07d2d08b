SPECIFICATION Spec
CONSTANTS
  Txns = {c1, c2}
  Ids = {p, q}
  a = a
  Null = Null
  NoRow = NoRow
  Untouched = Untouched
  Tables <- Users
  ColsOf <- UsersCols
  Arity <- UsersArity
  Required <- UsersNone
  Rejects <- UsersNone
  Uniques <- UsersUnique
  FKs = {}
  Ops = {"insert", "insert_many", "update", "update_where", "delete", "delete_where", "truncate"}
  Targets <- UsersTargets
  MaxOps = 1
  Revisit = FALSE
  MaxRetries = 0
  MaxBehind = 1
SYMMETRY Symmetry
INVARIANTS GuardsMatchRows
PROPERTIES Linearizable
