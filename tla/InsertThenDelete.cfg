SPECIFICATION Spec
CONSTANTS
  Txns = {c1}
  Ids = {p, q}
  a = a
  Null = Null
  NoRow = NoRow
  Untouched = Untouched
  Tables <- Users
  ColsOf <- UsersCols
  Arity <- UsersArity
  Required <- UsersNone
  Rejects <- UsersNone
  Uniques <- UsersUnique
  FKs = {}
  Ops = {"insert", "delete"}
  Targets <- UsersTargets
  MaxOps = 2
  Revisit = TRUE
  MaxRetries = 0
  MaxBehind = 1
SYMMETRY Symmetry
PROPERTIES CommitsWhatItShowed
