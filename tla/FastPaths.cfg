SPECIFICATION FairSpec
CONSTANTS
  Txns = {c1, c2}
  Ids = {p}
  a = a
  Null = Null
  NoRow = NoRow
  Untouched = Untouched
  Tables <- Users
  ColsOf <- UsersCols
  Arity <- UsersArity
  Required <- UsersNone
  Rejects <- UsersNone
  Uniques = {}
  FKs = {}
  Ops = {"insert", "update", "delete", "upsert", "truncate"}
  Targets <- UsersTargets
  MaxOps = 1
  Revisit = FALSE
  MaxRetries = 1
  MaxBehind = 1
PROPERTIES CallsReturn InsertsAddUpdatesReplace
