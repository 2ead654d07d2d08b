------------------------------ MODULE Relational ------------------------------
(***************************************************************************)
(* What the Kit promises its caller: tables whose statements take effect    *)
(* one at a time, each on the current rows, and that satisfy the declared   *)
(* constraints after each (docs/constraints.md).  There are no guards, no   *)
(* snapshots and no transactions; module KitTxn implements this one.        *)
(***************************************************************************)
EXTENDS DeletePlan

VARIABLE tables   \* the rows of every table

Consistent(db) == RowsValid(db) /\ KeysUnique(db) /\ ReferencesIntact(db)

\* The statement leaves the tables as db, which satisfies the constraints.
Becomes(db) == /\ tables' = db
               /\ Consistent(db)

Put(t, rows) == [x \in RowIds |->
                   IF x[1] = t /\ x[2] \in DOMAIN rows THEN rows[x[2]] ELSE tables[x]]

\* A statement writes rows of one table: new ones, or ones that are there.
InsertRows(t, rows) == /\ \A p \in DOMAIN rows : tables[<<t, p>>] = NoRow
                       /\ Becomes(Put(t, rows))

UpdateRows(t, rows) == /\ \A p \in DOMAIN rows : tables[<<t, p>>] # NoRow
                       /\ Becomes(Put(t, rows))

\* What deletes of the rows in S leave: cascading references take their rows
\* with them, set-null references are cut.
Deleted(db, S) ==
  LET refs    == References(db)
      gone    == UNION {Reach(refs, x) : x \in S}
      cols(y) == {h[1].col : h \in {g \in UNION {Cut(refs, x) : x \in S} : g[3] = y}}
  IN  [y \in RowIds |->
         IF db[y] = NoRow \/ y \in gone THEN NoRow
         ELSE [a \in DOMAIN db[y] |-> IF a \in cols(y) THEN Null ELSE db[y][a]]]

DeleteRows(S) == /\ \A x \in S : /\ tables[x] # NoRow
                                 /\ ~Restricted(References(tables), x)
                 /\ Becomes(Deleted(tables, S))

EmptyTable(t) == Becomes([x \in RowIds |-> IF x[1] = t THEN NoRow ELSE tables[x]])

Init == tables = [x \in RowIds |-> NoRow]

Next ==
  \E t \in Tables :
    \/ \E P \in SUBSET Ids : \/ \E rows \in [P -> RowsOf(t)] :
                                  InsertRows(t, rows) \/ UpdateRows(t, rows)
                             \/ DeleteRows({t} \X P)
    \/ EmptyTable(t)

Spec == Init /\ [][Next]_tables
=============================================================================
