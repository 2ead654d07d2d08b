------------------------------- MODULE KitSchema -------------------------------
(***************************************************************************)
(* The declared schema of an application and the conditions it puts on the  *)
(* contents of its tables (crates/mongreldb-kit-core/src/schema.rs and      *)
(* validation.rs).                                                         *)
(*                                                                         *)
(* Data is abstracted.  One set Ids stands for primary-key values and       *)
(* column values alike, so that a foreign-key column can hold the key of    *)
(* its parent; a column list (a composite unique or foreign key) is one     *)
(* column that holds the tuple; the number of primary-key columns matters   *)
(* only to the planner and to the choice of guards and is kept as Arity.    *)
(***************************************************************************)
EXTENDS Naturals, FiniteSets

CONSTANTS
  Tables,    \* table names
  Ids,       \* primary-key and column values
  Null,      \* the SQL null
  NoRow,     \* the absence of a stored row
  ColsOf,    \* [Tables -> set of non-key columns]
  Arity,     \* [Tables -> number of primary-key columns]
  Required,  \* [Tables -> the columns that are not nullable]
  Rejects,   \* [Tables -> the rows a CHECK constraint of the table rejects]
  Uniques,   \* the unique constraints, [name, table, col]
  FKs        \* the foreign keys, [child, col, parent, action]

AllCols == UNION {ColsOf[t] : t \in Tables}

\* A row is its non-key columns; its key is where it is stored.
RowsOf(t) == [ColsOf[t] -> Ids \cup {Null}]
AllRows   == UNION {RowsOf(t) : t \in Tables}

\* <<table, primary key>>: the address of a row, and the owner a guard names.
RowIds == Tables \X Ids

UniquesOf(t) == {u \in Uniques : u.table = t}
FKsOf(t)     == {f \in FKs : f.child = t}
FKsTo(t)     == {f \in FKs : f.parent = t}

SchemaAssumption ==
  /\ Null \notin Ids
  /\ NoRow \notin AllRows \cup RowIds
  /\ Arity \in [Tables -> Nat \ {0}]
  /\ DOMAIN ColsOf = Tables
  /\ \A t \in Tables : Required[t] \subseteq ColsOf[t]
  /\ \A u \in Uniques : u.table \in Tables /\ u.col \in ColsOf[u.table]
  /\ \A f \in FKs : /\ f.child \in Tables
                    /\ f.col \in ColsOf[f.child]
                    /\ f.parent \in Tables
                    /\ f.action \in {"restrict", "cascade", "set_null"}

ASSUME KitSchemaAssumption == SchemaAssumption

\* validate_row_kit_only before the write, and the NOT NULL and CHECK
\* constraints the Kit declares to the engine, which tests them on the put.
ValidRow(t, r) == /\ \A c \in Required[t] : r[c] # Null
                  /\ r \notin Rejects[t]

\* The tables as one function from addresses to rows.
Contents == [RowIds -> AllRows \cup {NoRow}]

Holds(db, u, id, v) == /\ db[<<u.table, id>>] # NoRow
                       /\ db[<<u.table, id>>][u.col] = v

\* No two rows of a table agree on the non-null value of a unique column.
KeysUnique(db) ==
  \A u \in Uniques, p, q \in Ids, v \in Ids :
    Holds(db, u, p, v) /\ Holds(db, u, q, v) => p = q

\* f of the row x of f's child table refers to the row y.
RefersTo(db, f, x, y) ==
  /\ f.child = x[1]
  /\ f.parent = y[1]
  /\ db[x] # NoRow
  /\ db[x][f.col] = y[2]

\* Every reference that is not null finds its parent.
ReferencesIntact(db) ==
  \A f \in FKs, p \in Ids, q \in Ids :
    RefersTo(db, f, <<f.child, p>>, <<f.parent, q>>) => db[<<f.parent, q>>] # NoRow

\* Every stored row satisfies the column and CHECK constraints of its table.
RowsValid(db) ==
  \A x \in RowIds : db[x] # NoRow => /\ db[x] \in RowsOf(x[1])
                                     /\ ValidRow(x[1], db[x])
=============================================================================
