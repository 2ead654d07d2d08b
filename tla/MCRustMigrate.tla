----------------------------- MODULE MCRustMigrate -----------------------------
(***************************************************************************)
(* Releases of a small application: people with an e-mail column (1), pets   *)
(* with an owner column (1).  Each plan exercises some operations, in two    *)
(* versions where their order matters.                                     *)
(***************************************************************************)
EXTENDS RustMigrate

CONSTANTS k1, k2

Col(name, required) == [name |-> name, required |-> required]
Tab(cols) == [cols |-> cols, uniques |-> <<>>, indexes |-> <<>>, fks |-> <<>>]
Op(kind, t, x) == [kind |-> kind, t |-> t, x |-> x]
Mig(version, ops) == [version |-> version, ops |-> ops]

Email   == 1 :> Col("email", FALSE)
People  == Tab(Email)
Unique  == [People EXCEPT !.uniques = "uq" :> 1]
Indexed(unique) == [People EXCEPT !.indexes = "ix" :> [col |-> 1, unique |-> unique]]
Pets    == Tab(1 :> Col("owner", FALSE))
Owned   == [Pets EXCEPT !.fks = "fk" :> [col |-> 1, parent |-> "people"]]

\* add_unique, and an object created in the version after it.
AddUnique == [old |-> "people" :> People, new |-> "people" :> Unique,
  migrations |-> {Mig(1, <<Op("add_unique", "people", "uq")>>),
                  Mig(2, <<Op("replace_object", "people", "trigger")>>)}]
\* A trigger, then the unique constraint goes.
DropUnique == [old |-> "people" :> Unique, new |-> "people" :> People,
  migrations |-> {Mig(1, <<Op("create_object", "people", "trigger"),
                           Op("drop_unique", "people", "uq")>>)}]
\* A unique index, rebuilt; and a unique index dropped.
AddIndex == [old |-> "people" :> People, new |-> "people" :> Indexed(TRUE),
  migrations |-> {Mig(1, <<Op("add_index", "people", "ix"), Op("metadata", "people", "check")>>)}]
DropIndex == [old |-> "people" :> Indexed(TRUE), new |-> "people" :> People,
  migrations |-> {Mig(1, <<Op("drop_index", "people", "ix")>>)}]
\* A plain index on a table whose column becomes required first.
AlterThenIndex ==
  [old |-> "people" :> People,
   new |-> "people" :> [Indexed(FALSE) EXCEPT !.cols = 1 :> Col("mail", TRUE)],
   migrations |-> {Mig(1, <<Op("alter_column", "people", "email")>>),
                   Mig(2, <<Op("add_index", "people", "ix")>>)}]
\* The column becomes required and unique.
Require == [old |-> "people" :> People,
            new |-> "people" :> [Unique EXCEPT !.cols = 1 :> Col("email", TRUE)],
  migrations |-> {Mig(1, <<Op("add_unique", "people", "uq")>>),
                  Mig(2, <<Op("alter_column", "people", "email")>>)}]
\* The e-mail column and its constraint give way to another column.
Swap == [old |-> "people" :> Unique, new |-> "people" :> Tab(2 :> Col("phone", FALSE)),
  migrations |-> {Mig(1, <<Op("add_column", "people", "phone")>>),
                  Mig(2, <<Op("drop_column", "people", "email")>>)}]
\* A table is created, or a reference added to one that exists.
CreateChild == [old |-> "people" :> People,
           new |-> ("people" :> People) @@ ("pets" :> Owned),
  migrations |-> {Mig(1, <<Op("create_table", "pets", "")>>),
                  Mig(2, <<Op("add_foreign_key", "pets", "fk")>>)}]
Reference == [old |-> ("people" :> Tab(<<>>)) @@ ("pets" :> Pets),
              new |-> ("people" :> Tab(<<>>)) @@ ("pets" :> Owned),
  migrations |-> {Mig(1, <<Op("add_foreign_key", "pets", "fk")>>)}]
\* The children's table goes, with its guards.
DropTable == [old |-> ("people" :> Unique) @@ ("pets" :> Owned),
              new |-> "pets" :> Pets,
  migrations |-> {Mig(1, <<Op("drop_table", "people", ""), Op("drop_object", "people", "trigger")>>)}]

AllPlans == {AddUnique, DropUnique, AddIndex, DropIndex, AlterThenIndex, Require, Swap,
             CreateChild, Reference, DropTable}
Reindexing == {DropIndex}

\* The plans are ones the theorems of RustMigrateProofs speak about.
ASSUME PlansFollow == \A p \in Plans : TablesStay(p) /\ Follows(p) /\ Applicable(p)
=============================================================================
