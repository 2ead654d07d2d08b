------------------------------- MODULE MCKitTxn -------------------------------
(***************************************************************************)
(* Small schemas for TLC.  Ids and column names are model values, so that   *)
(* callers and ids can be permuted.                                        *)
(***************************************************************************)
EXTENDS KitGuards, TLC

CONSTANT a   \* a column

CallerSymmetry == Permutations(Txns)
Symmetry == Permutations(Txns) \cup Permutations(Ids)

Uq(name, t, col)    == [name |-> name, table |-> t, col |-> col]
Fk(t, col, p, what) == [child |-> t, col |-> col, parent |-> p, action |-> what]

None(tables)   == [t \in tables |-> {}]
Single(tables) == [t \in tables |-> 1]

\* users(id, a), a unique
Users       == {"users"}
UsersCols   == [t \in Users |-> {a}]
UsersNone   == None(Users)
UsersArity  == Single(Users)
UsersTargets == Users \X Ids
UsersUnique == {Uq("uq_a", "users", a)}


\* orders(id, a), a references customers(id)
Orders        == {"customers", "orders"}
OrdersCols    == [t \in Orders |-> IF t = "orders" THEN {a} ELSE {}]
OrdersNone    == None(Orders)
OrdersArity   == Single(Orders)
OrdersTargets == Orders \X Ids
OneCustomer   == {x \in OrdersTargets : x[1] = "orders" \/ x[2] = CHOOSE i \in Ids : TRUE}
OrdersSetNull == {Fk("orders", a, "customers", "set_null")}
OrdersRestrict == {Fk("orders", a, "customers", "restrict")}
OrdersUnique  == {Uq("uq_a", "orders", a)}

\* customers(id) with a child table for each action, all with composite keys
Shop        == {"customers", "orders", "invoices", "notes"}
ShopCols    == [t \in Shop |-> IF t = "customers" THEN {} ELSE {a}]
ShopNone    == None(Shop)
ShopArity   == [t \in Shop |-> IF t = "customers" THEN 1 ELSE 2]
ShopTargets == Shop \X Ids
ShopFKs     == {Fk("orders", a, "customers", "cascade"),
                Fk("invoices", a, "customers", "restrict"),
                Fk("notes", a, "customers", "set_null")}
ShopUnique  == {Uq("uq_a", "notes", a)}

\* customers <- orders(id, a) <- items(id, a), both references cascade
Chain        == {"customers", "orders", "items"}
ChainCols    == [t \in Chain |-> IF t = "customers" THEN {} ELSE {a}]
ChainNone    == None(Chain)
ChainArity   == Single(Chain)
ChainTargets == Chain \X Ids
ChainCascade == {Fk("orders", a, "customers", "cascade"),
                 Fk("items", a, "orders", "cascade")}

\* employees(id, a), a references employees(id); a is unique
Employees        == {"employees"}
EmployeesCols    == [t \in Employees |-> {a}]
EmployeesNone    == None(Employees)
EmployeesArity   == Single(Employees)
EmployeesTargets == Employees \X Ids
EmployeesUnique  == {Uq("uq_a", "employees", a)}
EmployeesCascade == {Fk("employees", a, "employees", "cascade")}

\* users(id, a) and staff(id, a), each with a unique constraint of the
\* default name
Staffed        == {"users", "staff"}
StaffedCols    == [t \in Staffed |-> {a}]
StaffedNone    == None(Staffed)
StaffedArity   == Single(Staffed)
StaffedTargets == Staffed \X Ids
StaffedUnique  == {Uq("uq_a", "users", a), Uq("uq_a", "staff", a)}
=============================================================================
