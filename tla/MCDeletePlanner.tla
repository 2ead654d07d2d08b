---------------------------- MODULE MCDeletePlanner ----------------------------
(***************************************************************************)
(* customers, orders(a, b, c) and items(a, b), with two rows each.  Orders  *)
(* of a customer cascade by a and are set null by b; an order may belong to *)
(* another order by c, so that two branches meet in one row and cascades    *)
(* run in cycles; items cascade from their order by a and restrict the      *)
(* delete of the customer in b.                                            *)
(***************************************************************************)
EXTENDS DeletePlanner

CONSTANTS a, b, c, i1, i2   \* columns and ids

Fk(t, col, parent, what) ==
  [child |-> t, col |-> col, parent |-> parent, action |-> what]

Shop      == {"customers", "orders", "items"}
ShopIds   == {i1, i2}
ShopCols  == [t \in Shop |-> CASE t = "customers" -> {}
                               [] t = "orders" -> {a, b, c}
                               [] t = "items" -> {a, b}]
ShopNone  == [t \in Shop |-> {}]
ShopArity == [t \in Shop |-> 1]
ShopOrder == <<Fk("orders", a, "customers", "cascade"),
               Fk("orders", b, "customers", "set_null"),
               Fk("orders", c, "orders", "cascade"),
               Fk("items", a, "orders", "cascade"),
               Fk("items", b, "customers", "restrict")>>
ShopFKs   == Range(ShopOrder)
FkPlaces  == [f \in ShopFKs |-> CHOOSE i \in DOMAIN ShopOrder : ShopOrder[i] = f]
ShopRows  == <<<<"customers", i1>>, <<"customers", i2>>, <<"orders", i1>>,
               <<"orders", i2>>, <<"items", i1>>, <<"items", i2>>>>
RowPlaces == [x \in Range(ShopRows) |-> CHOOSE i \in DOMAIN ShopRows : ShopRows[i] = x]
=============================================================================
