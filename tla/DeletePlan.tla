------------------------------ MODULE DeletePlan ------------------------------
(***************************************************************************)
(* What a delete of one row does to the rows that refer to it: the plan of  *)
(* crates/mongreldb-kit-core/src/planner.rs, stated by what it contains.    *)
(* The recursive search that computes it is module DeletePlanner, which     *)
(* checks that the two agree.                                              *)
(*                                                                         *)
(* Every operator takes the tables it reads, db, and the edges the search   *)
(* can follow, so that the abstract store (all references) and the Kit (the *)
(* references find_children sees) share them.                              *)
(***************************************************************************)
EXTENDS KitSchema

\* <<f, y, x>>: the child row x refers to the row y by the foreign key f.
References(db) ==
  UNION {{<<f, <<f.parent, db[x][f.col]>>, x>> :
            x \in {z \in RowIds : z[1] = f.child /\ db[z] # NoRow
                                  /\ db[z][f.col] # Null}} : f \in FKs}

By(refs, action) == {r \in refs : r[1].action = action}

\* The rows reached from x by cascading references, x included: the members
\* of every set that holds x and is closed under the references.
Reach(refs, x) ==
  LET hops == By(refs, "cascade")
      rows == {x} \cup {h[3] : h \in hops}
  IN  {y \in rows : \A S \in SUBSET rows :
         (x \in S /\ \A h \in hops : h[2] \in S => h[3] \in S) => y \in S}

\* A restricting reference to a row that would go.
Restricted(refs, x) == \E r \in By(refs, "restrict") : r[2] \in Reach(refs, x)

\* The search comes back to a row it has not finished.
Circular(refs, x) ==
  \E y \in Reach(refs, x), h \in By(refs, "cascade") :
    h[2] = y /\ y \in Reach(refs, h[3])

\* The set-null updates of the plan, as references to cut.
Cut(refs, x) == {r \in By(refs, "set_null") : r[2] \in Reach(refs, x)}
=============================================================================
