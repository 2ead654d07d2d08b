----------------------------- MODULE DeletePlanner -----------------------------
(***************************************************************************)
(* The search that plans a delete: plan_delete and plan_delete_recursive of *)
(* crates/mongreldb-kit-core/src/planner.rs, over the children that         *)
(* find_children of txn.rs returns.  A depth-first search that keeps one    *)
(* plan for all branches, skips rows it has finished and discards what a    *)
(* restricted branch collected.  The calls that are not over are `stack';   *)
(* one step is one pass of the innermost loop, or a return.  Module         *)
(* DeletePlan says what the plan should hold.                              *)
(***************************************************************************)
EXTENDS DeletePlan, Sequences, FiniteSetsExt, Functions

CONSTANTS
  FkOrder,   \* the place of each foreign key in the schema
  RowOrder   \* the place of each row in a scan of its table

ASSUME PlannerAssumption ==
  /\ FkOrder \in [FKs -> Nat] /\ IsInjective(FkOrder)
  /\ RowOrder \in [RowIds -> Nat] /\ IsInjective(RowOrder)

VARIABLES
  db,     \* the tables the plan is made for
  row,    \* the row to delete, NoRow before the call
  stack,  \* the calls of plan_delete_recursive under way, the path
  plan    \* the DeletePlan

vars == <<db, row, stack, plan>>

Empty == [delete     |-> <<>>,    \* rows, children first
          setNull    |-> <<>>,    \* <<foreign key, row>> to set null
          restricted |-> <<>>,    \* constraints that forbid the delete
          deleted    |-> {},      \* rows finished
          circular   |-> FALSE]   \* PlannerError::CircularDelete

\* The order of the loops.
Earlier(g, h) == \/ FkOrder[g[1]] < FkOrder[h[1]]
                 \/ g[1] = h[1] /\ RowOrder[g[2]] < RowOrder[h[2]]

\* Mutant: one child of each foreign key.
FirstChildren(x) ==
  LET all == {h \in FKs \X RowIds : RefersTo(db, h[1], h[2], x)}
  IN  {h \in all : \A g \in all : g[1] = h[1] => ~Earlier(g, h)}

\* find_children of every foreign key to x's table: <<f, child>>.
Children(x) == {h \in FKs \X RowIds : RefersTo(db, h[1], h[2], x)}

\* The call for row x: the children to come, whether one of those before
\* restricts, and the plan as it was.
Call(x) == [row |-> x, todo |-> Children(x), restricted |-> FALSE,
            deletes |-> Len(plan.delete), nulls |-> Len(plan.setNull)]

Top == stack[Len(stack)]

\* Mutant: the path holds tables, not rows.
OnPathTable(x) == \E k \in DOMAIN stack : stack[k].row[1] = x[1]
OnPath(x) == \E k \in DOMAIN stack : stack[k].row = x

-----------------------------------------------------------------------------
\* Every content of the rows in S.
ContentsOf(S) ==
  FoldSet(LAMBDA x, fs : {[y \in {x} \cup DOMAIN f |-> IF y = x THEN r ELSE f[y]] :
                            f \in fs, r \in RowsOf(x[1]) \cup {NoRow}},
          {<<>>}, S)

\* The tables a program can be in: no reference dangles.
Init == /\ db \in ContentsOf(RowIds)
        /\ RowsValid(db)
        /\ ReferencesIntact(db)
        /\ row = NoRow
        /\ stack = <<>>
        /\ plan = Empty

\* plan_delete.
Plan(x) == /\ row = NoRow
           /\ db[x] # NoRow
           /\ row' = x
           /\ stack' = <<Call(x)>>
           /\ UNCHANGED <<db, plan>>

\* h is the next child of the row on top, in the order of the loops.
At(h) == /\ stack # <<>>
         /\ h \in Top.todo
         /\ \A g \in Top.todo : ~Earlier(g, h)

\* The row on top is past h.
Past(h, restricts) == [stack EXCEPT
  ![Len(stack)].todo = @ \ {h}, ![Len(stack)].restricted = @ \/ restricts]

Restricts(h) == /\ At(h) /\ h[1].action = "restrict"
                /\ plan' = [plan EXCEPT !.restricted = Append(@, h[1])]
                /\ stack' = Past(h, TRUE)
                /\ UNCHANGED <<db, row>>

SetsNull(h) == /\ At(h) /\ h[1].action = "set_null"
               /\ plan' = [plan EXCEPT !.setNull = Append(@, h)]
               /\ stack' = Past(h, FALSE)
               /\ UNCHANGED <<db, row>>

Cascades(h) == At(h) /\ h[1].action = "cascade"

\* A cascading child: deleted already, on the path (an error that ends every
\* call), or visited.
Skip(h) == /\ Cascades(h) /\ h[2] \in plan.deleted
           /\ stack' = Past(h, FALSE)
           /\ UNCHANGED <<db, row, plan>>

Fail(h) == /\ Cascades(h) /\ h[2] \notin plan.deleted /\ OnPath(h[2])
           /\ plan' = [plan EXCEPT !.circular = TRUE]
           /\ stack' = <<>>
           /\ UNCHANGED <<db, row>>

Descend(h) == /\ Cascades(h) /\ h[2] \notin plan.deleted /\ ~OnPath(h[2])
              /\ stack' = Append(Past(h, FALSE), Call(h[2]))
              /\ UNCHANGED <<db, row, plan>>

\* A restricted call takes back what was appended, not what was finished.
Discard(p, call) == [p EXCEPT !.delete  = SubSeq(@, 1, call.deletes),
                              !.setNull = SubSeq(@, 1, call.nulls)]

\* Mutant: parents come before children.
Prepended(p, x) == [p EXCEPT !.delete = <<x>> \o @, !.deleted = @ \cup {x}]
Done(p, x) == [p EXCEPT !.delete = Append(@, x), !.deleted = @ \cup {x}]

\* The call on top is over; its caller learns whether it was restricted.
Return ==
  /\ stack # <<>> /\ Top.todo = {}
  /\ plan' = IF Top.restricted THEN Discard(plan, Top) ELSE Done(plan, Top.row)
  /\ stack' = [k \in 1..(Len(stack) - 1) |->
       [stack[k] EXCEPT !.restricted = @ \/ (Top.restricted /\ k = Len(stack) - 1)]]
  /\ UNCHANGED <<db, row>>

Visit(h) == Restricts(h) \/ SetsNull(h) \/ Skip(h) \/ Fail(h) \/ Descend(h)

Next == \/ \E x \in RowIds : Plan(x)
        \/ \E h \in FKs \X RowIds : Visit(h)
        \/ Return

Spec == Init /\ [][Next]_vars

-----------------------------------------------------------------------------
Ended   == row # NoRow /\ stack = <<>>
Planned == Ended /\ ~plan.circular

\* Every cycle of cascading references is reported, and nothing else is taken
\* for one: a row two branches share is no cycle.
CyclesAreReported == Ended => (plan.circular <=> Circular(References(db), row))

\* An unrestricted plan deletes each row the delete reaches once, and cuts
\* exactly the set-null references to them; it is restricted just when a
\* restricting reference to one of them exists.
PlanIsComplete ==
  LET refs == References(db)
  IN  Planned =>
        /\ (plan.restricted # <<>>) <=> Restricted(refs, row)
        /\ plan.restricted = <<>> =>
             /\ IsInjective(plan.delete)
             /\ Range(plan.delete) = Reach(refs, row)
             /\ Range(plan.setNull) = {<<h[1], h[3]>> : h \in Cut(refs, row)}

\* Rows are deleted after the rows that refer to them (DeletePlan.delete,
\* "children first").
ChildrenFirst ==
  Planned =>
    \A i, j \in DOMAIN plan.delete : \A h \in By(References(db), "cascade") :
      h[2] = plan.delete[i] /\ h[3] = plan.delete[j] => j < i
=============================================================================
