--------------------------- MODULE DeletePlannerProofs ---------------------------
(***************************************************************************)
(* For every schema, database without dangling rows and row to delete: the  *)
(* plan of DeletePlanner is the one DeletePlan describes.                   *)
(***************************************************************************)
EXTENDS DeletePlanner, TLAPS

\* The database does not change: what is said of it takes it as an argument.
Kids(d, x)  == {h \in FKs \X RowIds : RefersTo(d, h[1], h[2], x)}
Hops(d)     == By(References(d), "cascade")
Reached(d, x) == Reach(References(d), x)
Cyclic(d, x)  == Circular(References(d), x)

-----------------------------------------------------------------------------
(* The inductive invariant. *)

Calls == [row : RowIds, todo : SUBSET (FKs \X RowIds), restricted : BOOLEAN,
          deletes : Nat, nulls : Nat]
Plans == [delete : Seq(RowIds), setNull : Seq(FKs \X RowIds), restricted : Seq(FKs),
          deleted : SUBSET RowIds, circular : BOOLEAN]

TypeInv ==
  /\ RowsValid(db)
  /\ row \in RowIds \cup {NoRow}
  /\ stack \in Seq(Calls)
  /\ plan \in Plans
  /\ row = NoRow => stack = <<>> /\ plan = Empty

\* The rows of the calls under way are a path of cascading references from
\* the row to delete; no row is on it twice, and none is finished.
PathInv ==
  /\ stack # <<>> => stack[1].row = row
  /\ \A k \in DOMAIN stack : /\ stack[k].row \notin plan.deleted
                             /\ stack[k].todo \subseteq Kids(db, stack[k].row)
  /\ \A j, k \in DOMAIN stack :
       /\ j <= k => stack[k].row \in Reached(db, stack[j].row)
       /\ j # k => stack[j].row # stack[k].row

\* A call takes back nothing its callers rely on.
LengthInv ==
  /\ \A k \in DOMAIN stack : /\ stack[k].deletes <= Len(plan.delete)
                             /\ stack[k].nulls <= Len(plan.setNull)
  /\ \A j, k \in DOMAIN stack : j <= k => /\ stack[j].deletes <= stack[k].deletes
                                          /\ stack[j].nulls <= stack[k].nulls

Cuts(h) == h \in Range(plan.setNull) \/ plan.restricted # <<>>

\* What a call knows of the children it is past.
PassedInv ==
  \A k \in DOMAIN stack : \A h \in Kids(db, stack[k].row) \ stack[k].todo :
    /\ h[1].action = "restrict" => stack[k].restricted
    /\ h[1].action = "set_null" => Cuts(h)
    /\ h[1].action = "cascade" =>
         \/ k < Len(stack) /\ h[2] = stack[k + 1].row
         \/ ~Cyclic(db, h[2]) /\ (h[2] \in plan.deleted \/ stack[k].restricted)

\* What is known of a row that is finished.
FinishedInv ==
  \A y \in plan.deleted :
    /\ y \in Reached(db, row) /\ ~Cyclic(db, y)
    /\ \A h \in Kids(db, y) :
         /\ h[1].action # "restrict"
         /\ h[1].action = "set_null" => Cuts(h)
         /\ h[1].action = "cascade" => h[2] \in plan.deleted

Ordered(d, list) ==
  \A i, j \in DOMAIN list : \A h \in Kids(d, list[i]) :
    h[1].action = "cascade" /\ h[2] = list[j] => j < i

ListsInv ==
  /\ Range(plan.delete) \subseteq plan.deleted
  /\ IsInjective(plan.delete)
  /\ Ordered(db, plan.delete)
  /\ plan.restricted = <<>> => plan.deleted \subseteq Range(plan.delete)
  /\ \A h \in Range(plan.setNull) :
       h[1].action = "set_null" /\ \E x \in Reached(db, row) : h \in Kids(db, x)
  /\ plan.restricted # <<>> => Restricted(References(db), row)
  /\ \A k \in DOMAIN stack : stack[k].restricted => plan.restricted # <<>>

EndInv ==
  /\ plan.circular => stack = <<>> /\ row # NoRow /\ Cyclic(db, row)
  /\ Planned => ~Cyclic(db, row) /\ (row \in plan.deleted \/ plan.restricted # <<>>)

PlannerInv == TypeInv /\ PathInv /\ LengthInv /\ PassedInv /\ FinishedInv /\ ListsInv /\ EndInv
-----------------------------------------------------------------------------
(* What a delete reaches. *)

LEMMA ReachSelf ==
  ASSUME NEW refs, NEW x
  PROVE  x \in Reach(refs, x)
BY DEF Reach

LEMMA ReachHop ==
  ASSUME NEW refs, NEW x, NEW h \in By(refs, "cascade"), h[2] \in Reach(refs, x)
  PROVE  h[3] \in Reach(refs, x)
<1> DEFINE rows == {x} \cup {g[3] : g \in By(refs, "cascade")}
<1>1. h[3] \in rows
  OBVIOUS
<1>2. ASSUME NEW S \in SUBSET rows, x \in S,
             \A g \in By(refs, "cascade") : g[2] \in S => g[3] \in S
      PROVE  h[3] \in S
  <2>1. h[2] \in S
    BY <1>2 DEF Reach
  <2> QED BY <1>2, <2>1
<1> QED BY <1>1, <1>2 DEF Reach

\* Every set that holds x and is closed under the references holds what the
\* delete of x reaches.
LEMMA ReachLeast ==
  ASSUME NEW refs, NEW x, NEW S, x \in S,
         \A h \in By(refs, "cascade") : h[2] \in S => h[3] \in S
  PROVE  Reach(refs, x) \subseteq S
<1> DEFINE rows == {x} \cup {g[3] : g \in By(refs, "cascade")}
           C    == S \cap rows
<1>1. C \in SUBSET rows /\ x \in C
  OBVIOUS
<1>2. \A h \in By(refs, "cascade") : h[2] \in C => h[3] \in C
  OBVIOUS
<1>3. \A y \in Reach(refs, x) : y \in C
  BY <1>1, <1>2 DEF Reach
<1> QED BY <1>3

LEMMA ReachTrans ==
  ASSUME NEW refs, NEW x, NEW y \in Reach(refs, x)
  PROVE  Reach(refs, y) \subseteq Reach(refs, x)
<1>1. \A h \in By(refs, "cascade") : h[2] \in Reach(refs, x) => h[3] \in Reach(refs, x)
  BY ReachHop
<1> QED BY <1>1, ReachLeast

\* What is reached from x but x itself is reached from a row that refers to x.
LEMMA ReachSplit ==
  ASSUME NEW refs, NEW x, NEW z \in Reach(refs, x), z # x
  PROVE  \E h \in By(refs, "cascade") : h[2] = x /\ z \in Reach(refs, h[3])
<1> DEFINE hops == {h \in By(refs, "cascade") : h[2] = x}
           S    == {x} \cup UNION {Reach(refs, h[3]) : h \in hops}
<1>1. ASSUME NEW g \in By(refs, "cascade"), g[2] \in S
      PROVE  g[3] \in S
  <2>1. CASE g[2] = x
    <3>1. g \in hops /\ g[3] \in Reach(refs, g[3])
      BY <2>1, ReachSelf
    <3> QED BY <3>1
  <2>2. CASE \E h \in hops : g[2] \in Reach(refs, h[3])
    <3>1. PICK h \in hops : g[2] \in Reach(refs, h[3])
      BY <2>2
    <3>2. g[3] \in Reach(refs, h[3])
      BY <3>1, ReachHop
    <3> QED BY <3>2
  <2> QED BY <1>1, <2>1, <2>2
<1>2. z \in S
  <2>1. x \in S
    OBVIOUS
  <2> HIDE DEF S
  <2> QED BY <1>1, <2>1, ReachLeast
<1> QED BY <1>2

\* A row lies on or above a cycle only if a row that refers to it does.
LEMMA CyclesBelow ==
  ASSUME NEW refs, NEW x,
         \A h \in By(refs, "cascade") : h[2] = x => ~Circular(refs, h[3])
  PROVE  ~Circular(refs, x)
<1>1. SUFFICES ASSUME NEW z \in Reach(refs, x), NEW h \in By(refs, "cascade"),
                      h[2] = z, z \in Reach(refs, h[3])
               PROVE  FALSE
  BY DEF Circular
<1>2. CASE z = x
  BY <1>1, <1>2 DEF Circular
<1>3. CASE z # x
  <2>1. PICK g \in By(refs, "cascade") : g[2] = x /\ z \in Reach(refs, g[3])
    BY <1>3, ReachSplit
  <2>2. Circular(refs, g[3])
    BY <1>1, <2>1 DEF Circular
  <2> QED BY <2>1, <2>2
<1> QED BY <1>2, <1>3

-----------------------------------------------------------------------------
(* References and the children find_children returns. *)

LEMMA KidsAreReferences ==
  ASSUME NEW d, RowsValid(d), NEW x \in RowIds, NEW f \in FKs, NEW y \in RowIds
  PROVE  <<f, y>> \in Kids(d, x) <=> <<f, x, y>> \in References(d)
<1>1. Null \notin Ids /\ x = <<x[1], x[2]>> /\ x[2] \in Ids /\ f.parent \in Tables
  BY KitSchemaAssumption DEF SchemaAssumption, RowIds
<1>2. <<f, y>> \in Kids(d, x) <=> RefersTo(d, f, y, x)
  BY DEF Kids
<1>3. ASSUME RefersTo(d, f, y, x)
      PROVE  <<f, x, y>> \in References(d)
  <2>1. y[1] = f.child /\ d[y] # NoRow /\ d[y][f.col] # Null
    BY <1>1, <1>3 DEF RefersTo
  <2>2. x = <<f.parent, d[y][f.col]>>
    BY <1>1, <1>3 DEF RefersTo
  <2> QED BY <2>1, <2>2 DEF References
<1>4. ASSUME <<f, x, y>> \in References(d)
      PROVE  RefersTo(d, f, y, x)
  <2>1. y[1] = f.child /\ d[y] # NoRow /\ x = <<f.parent, d[y][f.col]>>
    BY <1>4 DEF References
  <2> QED BY <2>1 DEF RefersTo
<1> QED BY <1>2, <1>3, <1>4

LEMMA ReferencesAre ==
  ASSUME NEW d, RowsValid(d), NEW r \in References(d)
  PROVE  /\ r[1] \in FKs /\ r[2] \in RowIds /\ r[3] \in RowIds
         /\ r = <<r[1], r[2], r[3]>>
         /\ <<r[1], r[3]>> \in Kids(d, r[2])
<1>1. PICK f \in FKs : \E x \in {z \in RowIds : z[1] = f.child /\ d[z] # NoRow /\ d[z][f.col] # Null} :
                          r = <<f, <<f.parent, d[x][f.col]>>, x>>
  BY DEF References
<1>2. PICK x \in RowIds : /\ x[1] = f.child /\ d[x] # NoRow /\ d[x][f.col] # Null
                          /\ r = <<f, <<f.parent, d[x][f.col]>>, x>>
  BY <1>1
<1>3. f.parent \in Tables /\ f.col \in ColsOf[f.child] /\ d[x] \in RowsOf(x[1])
  BY <1>2, KitSchemaAssumption DEF SchemaAssumption, RowsValid
<1>4. d[x][f.col] \in Ids
  BY <1>2, <1>3 DEF RowsOf
<1>5. r[1] \in FKs /\ r[2] \in RowIds /\ r[3] \in RowIds /\ r = <<r[1], r[2], r[3]>>
  BY <1>2, <1>3, <1>4 DEF RowIds
<1> QED BY <1>5, KidsAreReferences

\* A cascading child is a hop, and a hop to a row's child is one of its kids.
LEMMA HopsAre ==
  ASSUME NEW d, RowsValid(d)
  PROVE  /\ \A x \in RowIds : \A h \in Kids(d, x) :
              /\ h[1] \in FKs /\ h[2] \in RowIds /\ h = <<h[1], h[2]>>
              /\ <<h[1], x, h[2]>> \in References(d)
              /\ h[1].action = "cascade" => <<h[1], x, h[2]>> \in By(References(d), "cascade")
         /\ \A r \in References(d) :
              /\ r[2] \in RowIds /\ r[3] \in RowIds /\ <<r[1], r[3]>> \in Kids(d, r[2])
         /\ \A a : \A r \in By(References(d), a) : r \in References(d) /\ r[1].action = a
<1>1. ASSUME NEW x \in RowIds, NEW h \in Kids(d, x)
      PROVE  /\ h[1] \in FKs /\ h[2] \in RowIds /\ h = <<h[1], h[2]>>
             /\ <<h[1], x, h[2]>> \in References(d)
             /\ h[1].action = "cascade" => <<h[1], x, h[2]>> \in By(References(d), "cascade")
  <2>1. h[1] \in FKs /\ h[2] \in RowIds /\ h = <<h[1], h[2]>>
    BY <1>1 DEF Kids
  <2>2. <<h[1], x, h[2]>> \in References(d)
    BY <1>1, <2>1, KidsAreReferences
  <2> QED BY <2>1, <2>2 DEF By
<1>2. \A r \in References(d) :
         /\ r[2] \in RowIds /\ r[3] \in RowIds /\ <<r[1], r[3]>> \in Kids(d, r[2])
  BY ReferencesAre
<1> QED BY <1>1, <1>2 DEF By

LEMMA KidsReached ==
  ASSUME NEW d, RowsValid(d), NEW x, NEW y \in RowIds, y \in Reached(d, x),
         NEW h \in Kids(d, y), h[1].action = "cascade"
  PROVE  h[2] \in Reached(d, x)
<1>1. <<h[1], y, h[2]>> \in By(References(d), "cascade")
  BY HopsAre
<1> DEFINE r == <<h[1], y, h[2]>>
<1>2. r[3] \in Reach(References(d), x)
  BY <1>1, ReachHop DEF Reached
<1> QED BY <1>2 DEF Reached

\* A row all of whose cascading children are on no cycle is on none.
LEMMA KidsCyclic ==
  ASSUME NEW d, RowsValid(d), NEW x \in RowIds,
         \A h \in Kids(d, x) : h[1].action = "cascade" => ~Cyclic(d, h[2])
  PROVE  ~Cyclic(d, x)
<1>1. ASSUME NEW r \in By(References(d), "cascade"), r[2] = x
      PROVE  ~Circular(References(d), r[3])
  <2>1. <<r[1], r[3]>> \in Kids(d, x) /\ r[1].action = "cascade"
    BY <1>1, HopsAre
  <2> QED BY <2>1 DEF Cyclic
<1> QED BY <1>1, CyclesBelow DEF Cyclic

-----------------------------------------------------------------------------
(* Calls and lists. *)

LEMMA StackFacts ==
  ASSUME TypeInv
  PROVE  /\ Len(stack) \in Nat /\ DOMAIN stack = 1..Len(stack)
         /\ stack # <<>> <=> Len(stack) # 0
         /\ \A k \in DOMAIN stack :
              /\ stack[k] \in Calls
              /\ stack[k].row \in RowIds /\ stack[k].restricted \in BOOLEAN
              /\ stack[k].deletes \in Nat /\ stack[k].nulls \in Nat
         /\ stack # <<>> => Len(stack) \in DOMAIN stack /\ Top \in Calls /\ Top = stack[Len(stack)]
<1>1. stack \in Seq(Calls)
  BY DEF TypeInv
<1>2. Len(stack) \in Nat /\ DOMAIN stack = 1..Len(stack) /\ (stack # <<>> <=> Len(stack) # 0)
  BY <1>1
<1>3. \A k \in DOMAIN stack : stack[k] \in Calls
  BY <1>1, <1>2
<1> QED BY <1>2, <1>3 DEF Top, Calls

\* The row on top is one the delete reaches.
LEMMA TopReached ==
  ASSUME TypeInv, PathInv, stack # <<>>
  PROVE  Top.row \in RowIds /\ Top.row \in Reached(db, row) /\ row \in RowIds
<1>1. 1 \in DOMAIN stack /\ Len(stack) \in DOMAIN stack /\ 1 <= Len(stack)
  BY StackFacts
<1> QED BY <1>1, StackFacts DEF PathInv, Top

LEMMA PastFacts ==
  ASSUME TypeInv, NEW h, At(h), NEW r \in BOOLEAN, NEW s, s = Past(h, r)
  PROVE  /\ s \in Seq(Calls) /\ Len(s) = Len(stack) /\ DOMAIN s = DOMAIN stack
         /\ \A k \in DOMAIN stack :
              /\ s[k].row = stack[k].row
              /\ s[k].deletes = stack[k].deletes /\ s[k].nulls = stack[k].nulls
              /\ k # Len(stack) => s[k] = stack[k]
         /\ s[Len(stack)].todo = stack[Len(stack)].todo \ {h}
         /\ s[Len(stack)].restricted <=> stack[Len(stack)].restricted \/ r
<1> DEFINE n == Len(stack)
           c == [Top EXCEPT !.todo = @ \ {h}, !.restricted = @ \/ r]
<1>1. stack \in Seq(Calls) /\ n \in DOMAIN stack /\ Top \in Calls /\ Top = stack[n]
  BY StackFacts DEF TypeInv, At
<1>2. s = [stack EXCEPT ![n] = c]
  BY <1>1 DEF Past
<1>3. /\ c.row = Top.row /\ c.deletes = Top.deletes /\ c.nulls = Top.nulls
      /\ c.todo = Top.todo \ {h} /\ c.restricted = (Top.restricted \/ r)
  BY <1>1 DEF Calls
<1>4. c \in Calls
  BY <1>1 DEF Calls
<1>5. s \in Seq(Calls) /\ Len(s) = Len(stack) /\ DOMAIN s = DOMAIN stack
      /\ \A k \in DOMAIN stack : s[k] = IF k = n THEN c ELSE stack[k]
  BY <1>1, <1>2, <1>4
<1> QED BY <1>1, <1>3, <1>5

LEMMA AppendRange ==
  ASSUME NEW S, NEW s \in Seq(S), NEW e \in S
  PROVE  Append(s, e) \in Seq(S) /\ Range(Append(s, e)) = Range(s) \cup {e}
         /\ Len(Append(s, e)) = Len(s) + 1 /\ Append(s, e) # <<>>
         /\ \A i \in 1..Len(s) : Append(s, e)[i] = s[i]
         /\ Append(s, e)[Len(s) + 1] = e /\ DOMAIN Append(s, e) = 1..(Len(s) + 1)
<1>1. /\ Append(s, e) \in Seq(S) /\ Len(Append(s, e)) = Len(s) + 1 /\ Append(s, e) # <<>>
      /\ \A i \in 1..Len(s) : Append(s, e)[i] = s[i]
      /\ Append(s, e)[Len(s) + 1] = e /\ DOMAIN Append(s, e) = 1..(Len(s) + 1)
      /\ DOMAIN s = 1..Len(s) /\ Len(s) \in Nat
  OBVIOUS
<1>2. ASSUME NEW x \in Range(Append(s, e))
      PROVE  x \in Range(s) \cup {e}
  <2>1. PICK i \in 1..(Len(s) + 1) : x = Append(s, e)[i]
    BY <1>1, <1>2 DEF Range
  <2>2. CASE i = Len(s) + 1
    BY <1>1, <2>1, <2>2
  <2>3. CASE i \in 1..Len(s)
    BY <1>1, <2>1, <2>3 DEF Range
  <2> QED BY <1>1, <2>1, <2>2, <2>3
<1>3. ASSUME NEW x \in Range(s) \cup {e}
      PROVE  x \in Range(Append(s, e))
  <2>1. CASE x = e
    <3>1. Len(s) + 1 \in DOMAIN Append(s, e)
      BY <1>1
    <3> QED BY <1>1, <2>1, <3>1 DEF Range
  <2>2. CASE x \in Range(s)
    <3>1. PICK i \in 1..Len(s) : x = s[i]
      BY <1>1, <2>2 DEF Range
    <3>2. i \in DOMAIN Append(s, e) /\ Append(s, e)[i] = x
      BY <1>1, <3>1
    <3> QED BY <3>2 DEF Range
  <2> QED BY <1>3, <2>1, <2>2
<1> QED BY <1>1, <1>2, <1>3

LEMMA PrefixFacts ==
  ASSUME NEW S, NEW s \in Seq(S), NEW n \in Nat, n <= Len(s)
  PROVE  /\ SubSeq(s, 1, n) \in Seq(S) /\ Len(SubSeq(s, 1, n)) = n
         /\ DOMAIN SubSeq(s, 1, n) = 1..n /\ 1..n \subseteq DOMAIN s
         /\ \A i \in 1..n : SubSeq(s, 1, n)[i] = s[i]
         /\ Range(SubSeq(s, 1, n)) \subseteq Range(s)
<1>1. /\ SubSeq(s, 1, n) \in Seq(S) /\ Len(SubSeq(s, 1, n)) = n
      /\ DOMAIN SubSeq(s, 1, n) = 1..n /\ 1..n \subseteq DOMAIN s
      /\ \A i \in 1..n : SubSeq(s, 1, n)[i] = s[i]
  OBVIOUS
<1> QED BY <1>1 DEF Range

-----------------------------------------------------------------------------
(* Steps. *)

LEMMA InitPlanned ==
  ASSUME Init
  PROVE  PlannerInv
<1>1. stack = <<>> /\ plan = Empty /\ row = NoRow /\ RowsValid(db)
  BY DEF Init
<1>2. DOMAIN stack = {} /\ plan.deleted = {} /\ plan.restricted = <<>> /\ ~plan.circular
      /\ Range(plan.delete) = {} /\ Range(plan.setNull) = {} /\ DOMAIN plan.delete = {}
  BY <1>1 DEF Empty, Range
<1>3. TypeInv
  <2>1. plan \in Plans
    BY <1>1 DEF Plans, Empty
  <2> QED BY <1>1, <2>1 DEF TypeInv
<1>4. PathInv /\ LengthInv /\ PassedInv /\ FinishedInv
  BY <1>1, <1>2 DEF PathInv, LengthInv, PassedInv, FinishedInv
<1>5. ListsInv
  BY <1>2 DEF ListsInv, IsInjective, Ordered
<1>6. EndInv
  BY <1>1, <1>2 DEF EndInv, Planned, Ended
<1> QED BY <1>3, <1>4, <1>5, <1>6 DEF PlannerInv

LEMMA PlanKeeps ==
  ASSUME PlannerInv, NEW x \in RowIds, Plan(x)
  PROVE  PlannerInv'
<1>1. TypeInv /\ db' = db /\ plan' = plan /\ row' = x /\ plan = Empty /\ stack' = <<Call(x)>>
  BY DEF PlannerInv, Plan, TypeInv
<1>2. PICK c : c = Call(x)
  OBVIOUS
<1>3. /\ c \in Calls /\ c.row = x /\ c.todo = Kids(db, x) /\ c.restricted = FALSE
      /\ c.deletes = 0 /\ c.nulls = 0
  BY <1>1, <1>2 DEF Call, Calls, Kids, Children, Empty
<1>4. /\ stack' \in Seq(Calls) /\ Len(stack') = 1 /\ DOMAIN stack' = {1} /\ stack'[1] = c
      /\ stack' # <<>>
  BY <1>1, <1>2, <1>3
<1>5. /\ plan.deleted = {} /\ plan.restricted = <<>> /\ ~plan.circular
      /\ Range(plan.delete) = {} /\ Range(plan.setNull) = {} /\ DOMAIN plan.delete = {}
      /\ Len(plan.delete) = 0 /\ Len(plan.setNull) = 0
  BY <1>1 DEF Empty, Range
<1>6. x # NoRow
  BY KitSchemaAssumption DEF SchemaAssumption
<1>7. TypeInv'
  BY <1>1, <1>4, <1>6 DEF TypeInv
<1>8. PathInv'
  BY <1>1, <1>3, <1>4, <1>5, ReachSelf DEF PathInv, Reached
<1>9. LengthInv' /\ PassedInv' /\ FinishedInv'
  BY <1>1, <1>3, <1>4, <1>5 DEF LengthInv, PassedInv, FinishedInv
<1>10. ListsInv'
  BY <1>1, <1>3, <1>4, <1>5 DEF ListsInv, IsInjective, Ordered
<1>11. EndInv'
  BY <1>1, <1>4, <1>5 DEF EndInv, Planned, Ended
<1> QED BY <1>7, <1>8, <1>9, <1>10, <1>11 DEF PlannerInv

\* A pass of the loop that leaves the stack as it is but for the call on top,
\* whose child h it is past.
LEMMA PastKeeps ==
  ASSUME PlannerInv, NEW h, At(h), NEW r \in BOOLEAN, stack' = Past(h, r),
         db' = db, row' = row, plan' \in Plans,
         plan'.delete = plan.delete, plan'.deleted = plan.deleted,
         plan'.circular = plan.circular,
         Range(plan.setNull) \subseteq Range(plan'.setNull),
         Len(plan.setNull) <= Len(plan'.setNull),
         \A g \in Range(plan'.setNull) \ Range(plan.setNull) :
           g[1].action = "set_null" /\ g \in Kids(db, Top.row),
         plan.restricted # <<>> \/ r => plan'.restricted # <<>>,
         plan'.restricted # <<>> => Restricted(References(db), row),
         h[1].action = "restrict" => r,
         h[1].action = "set_null" => h \in Range(plan'.setNull),
         h[1].action = "cascade" => ~Cyclic(db, h[2]) /\ h[2] \in plan.deleted
  PROVE  PlannerInv'
<1> DEFINE n == Len(stack)
<1>1. /\ TypeInv /\ PathInv /\ LengthInv /\ PassedInv /\ FinishedInv /\ ListsInv /\ EndInv
      /\ stack # <<>>
  BY DEF PlannerInv, At
<1>2. /\ stack' \in Seq(Calls) /\ Len(stack') = Len(stack) /\ DOMAIN stack' = DOMAIN stack
      /\ \A k \in DOMAIN stack :
           /\ stack'[k].row = stack[k].row
           /\ stack'[k].deletes = stack[k].deletes /\ stack'[k].nulls = stack[k].nulls
           /\ k # Len(stack) => stack'[k] = stack[k]
      /\ stack'[Len(stack)].todo = stack[Len(stack)].todo \ {h}
      /\ stack'[Len(stack)].restricted <=> stack[Len(stack)].restricted \/ r
  BY <1>1, PastFacts
<1>3. /\ n \in Nat /\ n \in DOMAIN stack /\ DOMAIN stack = 1..n /\ n # 0
      /\ \A k \in DOMAIN stack : stack[k].restricted \in BOOLEAN
  BY <1>1, StackFacts
<1>4. stack' # <<>> /\ row # NoRow /\ ~plan.circular
  BY <1>1, <1>2, <1>3 DEF EndInv, TypeInv
<1>5. TypeInv'
  BY <1>1, <1>2, <1>4 DEF TypeInv
<1>6. PathInv'
  <2>1. DOMAIN stack' = DOMAIN stack /\ \A k \in DOMAIN stack : stack'[k].row = stack[k].row
    BY <1>2
  <2>2. \A k \in DOMAIN stack : stack'[k].todo \subseteq Kids(db, stack[k].row)
    BY <1>1, <1>2 DEF PathInv
  <2>3. stack'[1].row = row
    <3>1. 1 \in DOMAIN stack /\ stack[1].row = row
      BY <1>1, <1>3 DEF PathInv
    <3> QED BY <2>1, <3>1
  <2> QED BY <1>1, <2>1, <2>2, <2>3 DEF PathInv
<1>7. LengthInv'
  <2>1. \A k \in DOMAIN stack : stack[k].nulls <= Len(plan'.setNull)
    <3>1. Len(plan.setNull) \in Nat /\ Len(plan'.setNull) \in Nat
      BY <1>1 DEF TypeInv, Plans
    <3>2. \A k \in DOMAIN stack : stack[k].nulls \in Nat /\ stack[k].nulls <= Len(plan.setNull)
      BY <1>1, StackFacts DEF LengthInv
    <3> QED BY <3>1, <3>2
  <2>2. /\ DOMAIN stack' = DOMAIN stack
        /\ \A k \in DOMAIN stack : stack'[k].deletes = stack[k].deletes
        /\ \A k \in DOMAIN stack : stack'[k].nulls = stack[k].nulls
    BY <1>2
  <2> QED BY <1>1, <2>1, <2>2 DEF LengthInv
<1>8. \A g : Cuts(g) => Cuts(g)'
  BY DEF Cuts
<1>9. PassedInv'
  <2>1. ASSUME NEW k \in DOMAIN stack, NEW g \in Kids(db, stack[k].row) \ stack'[k].todo
        PROVE  /\ g[1].action = "restrict" => stack'[k].restricted
               /\ g[1].action = "set_null" => Cuts(g)'
               /\ g[1].action = "cascade" =>
                    \/ k < n /\ g[2] = stack[k + 1].row
                    \/ ~Cyclic(db, g[2]) /\ (g[2] \in plan.deleted \/ stack'[k].restricted)
    <3>1. CASE g \in stack[k].todo
      <4>1. g = h /\ k = n
        BY <1>2, <2>1, <3>1
      <4>2. stack'[k].restricted <=> stack[k].restricted \/ r
        BY <1>2, <4>1
      <4> QED BY <4>1, <4>2 DEF Cuts
    <3>2. CASE g \notin stack[k].todo
      <4>1. stack[k].restricted => stack'[k].restricted
        BY <1>2
      <4> QED BY <1>1, <1>8, <2>1, <3>2, <4>1 DEF PassedInv
    <3> QED BY <3>1, <3>2
  <2>2. ASSUME NEW k \in DOMAIN stack, k < n
        PROVE  stack'[k + 1].row = stack[k + 1].row
    <3>1. k + 1 \in DOMAIN stack
      BY <1>3, <2>2
    <3> QED BY <1>2, <3>1
  <2>3. SUFFICES ASSUME NEW k \in DOMAIN stack', NEW g \in Kids(db', stack'[k].row) \ stack'[k].todo
                 PROVE  /\ g[1].action = "restrict" => stack'[k].restricted
                        /\ g[1].action = "set_null" => Cuts(g)'
                        /\ g[1].action = "cascade" =>
                             \/ k < Len(stack') /\ g[2] = stack'[k + 1].row
                             \/ /\ ~Cyclic(db', g[2])
                                /\ g[2] \in plan'.deleted \/ stack'[k].restricted
    BY DEF PassedInv
  <2>4. k \in DOMAIN stack /\ g \in Kids(db, stack[k].row) \ stack'[k].todo
    BY <1>2, <2>3
  <2> QED BY <1>2, <2>1, <2>2, <2>4
<1>10. FinishedInv'
  BY <1>1, <1>8 DEF FinishedInv
<1>11. ListsInv'
  <2>1. \A g \in Range(plan'.setNull) :
          g[1].action = "set_null" /\ \E x \in Reached(db, row) : g \in Kids(db, x)
    BY <1>1, TopReached DEF ListsInv
  <2>2. ASSUME NEW k \in DOMAIN stack, stack'[k].restricted
        PROVE  plan'.restricted # <<>>
    BY <1>1, <1>2, <2>2 DEF ListsInv
  <2> QED BY <1>1, <1>2, <2>1, <2>2 DEF ListsInv
<1>12. EndInv'
  BY <1>4 DEF EndInv, Planned, Ended
<1> QED BY <1>5, <1>6, <1>7, <1>9, <1>10, <1>11, <1>12 DEF PlannerInv

LEMMA RestrictsKeeps ==
  ASSUME PlannerInv, NEW h \in FKs \X RowIds, Restricts(h)
  PROVE  PlannerInv'
<1>1. /\ TypeInv /\ PathInv /\ ListsInv /\ At(h) /\ h[1].action = "restrict" /\ stack # <<>>
      /\ stack' = Past(h, TRUE) /\ db' = db /\ row' = row
      /\ plan' = [plan EXCEPT !.restricted = Append(@, h[1])]
  BY DEF PlannerInv, Restricts, At
<1>2. plan \in Plans /\ plan.restricted \in Seq(FKs) /\ h[1] \in FKs
  BY <1>1 DEF TypeInv, Plans
<1>3. Append(plan.restricted, h[1]) \in Seq(FKs) /\ Append(plan.restricted, h[1]) # <<>>
  BY <1>2, AppendRange
<1>4. /\ plan' \in Plans /\ plan'.restricted # <<>>
      /\ plan'.delete = plan.delete /\ plan'.deleted = plan.deleted
      /\ plan'.circular = plan.circular /\ plan'.setNull = plan.setNull
  BY <1>1, <1>2, <1>3 DEF Plans
<1>5. Top.row \in RowIds /\ Top.row \in Reached(db, row)
  BY <1>1, TopReached
<1>6. h \in Kids(db, Top.row)
  BY <1>1, StackFacts DEF PathInv, At
<1>7. <<h[1], Top.row, h[2]>> \in By(References(db), "restrict")
  BY <1>1, <1>5, <1>6, HopsAre DEF By, TypeInv
<1> DEFINE g == <<h[1], Top.row, h[2]>>
<1>8. g \in By(References(db), "restrict") /\ g[2] \in Reach(References(db), row)
  BY <1>5, <1>7 DEF Reached
<1>9. Restricted(References(db), row)
  BY <1>8 DEF Restricted
<1>10. Len(plan.setNull) <= Len(plan'.setNull)
  BY <1>2, <1>4 DEF Plans
<1> QED BY <1>1, <1>4, <1>9, <1>10, PastKeeps

LEMMA SetsNullKeeps ==
  ASSUME PlannerInv, NEW h \in FKs \X RowIds, SetsNull(h)
  PROVE  PlannerInv'
<1>1. /\ TypeInv /\ PathInv /\ ListsInv /\ At(h) /\ h[1].action = "set_null" /\ stack # <<>>
      /\ stack' = Past(h, FALSE) /\ db' = db /\ row' = row
      /\ plan' = [plan EXCEPT !.setNull = Append(@, h)]
  BY DEF PlannerInv, SetsNull, At
<1>2. plan \in Plans /\ plan.setNull \in Seq(FKs \X RowIds)
  BY <1>1 DEF TypeInv, Plans
<1>3. /\ Append(plan.setNull, h) \in Seq(FKs \X RowIds)
      /\ Range(Append(plan.setNull, h)) = Range(plan.setNull) \cup {h}
      /\ Len(Append(plan.setNull, h)) = Len(plan.setNull) + 1
  BY <1>2, AppendRange
<1>4. /\ plan' \in Plans /\ plan'.setNull = Append(plan.setNull, h)
      /\ plan'.delete = plan.delete /\ plan'.deleted = plan.deleted
      /\ plan'.circular = plan.circular /\ plan'.restricted = plan.restricted
  BY <1>1, <1>2, <1>3 DEF Plans
<1>5. h \in Kids(db, Top.row)
  BY <1>1, StackFacts DEF PathInv, At
<1>6. Len(plan.setNull) <= Len(plan'.setNull)
  BY <1>2, <1>3, <1>4
<1>7. Range(plan'.setNull) = Range(plan.setNull) \cup {h}
  BY <1>3, <1>4
<1>8. plan'.restricted # <<>> => Restricted(References(db), row)
  BY <1>1, <1>4 DEF ListsInv
<1> QED BY <1>1, <1>4, <1>5, <1>6, <1>7, <1>8, PastKeeps

LEMMA SkipKeeps ==
  ASSUME PlannerInv, NEW h \in FKs \X RowIds, Skip(h)
  PROVE  PlannerInv'
<1>1. /\ TypeInv /\ FinishedInv /\ ListsInv /\ At(h) /\ h[1].action = "cascade"
      /\ h[2] \in plan.deleted
      /\ stack' = Past(h, FALSE) /\ db' = db /\ row' = row /\ plan' = plan
  BY DEF PlannerInv, Skip, Cascades
<1>2. plan' \in Plans /\ Len(plan.setNull) <= Len(plan'.setNull)
  BY <1>1 DEF TypeInv, Plans
<1>3. ~Cyclic(db, h[2])
  BY <1>1 DEF FinishedInv
<1>4. plan'.restricted # <<>> => Restricted(References(db), row)
  BY <1>1 DEF ListsInv
<1> QED BY <1>1, <1>2, <1>3, <1>4, PastKeeps

LEMMA FailKeeps ==
  ASSUME PlannerInv, NEW h \in FKs \X RowIds, Fail(h)
  PROVE  PlannerInv'
<1>1. /\ TypeInv /\ PathInv /\ FinishedInv /\ ListsInv /\ At(h) /\ h[1].action = "cascade"
      /\ stack # <<>> /\ OnPath(h[2])
      /\ stack' = <<>> /\ db' = db /\ row' = row /\ plan' = [plan EXCEPT !.circular = TRUE]
  BY DEF PlannerInv, Fail, Cascades, At
<1>2. /\ plan' \in Plans /\ plan'.circular = TRUE
      /\ plan'.delete = plan.delete /\ plan'.deleted = plan.deleted
      /\ plan'.restricted = plan.restricted /\ plan'.setNull = plan.setNull
  BY <1>1 DEF TypeInv, Plans
<1>3. DOMAIN stack' = {} /\ row # NoRow
  BY <1>1 DEF TypeInv
<1>4. PICK k \in DOMAIN stack : stack[k].row = h[2]
  BY <1>1 DEF OnPath
<1>5. k <= Len(stack) /\ Len(stack) \in DOMAIN stack
  BY <1>1, <1>4, StackFacts
<1>6. Top.row \in Reached(db, h[2]) /\ Top.row \in Reached(db, row) /\ Top.row \in RowIds
  BY <1>1, <1>4, <1>5, TopReached DEF PathInv, Top
<1>7. h \in Kids(db, Top.row)
  BY <1>1, StackFacts DEF PathInv, At
<1> DEFINE g == <<h[1], Top.row, h[2]>>
<1>8. g \in By(References(db), "cascade") /\ g[2] = Top.row /\ g[3] = h[2]
  BY <1>1, <1>6, <1>7, HopsAre DEF TypeInv
<1>9. Cyclic(db, row)
  BY <1>6, <1>8 DEF Cyclic, Circular, Reached
<1>10. TypeInv' /\ PathInv' /\ LengthInv' /\ PassedInv'
  <2>1. <<>> \in Seq(Calls)
    OBVIOUS
  <2> QED BY <1>1, <1>2, <1>3, <2>1 DEF TypeInv, PathInv, LengthInv, PassedInv
<1>11. FinishedInv'
  BY <1>1, <1>2 DEF FinishedInv, Cuts
<1>12. ListsInv'
  BY <1>1, <1>2, <1>3 DEF ListsInv
<1>13. EndInv'
  BY <1>1, <1>2, <1>3, <1>9 DEF EndInv, Planned, Ended
<1> QED BY <1>10, <1>11, <1>12, <1>13 DEF PlannerInv

LEMMA DescendKeeps ==
  ASSUME PlannerInv, NEW h \in FKs \X RowIds, Descend(h)
  PROVE  PlannerInv'
<1>1. /\ TypeInv /\ PathInv /\ LengthInv /\ PassedInv /\ FinishedInv /\ ListsInv /\ EndInv
      /\ At(h) /\ stack # <<>> /\ h[1].action = "cascade"
      /\ h[2] \notin plan.deleted /\ ~OnPath(h[2])
      /\ stack' = Append(Past(h, FALSE), Call(h[2]))
      /\ db' = db /\ row' = row /\ plan' = plan
  BY DEF PlannerInv, Descend, Cascades, At
<1>2. PICK n : n = Len(stack)
  OBVIOUS
<1>3. /\ n \in Nat /\ n \in DOMAIN stack /\ DOMAIN stack = 1..n /\ n # 0 /\ Top = stack[n]
  BY <1>1, <1>2, StackFacts
<1>4. PICK s : s = Past(h, FALSE)
  OBVIOUS
<1>5. /\ s \in Seq(Calls) /\ Len(s) = n /\ DOMAIN s = DOMAIN stack
      /\ \A k \in DOMAIN stack :
           /\ s[k].row = stack[k].row
           /\ s[k].deletes = stack[k].deletes /\ s[k].nulls = stack[k].nulls
           /\ k # n => s[k] = stack[k]
      /\ s[n].todo = stack[n].todo \ {h}
      /\ s[n].restricted <=> stack[n].restricted
  <2>1. PICK r \in BOOLEAN : r = FALSE
    OBVIOUS
  <2>2. s = Past(h, r)
    BY <1>4, <2>1
  <2>3. /\ s \in Seq(Calls) /\ Len(s) = Len(stack) /\ DOMAIN s = DOMAIN stack
        /\ \A k \in DOMAIN stack :
             /\ s[k].row = stack[k].row
             /\ s[k].deletes = stack[k].deletes /\ s[k].nulls = stack[k].nulls
             /\ k # Len(stack) => s[k] = stack[k]
        /\ s[Len(stack)].todo = stack[Len(stack)].todo \ {h}
    BY <1>1, <2>2, PastFacts
  <2>4. s[Len(stack)].restricted <=> stack[Len(stack)].restricted \/ r
    BY <1>1, <2>2, PastFacts
  <2>5. s[n].restricted <=> stack[n].restricted
    BY <1>2, <2>1, <2>4
  <2> QED BY <1>2, <2>3, <2>5
<1>6. PICK c : c = Call(h[2])
  OBVIOUS
<1>7. /\ c \in Calls /\ c.row = h[2] /\ c.todo = Kids(db, h[2]) /\ c.restricted = FALSE
      /\ c.deletes = Len(plan.delete) /\ c.nulls = Len(plan.setNull)
  BY <1>1, <1>6 DEF Call, Calls, Kids, Children, TypeInv, Plans
<1>8. /\ stack' \in Seq(Calls) /\ Len(stack') = n + 1 /\ DOMAIN stack' = 1..(n + 1)
      /\ stack' # <<>> /\ stack'[n + 1] = c
      /\ \A k \in 1..n : stack'[k] = s[k]
  <2>1. stack' = Append(s, c)
    BY <1>1, <1>4, <1>6
  <2>2. s \in Seq(Calls) /\ Len(s) = n /\ c \in Calls
    BY <1>5, <1>7
  <2>3. /\ Append(s, c) \in Seq(Calls) /\ Len(Append(s, c)) = Len(s) + 1 /\ Append(s, c) # <<>>
        /\ \A i \in 1..Len(s) : Append(s, c)[i] = s[i]
        /\ Append(s, c)[Len(s) + 1] = c /\ DOMAIN Append(s, c) = 1..(Len(s) + 1)
    BY <2>2, AppendRange
  <2> HIDE <1>5, <1>7
  <2> QED BY <2>1, <2>2, <2>3
<1>9. /\ \A k \in DOMAIN stack :
           /\ k \in DOMAIN stack' /\ stack'[k].row = stack[k].row
           /\ stack'[k].deletes = stack[k].deletes /\ stack'[k].nulls = stack[k].nulls
           /\ k # n => stack'[k] = stack[k]
           /\ stack'[k].restricted <=> stack[k].restricted
      /\ stack'[n].todo = stack[n].todo \ {h}
      /\ \A k \in DOMAIN stack' : k \in DOMAIN stack \/ k = n + 1
  BY <1>3, <1>5, <1>8
<1>10. row # NoRow /\ ~plan.circular
  BY <1>1 DEF EndInv, TypeInv
<1>11. TypeInv'
  BY <1>1, <1>8, <1>10 DEF TypeInv
<1>12. h \in Kids(db, stack[n].row) /\ stack[n].row \in RowIds
  BY <1>1, <1>2, <1>3, StackFacts DEF PathInv, At
<1>13. PathInv'
  <2>1. stack'[1].row = row
    <3>1. 1 \in DOMAIN stack
      BY <1>3
    <3>2. stack[1].row = row
      BY <1>1 DEF PathInv
    <3> QED BY <1>9, <3>1, <3>2
  <2>2. ASSUME NEW k \in DOMAIN stack'
        PROVE  stack'[k].row \notin plan.deleted /\ stack'[k].todo \subseteq Kids(db, stack'[k].row)
    <3>1. CASE k = n + 1
      BY <1>1, <1>7, <1>8, <3>1
    <3>2. CASE k = n
      BY <1>1, <1>3, <1>9, <3>2 DEF PathInv
    <3>3. CASE k \in DOMAIN stack /\ k # n
      BY <1>1, <1>9, <3>3 DEF PathInv
    <3> QED BY <1>9, <2>2, <3>1, <3>2, <3>3
  <2>3. \A k \in DOMAIN stack : stack[k].row # h[2]
    BY <1>1 DEF OnPath
  <2>4. ASSUME NEW j \in DOMAIN stack
        PROVE  h[2] \in Reached(db, stack[j].row)
    <3>1. j <= n
      BY <1>3
    <3>2. stack[n].row \in Reached(db, stack[j].row)
      BY <1>1, <1>3, <3>1 DEF PathInv
    <3> QED BY <1>1, <1>12, <3>2, KidsReached DEF TypeInv
  <2>5. ASSUME NEW j \in DOMAIN stack', NEW k \in DOMAIN stack'
        PROVE  /\ j <= k => stack'[k].row \in Reached(db, stack'[j].row)
               /\ j # k => stack'[j].row # stack'[k].row
    <3>1. CASE j = n + 1 /\ k = n + 1
      BY <1>8, <3>1, ReachSelf DEF Reached
    <3>2. CASE j = n + 1 /\ k \in DOMAIN stack
      <4>1. ~(j <= k)
        BY <1>3, <3>2
      <4> QED BY <1>7, <1>8, <1>9, <2>3, <3>2, <4>1
    <3>3. CASE j \in DOMAIN stack /\ k = n + 1
      BY <1>7, <1>8, <1>9, <2>3, <2>4, <3>3
    <3>4. CASE j \in DOMAIN stack /\ k \in DOMAIN stack
      <4>1. stack'[j].row = stack[j].row /\ stack'[k].row = stack[k].row
        BY <1>9, <3>4
      <4>2. /\ j <= k => stack[k].row \in Reached(db, stack[j].row)
            /\ j # k => stack[j].row # stack[k].row
        BY <1>1, <3>4 DEF PathInv
      <4> QED BY <4>1, <4>2
    <3> QED BY <1>9, <2>5, <3>1, <3>2, <3>3, <3>4
  <2> QED BY <1>1, <2>1, <2>2, <2>5 DEF PathInv
<1>14. LengthInv'
  <2>1. Len(plan.delete) \in Nat /\ Len(plan.setNull) \in Nat
    BY <1>1 DEF TypeInv, Plans
  <2>2. ASSUME NEW k \in DOMAIN stack'
        PROVE  stack'[k].deletes <= Len(plan.delete) /\ stack'[k].nulls <= Len(plan.setNull)
    <3>1. CASE k = n + 1
      BY <1>7, <1>8, <2>1, <3>1
    <3>2. CASE k \in DOMAIN stack
      BY <1>1, <1>9, <3>2 DEF LengthInv
    <3> QED BY <1>9, <2>2, <3>1, <3>2
  <2>3. ASSUME NEW j \in DOMAIN stack', NEW k \in DOMAIN stack', j <= k
        PROVE  stack'[j].deletes <= stack'[k].deletes /\ stack'[j].nulls <= stack'[k].nulls
    <3>1. CASE k = n + 1
      BY <1>7, <1>8, <2>2, <3>1
    <3>2. CASE k \in DOMAIN stack
      <4>1. j \in DOMAIN stack
        BY <1>3, <1>8, <2>3, <3>2
      <4> QED BY <1>1, <1>9, <2>3, <3>2, <4>1 DEF LengthInv
    <3> QED BY <1>9, <2>3, <3>1, <3>2
  <2> QED BY <1>1, <2>2, <2>3 DEF LengthInv
<1>15. \A g : Cuts(g) => Cuts(g)'
  BY <1>1 DEF Cuts
<1>16. PassedInv'
  <2> SUFFICES ASSUME NEW k \in DOMAIN stack', NEW g \in Kids(db', stack'[k].row) \ stack'[k].todo
               PROVE  /\ g[1].action = "restrict" => stack'[k].restricted
                      /\ g[1].action = "set_null" => Cuts(g)'
                      /\ g[1].action = "cascade" =>
                           \/ k < Len(stack') /\ g[2] = stack'[k + 1].row
                           \/ /\ ~Cyclic(db', g[2])
                              /\ g[2] \in plan'.deleted \/ stack'[k].restricted
    BY DEF PassedInv
  <2>1. CASE k = n + 1
    BY <1>1, <1>7, <1>8, <2>1
  <2>2. CASE k = n
    <3>1. g \in Kids(db, stack[n].row) /\ g \notin stack[n].todo \ {h}
      BY <1>1, <1>3, <1>9, <2>2
    <3>2. CASE g = h
      <4>1. k < Len(stack') /\ stack'[k + 1].row = h[2]
        BY <1>3, <1>7, <1>8, <2>2
      <4>2. g[1].action = "cascade" /\ g[2] = stack'[k + 1].row
        BY <1>1, <3>2, <4>1
      <4> QED BY <4>1, <4>2
    <3>3. CASE g # h
      <4>1. ~(n < Len(stack))
        BY <1>2, <1>3
      <4>2. g \in Kids(db, stack[n].row) \ stack[n].todo
        BY <3>1, <3>3
      <4>3. /\ g[1].action = "restrict" => stack[n].restricted
            /\ g[1].action = "set_null" => Cuts(g)
            /\ g[1].action = "cascade" =>
                 ~Cyclic(db, g[2]) /\ (g[2] \in plan.deleted \/ stack[n].restricted)
        BY <1>1, <1>3, <4>1, <4>2 DEF PassedInv
      <4>4. stack'[n].restricted <=> stack[n].restricted
        BY <1>3, <1>9
      <4> QED BY <1>1, <1>15, <2>2, <4>3, <4>4
    <3> QED BY <3>2, <3>3
  <2>3. CASE k \in DOMAIN stack /\ k # n
    <3>1. stack'[k] = stack[k] /\ k + 1 \in DOMAIN stack /\ k < n
      BY <1>3, <1>9, <2>3
    <3>2. stack'[k + 1].row = stack[k + 1].row /\ k < Len(stack) /\ k < Len(stack')
      BY <1>2, <1>3, <1>8, <1>9, <3>1
    <3> QED BY <1>1, <1>15, <2>3, <3>1, <3>2 DEF PassedInv
  <2> QED BY <1>9, <2>1, <2>2, <2>3
<1>17. FinishedInv'
  BY <1>1, <1>15 DEF FinishedInv
<1>18. ListsInv'
  <2>1. ASSUME NEW k \in DOMAIN stack', stack'[k].restricted
        PROVE  plan.restricted # <<>>
    BY <1>1, <1>7, <1>8, <1>9, <2>1 DEF ListsInv
  <2> QED BY <1>1, <2>1 DEF ListsInv
<1>19. EndInv'
  BY <1>1, <1>8, <1>10 DEF EndInv, Planned, Ended
<1> QED BY <1>11, <1>13, <1>14, <1>16, <1>17, <1>18, <1>19 DEF PlannerInv

LEMMA ReturnKeeps ==
  ASSUME PlannerInv, Return
  PROVE  PlannerInv'
<1>1. /\ TypeInv /\ PathInv /\ LengthInv /\ PassedInv /\ FinishedInv /\ ListsInv /\ EndInv
      /\ stack # <<>> /\ Top.todo = {} /\ db' = db /\ row' = row
      /\ plan' = IF Top.restricted THEN Discard(plan, Top) ELSE Done(plan, Top.row)
      /\ stack' = [k \in 1..(Len(stack) - 1) |->
            [stack[k] EXCEPT !.restricted = @ \/ (Top.restricted /\ k = Len(stack) - 1)]]
  BY DEF PlannerInv, Return
<1>2. PICK n : n = Len(stack)
  OBVIOUS
<1>3. /\ n \in Nat /\ n \in DOMAIN stack /\ DOMAIN stack = 1..n /\ n # 0 /\ Top = stack[n]
      /\ n - 1 \in Nat /\ 1..(n - 1) \subseteq DOMAIN stack
      /\ \A k \in DOMAIN stack : stack[k] \in Calls
  BY <1>1, <1>2, StackFacts
<1>4. \A k \in 1..(n - 1) :
         stack'[k] = [stack[k] EXCEPT !.restricted = @ \/ (Top.restricted /\ k = n - 1)]
  BY <1>1, <1>2
<1>5. \A k \in 1..(n - 1) :
         /\ stack'[k] \in Calls
         /\ stack'[k].row = stack[k].row /\ stack'[k].todo = stack[k].todo
         /\ stack'[k].deletes = stack[k].deletes /\ stack'[k].nulls = stack[k].nulls
         /\ stack[k].restricted => stack'[k].restricted
         /\ Top.restricted /\ k = n - 1 => stack'[k].restricted
         /\ stack'[k].restricted => stack[k].restricted \/ Top.restricted
  <2> SUFFICES ASSUME NEW k \in 1..(n - 1)
               PROVE  /\ stack'[k] \in Calls
                      /\ stack'[k].row = stack[k].row /\ stack'[k].todo = stack[k].todo
                      /\ stack'[k].deletes = stack[k].deletes /\ stack'[k].nulls = stack[k].nulls
                      /\ stack[k].restricted => stack'[k].restricted
                      /\ Top.restricted /\ k = n - 1 => stack'[k].restricted
                      /\ stack'[k].restricted => stack[k].restricted \/ Top.restricted
    OBVIOUS
  <2>1. stack[k] \in Calls /\ Top \in Calls
    BY <1>3
  <2>2. PICK b \in BOOLEAN : b = (stack[k].restricted \/ (Top.restricted /\ k = n - 1))
    BY <2>1 DEF Calls
  <2>3. stack'[k] = [stack[k] EXCEPT !.restricted = b]
    BY <1>4, <2>2
  <2>4. /\ stack'[k] \in Calls /\ stack'[k].restricted = b
        /\ stack'[k].row = stack[k].row /\ stack'[k].todo = stack[k].todo
        /\ stack'[k].deletes = stack[k].deletes /\ stack'[k].nulls = stack[k].nulls
    BY <2>1, <2>3 DEF Calls
  <2> QED BY <2>2, <2>4
<1>6. /\ DOMAIN stack' = 1..(n - 1) /\ stack' \in Seq(Calls) /\ Len(stack') = n - 1
  <2>1. DOMAIN stack' = 1..(n - 1)
    BY <1>1, <1>2
  <2>2. stack' = [k \in 1..(n - 1) |-> stack'[k]]
    BY <1>1, <1>2
  <2>3. stack' \in [1..(n - 1) -> Calls]
    BY <1>5, <2>1, <2>2
  <2> QED BY <1>3, <2>1, <2>3
<1>7. /\ plan \in Plans /\ plan.delete \in Seq(RowIds) /\ plan.setNull \in Seq(FKs \X RowIds)
      /\ ~plan.circular /\ row # NoRow
  BY <1>1 DEF TypeInv, EndInv, Plans
<1>8. PICK w : w = Top.row
  OBVIOUS
<1>9. /\ w \in RowIds /\ w \in Reached(db, row) /\ w \notin plan.deleted /\ stack[n].row = w
      /\ \A k \in 1..(n - 1) : stack[k].row # w
  <2>1. w \in RowIds /\ w \in Reached(db, row) /\ stack[n].row = w
    BY <1>1, <1>3, <1>8, TopReached
  <2>2. w \notin plan.deleted
    BY <1>1, <1>3, <2>1 DEF PathInv
  <2>3. ASSUME NEW k \in 1..(n - 1)
        PROVE  stack[k].row # w
    <3>1. k \in DOMAIN stack /\ k # n
      BY <1>3
    <3> QED BY <1>1, <1>3, <2>1, <3>1 DEF PathInv
  <2> QED BY <2>1, <2>2, <2>3
\* What the call that is over knows of all its children.
<1>10. \A g \in Kids(db, w) :
          /\ g[1].action = "restrict" => Top.restricted
          /\ g[1].action = "set_null" => Cuts(g)
          /\ g[1].action = "cascade" =>
               ~Cyclic(db, g[2]) /\ (g[2] \in plan.deleted \/ Top.restricted)
  <2>1. ~(n < Len(stack)) /\ stack[n].todo = {} /\ stack[n].row = w
    BY <1>1, <1>2, <1>3, <1>9
  <2>2. \A g \in Kids(db, w) : g \in Kids(db, stack[n].row) \ stack[n].todo
    BY <2>1
  <2> QED BY <1>1, <1>3, <2>1, <2>2 DEF PassedInv
<1>11. ~Cyclic(db, w)
  BY <1>1, <1>9, <1>10, KidsCyclic DEF TypeInv
<1>12. CASE Top.restricted
  <2>1. plan' = Discard(plan, Top) /\ Top \in Calls
    BY <1>1, <1>3, <1>12
  <2>2. /\ Top.deletes \in Nat /\ Top.deletes <= Len(plan.delete)
        /\ Top.nulls \in Nat /\ Top.nulls <= Len(plan.setNull)
    BY <1>1, <1>3, <2>1 DEF Calls, LengthInv
  <2>3. PICK ds : ds = SubSeq(plan.delete, 1, Top.deletes)
    OBVIOUS
  <2>4. PICK ns : ns = SubSeq(plan.setNull, 1, Top.nulls)
    OBVIOUS
  <2>5. /\ ds \in Seq(RowIds) /\ Len(ds) = Top.deletes /\ DOMAIN ds = 1..Top.deletes
        /\ 1..Top.deletes \subseteq DOMAIN plan.delete
        /\ \A i \in 1..Top.deletes : ds[i] = plan.delete[i]
        /\ Range(ds) \subseteq Range(plan.delete)
    BY <1>7, <2>2, <2>3, PrefixFacts
  <2>6. /\ ns \in Seq(FKs \X RowIds) /\ Len(ns) = Top.nulls /\ Range(ns) \subseteq Range(plan.setNull)
    BY <1>7, <2>2, <2>4, PrefixFacts
  <2>7. plan' = [plan EXCEPT !.delete = ds, !.setNull = ns]
    BY <2>1, <2>3, <2>4 DEF Discard
  <2>8. /\ plan' \in Plans /\ plan'.delete = ds /\ plan'.setNull = ns
        /\ plan'.restricted = plan.restricted /\ plan'.deleted = plan.deleted
        /\ plan'.circular = plan.circular
    BY <1>7, <2>5, <2>6, <2>7 DEF Plans
  <2>9. plan'.restricted # <<>> /\ \A g : Cuts(g)'
    BY <1>1, <1>3, <1>12, <2>8 DEF ListsInv, Cuts
  <2>10. TypeInv'
    BY <1>1, <1>6, <1>7, <2>8 DEF TypeInv
  <2>11. PathInv'
    <3>1. stack' # <<>> => stack'[1].row = row
      <4>1. stack' # <<>> => 1 \in 1..(n - 1)
        BY <1>3, <1>6
      <4> QED BY <1>1, <1>5, <4>1 DEF PathInv
    <3>2. \A k \in 1..(n - 1) :
            stack'[k].row \notin plan.deleted /\ stack'[k].todo \subseteq Kids(db, stack'[k].row)
      BY <1>1, <1>3, <1>5 DEF PathInv
    <3>3. ASSUME NEW j \in 1..(n - 1), NEW k \in 1..(n - 1)
          PROVE  /\ j <= k => stack'[k].row \in Reached(db, stack'[j].row)
                 /\ j # k => stack'[j].row # stack'[k].row
      BY <1>1, <1>3, <1>5 DEF PathInv
    <3>4. /\ DOMAIN stack' = 1..(n - 1) /\ plan'.deleted = plan.deleted
          /\ db' = db /\ row' = row
      BY <1>1, <1>6, <2>8
    <3>5. \A k \in DOMAIN stack' : /\ stack'[k].row \notin plan'.deleted
                                  /\ stack'[k].todo \subseteq Kids(db', stack'[k].row)
      BY <3>2, <3>4
    <3>6. \A j, k \in DOMAIN stack' :
            /\ j <= k => stack'[k].row \in Reached(db', stack'[j].row)
            /\ j # k => stack'[j].row # stack'[k].row
      BY <3>3, <3>4
    <3> QED BY <3>1, <3>4, <3>5, <3>6 DEF PathInv
  <2>12. LengthInv'
    <3>1. \A k \in 1..(n - 1) : stack[k].deletes <= Top.deletes /\ stack[k].nulls <= Top.nulls
      BY <1>1, <1>3 DEF LengthInv
    <3>2. ASSUME NEW j \in 1..(n - 1), NEW k \in 1..(n - 1), j <= k
          PROVE  stack[j].deletes <= stack[k].deletes /\ stack[j].nulls <= stack[k].nulls
      BY <1>1, <1>3, <3>2 DEF LengthInv
    <3> QED BY <1>5, <1>6, <2>5, <2>6, <2>8, <3>1, <3>2 DEF LengthInv
  <2>13. PassedInv'
    <3> SUFFICES ASSUME NEW k \in DOMAIN stack', NEW g \in Kids(db', stack'[k].row) \ stack'[k].todo
                 PROVE  /\ g[1].action = "restrict" => stack'[k].restricted
                        /\ g[1].action = "set_null" => Cuts(g)'
                        /\ g[1].action = "cascade" =>
                             \/ k < Len(stack') /\ g[2] = stack'[k + 1].row
                             \/ /\ ~Cyclic(db', g[2])
                                /\ g[2] \in plan'.deleted \/ stack'[k].restricted
      BY DEF PassedInv
    <3>1. k \in 1..(n - 1) /\ k \in DOMAIN stack /\ k + 1 \in DOMAIN stack
      BY <1>3, <1>6
    <3>2. /\ stack'[k].row = stack[k].row /\ stack'[k].todo = stack[k].todo
          /\ stack[k].restricted => stack'[k].restricted
      BY <1>5, <3>1
    <3>3. g \in Kids(db, stack[k].row) \ stack[k].todo
      BY <1>1, <3>2
    <3>4. /\ g[1].action = "restrict" => stack[k].restricted
          /\ g[1].action = "set_null" => Cuts(g)
          /\ g[1].action = "cascade" =>
               \/ k < Len(stack) /\ g[2] = stack[k + 1].row
               \/ ~Cyclic(db, g[2]) /\ (g[2] \in plan.deleted \/ stack[k].restricted)
      BY <1>1, <3>1, <3>3 DEF PassedInv
    <3>5. CASE g[1].action = "cascade" /\ g[2] = stack[k + 1].row
      <4>1. CASE k = n - 1
        <5>1. k + 1 = n
          BY <1>3, <4>1
        <5>2. g[2] = w
          BY <1>9, <3>5, <5>1
        <5>3. stack'[k].restricted
          BY <1>5, <1>12, <3>1, <4>1
        <5> QED BY <1>1, <1>11, <3>5, <5>2, <5>3
      <4>2. CASE k # n - 1
        <5>1. k + 1 \in 1..(n - 1)
          BY <1>3, <3>1, <4>2
        <5>2. k < Len(stack') /\ stack'[k + 1].row = stack[k + 1].row
          BY <1>3, <1>5, <1>6, <5>1
        <5> QED BY <3>5, <5>2
      <4> QED BY <4>1, <4>2
    <3>6. CASE ~(g[1].action = "cascade" /\ g[2] = stack[k + 1].row)
      BY <1>1, <2>8, <2>9, <3>2, <3>4, <3>6
    <3> QED BY <3>5, <3>6
  <2>14. FinishedInv'
    BY <1>1, <2>8, <2>9 DEF FinishedInv
  <2>15. ListsInv'
    <3>1. IsInjective(ds)
      BY <1>1, <2>5 DEF ListsInv, IsInjective
    <3>2. Ordered(db, ds)
      BY <1>1, <2>5 DEF ListsInv, Ordered
    <3>3. \A g \in Range(ns) :
            g[1].action = "set_null" /\ \E x \in Reached(db, row) : g \in Kids(db, x)
      BY <1>1, <2>6 DEF ListsInv
    <3>4. Range(ds) \subseteq plan.deleted /\ Restricted(References(db), row)
      BY <1>1, <2>5, <2>8, <2>9 DEF ListsInv
    <3> QED BY <1>1, <2>8, <2>9, <3>1, <3>2, <3>3, <3>4 DEF ListsInv
  <2>16. EndInv'
    <3>1. CASE stack' = <<>>
      <4>1. n = 1
        BY <1>3, <1>6, <3>1
      <4>2. w = row
        BY <1>1, <1>9, <4>1 DEF PathInv
      <4> QED BY <1>1, <1>7, <1>11, <2>8, <2>9, <4>2 DEF EndInv, Planned, Ended
    <3>2. CASE stack' # <<>>
      BY <1>7, <2>8, <3>2 DEF EndInv, Planned, Ended
    <3> QED BY <3>1, <3>2
  <2> QED BY <2>10, <2>11, <2>12, <2>13, <2>14, <2>15, <2>16 DEF PlannerInv
<1>13. CASE ~Top.restricted
  <2>1. plan' = Done(plan, w)
    BY <1>1, <1>8, <1>13
  <2>2. PICK m : m = Len(plan.delete)
    OBVIOUS
  <2>3. PICK ds : ds = Append(plan.delete, w)
    OBVIOUS
  <2>4. /\ m \in Nat /\ DOMAIN plan.delete = 1..m
        /\ ds \in Seq(RowIds) /\ Len(ds) = m + 1 /\ DOMAIN ds = 1..(m + 1)
        /\ Range(ds) = Range(plan.delete) \cup {w}
        /\ \A i \in 1..m : ds[i] = plan.delete[i]
        /\ ds[m + 1] = w
    BY <1>7, <1>9, <2>2, <2>3, AppendRange
  <2>5. plan' = [plan EXCEPT !.delete = ds, !.deleted = plan.deleted \cup {w}]
    BY <2>1, <2>3 DEF Done
  <2>6. /\ plan' \in Plans /\ plan'.delete = ds /\ plan'.deleted = plan.deleted \cup {w}
        /\ plan'.restricted = plan.restricted /\ plan'.setNull = plan.setNull
        /\ plan'.circular = plan.circular
    BY <1>7, <1>9, <2>4, <2>5 DEF Plans
  <2>7. \A g : Cuts(g) <=> Cuts(g)'
    BY <2>6 DEF Cuts
  <2>8. TypeInv'
    BY <1>1, <1>6, <1>7, <2>6 DEF TypeInv
  <2>9. PathInv'
    BY <1>1, <1>2, <1>3, <1>5, <1>6, <1>9, <2>6 DEF PathInv
  <2>10. LengthInv'
    <3>1. \A k \in 1..(n - 1) : /\ stack[k].deletes \in Nat /\ stack[k].deletes <= m
                                /\ stack[k].nulls <= Len(plan.setNull)
      BY <1>1, <1>3, <2>2 DEF LengthInv, Calls
    <3>2. ASSUME NEW j \in 1..(n - 1), NEW k \in 1..(n - 1), j <= k
          PROVE  stack[j].deletes <= stack[k].deletes /\ stack[j].nulls <= stack[k].nulls
      BY <1>1, <1>3, <3>2 DEF LengthInv
    <3>3. \A k \in 1..(n - 1) : stack[k].deletes <= m + 1
      BY <2>4, <3>1
    <3> QED BY <1>5, <1>6, <2>4, <2>6, <3>1, <3>2, <3>3 DEF LengthInv
  <2>11. PassedInv'
    <3> SUFFICES ASSUME NEW k \in DOMAIN stack', NEW g \in Kids(db', stack'[k].row) \ stack'[k].todo
                 PROVE  /\ g[1].action = "restrict" => stack'[k].restricted
                        /\ g[1].action = "set_null" => Cuts(g)'
                        /\ g[1].action = "cascade" =>
                             \/ k < Len(stack') /\ g[2] = stack'[k + 1].row
                             \/ /\ ~Cyclic(db', g[2])
                                /\ g[2] \in plan'.deleted \/ stack'[k].restricted
      BY DEF PassedInv
    <3>1. k \in 1..(n - 1) /\ k \in DOMAIN stack /\ k + 1 \in DOMAIN stack
      BY <1>3, <1>6
    <3>2. /\ stack'[k].row = stack[k].row /\ stack'[k].todo = stack[k].todo
          /\ stack[k].restricted => stack'[k].restricted
      BY <1>5, <3>1
    <3>3. g \in Kids(db, stack[k].row) \ stack[k].todo
      BY <1>1, <3>2
    <3>4. /\ g[1].action = "restrict" => stack[k].restricted
          /\ g[1].action = "set_null" => Cuts(g)
          /\ g[1].action = "cascade" =>
               \/ k < Len(stack) /\ g[2] = stack[k + 1].row
               \/ ~Cyclic(db, g[2]) /\ (g[2] \in plan.deleted \/ stack[k].restricted)
      BY <1>1, <3>1, <3>3 DEF PassedInv
    <3>5. CASE g[1].action = "cascade" /\ g[2] = stack[k + 1].row
      <4>1. CASE k = n - 1
        <5>1. k + 1 = n
          BY <1>3, <4>1
        <5>2. g[2] = w
          BY <1>9, <3>5, <5>1
        <5>3. g[2] \in plan'.deleted
          BY <2>6, <5>2
        <5> QED BY <1>1, <1>11, <3>5, <5>2, <5>3
      <4>2. CASE k # n - 1
        <5>1. k + 1 \in 1..(n - 1)
          BY <1>3, <3>1, <4>2
        <5>2. k < Len(stack') /\ stack'[k + 1].row = stack[k + 1].row
          BY <1>3, <1>5, <1>6, <5>1
        <5> QED BY <3>5, <5>2
      <4> QED BY <4>1, <4>2
    <3>6. CASE ~(g[1].action = "cascade" /\ g[2] = stack[k + 1].row)
      BY <1>1, <2>6, <2>7, <3>2, <3>4, <3>6
    <3> QED BY <3>5, <3>6
  <2>12. FinishedInv'
    <3>1. ASSUME NEW y \in plan.deleted
          PROVE  /\ y \in Reached(db, row) /\ ~Cyclic(db, y)
                 /\ \A h \in Kids(db, y) :
                      /\ h[1].action # "restrict"
                      /\ h[1].action = "set_null" => Cuts(h)'
                      /\ h[1].action = "cascade" => h[2] \in plan.deleted \cup {w}
      BY <1>1, <2>7 DEF FinishedInv
    <3>2. /\ w \in Reached(db, row) /\ ~Cyclic(db, w)
          /\ \A h \in Kids(db, w) :
               /\ h[1].action # "restrict"
               /\ h[1].action = "set_null" => Cuts(h)'
               /\ h[1].action = "cascade" => h[2] \in plan.deleted \cup {w}
      BY <1>9, <1>10, <1>11, <1>13, <2>7
    <3> QED BY <1>1, <2>6, <3>1, <3>2 DEF FinishedInv
  <2>13. ListsInv'
    <3>1. \A i \in 1..m : plan.delete[i] \in plan.deleted /\ plan.delete[i] # w
      BY <1>1, <1>9, <2>4 DEF ListsInv, Range
    <3>2. IsInjective(ds)
      <4> SUFFICES ASSUME NEW i \in 1..(m + 1), NEW j \in 1..(m + 1), ds[i] = ds[j]
                   PROVE  i = j
        BY <2>4 DEF IsInjective
      <4>1. CASE i \in 1..m /\ j \in 1..m
        BY <1>1, <2>4, <4>1 DEF ListsInv, IsInjective
      <4>2. CASE i = m + 1 /\ j \in 1..m
        BY <2>4, <3>1, <4>2
      <4>3. CASE i \in 1..m /\ j = m + 1
        BY <2>4, <3>1, <4>3
      <4> QED BY <2>4, <4>1, <4>2, <4>3
    <3>3. Ordered(db, ds)
      <4> SUFFICES ASSUME NEW i \in 1..(m + 1), NEW j \in 1..(m + 1), NEW h \in Kids(db, ds[i]),
                          h[1].action = "cascade", h[2] = ds[j]
                   PROVE  j < i
        BY <2>4 DEF Ordered
      <4>1. h[2] \in plan.deleted
        <5>1. CASE i = m + 1
          BY <1>10, <1>13, <2>4, <5>1
        <5>2. CASE i \in 1..m
          BY <1>1, <2>4, <3>1, <5>2 DEF FinishedInv
        <5> QED BY <2>4, <5>1, <5>2
      <4>2. j \in 1..m
        BY <1>9, <2>4, <4>1
      <4>3. CASE i = m + 1
        BY <2>4, <4>2, <4>3
      <4>4. CASE i \in 1..m
        <5>1. h \in Kids(db, plan.delete[i]) /\ h[2] = plan.delete[j]
          BY <2>4, <4>2, <4>4
        <5> QED BY <1>1, <2>4, <4>2, <4>4, <5>1 DEF ListsInv, Ordered
      <4> QED BY <2>4, <4>3, <4>4
    <3>4. ASSUME NEW k \in DOMAIN stack', stack'[k].restricted
          PROVE  plan.restricted # <<>>
      BY <1>1, <1>3, <1>5, <1>6, <1>13, <3>4 DEF ListsInv
    <3>5. /\ Range(ds) \subseteq plan.deleted \cup {w}
          /\ plan.restricted = <<>> => plan.deleted \cup {w} \subseteq Range(ds)
      BY <1>1, <2>4 DEF ListsInv
    <3> QED BY <1>1, <2>6, <3>2, <3>3, <3>4, <3>5 DEF ListsInv
  <2>14. EndInv'
    <3>1. CASE stack' = <<>>
      <4>1. n = 1
        BY <1>3, <1>6, <3>1
      <4>2. w = row
        BY <1>1, <1>9, <4>1 DEF PathInv
      <4> QED BY <1>1, <1>7, <1>11, <2>6, <4>2 DEF EndInv, Planned, Ended
    <3>2. CASE stack' # <<>>
      BY <1>7, <2>6, <3>2 DEF EndInv, Planned, Ended
    <3> QED BY <3>1, <3>2
  <2> QED BY <2>8, <2>9, <2>10, <2>11, <2>12, <2>13, <2>14 DEF PlannerInv
<1> QED BY <1>12, <1>13

LEMMA PlannerNext ==
  ASSUME PlannerInv, [Next]_vars
  PROVE  PlannerInv'
<1>1. CASE \E x \in RowIds : Plan(x)
  BY <1>1, PlanKeeps
<1>2. ASSUME NEW h \in FKs \X RowIds, Visit(h)
      PROVE  PlannerInv'
  BY <1>2, RestrictsKeeps, SetsNullKeeps, SkipKeeps, FailKeeps, DescendKeeps DEF Visit
<1>3. CASE Return
  BY <1>3, ReturnKeeps
<1>4. CASE UNCHANGED vars
  <2>1. db' = db /\ row' = row /\ stack' = stack /\ plan' = plan
    BY <1>4 DEF vars
  <2>2. \A g : Cuts(g) <=> Cuts(g)'
    BY <2>1 DEF Cuts
  <2>3. TypeInv' /\ PathInv' /\ LengthInv' /\ EndInv'
    BY <2>1 DEF PlannerInv, TypeInv, PathInv, LengthInv, EndInv, Planned, Ended
  <2>4. PassedInv' /\ FinishedInv' /\ ListsInv'
    BY <2>1, <2>2 DEF PlannerInv, PassedInv, FinishedInv, ListsInv
  <2> QED BY <2>3, <2>4 DEF PlannerInv
<1> QED BY <1>1, <1>2, <1>3, <1>4 DEF Next

\* The invariant of the search, for every schema, database and row: the calls
\* under way are a path without a cycle from the row to delete; a call knows of
\* each child it is past that it is finished, on the path or restricted; what
\* is finished is on no cycle and closed under cascading references.
THEOREM PlannerInductive == Spec => []PlannerInv
<1>1. Init => PlannerInv
  BY InitPlanned
<1>2. PlannerInv /\ [Next]_vars => PlannerInv'
  BY PlannerNext
<1> QED BY <1>1, <1>2, PTL DEF Spec

-----------------------------------------------------------------------------
(* What the search promises. *)

\* The planner reports a circular delete exactly when a cycle of cascading
\* references lies on or below the row (CircularDelete of planner.rs): a row
\* that two branches share is never taken for one.
THEOREM CyclesReported == Spec => []CyclesAreReported
<1>1. PlannerInv => CyclesAreReported
  BY DEF PlannerInv, EndInv, CyclesAreReported, Planned, Cyclic
<1> QED BY <1>1, PlannerInductive, PTL

\* When nothing restricts, what is finished is what the delete reaches.
LEMMA FinishedIsReached ==
  ASSUME PlannerInv, Planned, plan.restricted = <<>>
  PROVE  plan.deleted = Reached(db, row)
<1>1. RowsValid(db) /\ row \in plan.deleted /\ plan.deleted \subseteq RowIds /\ FinishedInv
  BY DEF PlannerInv, TypeInv, Plans, EndInv
<1>2. ASSUME NEW r \in By(References(db), "cascade"), r[2] \in plan.deleted
      PROVE  r[3] \in plan.deleted
  <2>1. <<r[1], r[3]>> \in Kids(db, r[2]) /\ r[1].action = "cascade"
    BY <1>1, <1>2, HopsAre
  <2>2. PICK h \in Kids(db, r[2]) : h = <<r[1], r[3]>>
    BY <2>1
  <2>3. h[1].action = "cascade" /\ h[2] = r[3]
    BY <2>1, <2>2
  <2> QED BY <1>1, <1>2, <2>3 DEF FinishedInv
<1>3. Reached(db, row) \subseteq plan.deleted
  BY <1>1, <1>2, ReachLeast DEF Reached
<1> QED BY <1>1, <1>3 DEF FinishedInv

\* An unrestricted plan deletes each row the delete reaches once and sets null
\* exactly the set-null references to them, and plan_delete lists a restriction
\* just when a restricting reference to a row it would delete exists, whatever
\* the restricted branches left in the shared plan.
THEOREM PlansComplete == Spec => []PlanIsComplete
<1>1. ASSUME PlannerInv
      PROVE  PlanIsComplete
  <2> DEFINE refs == References(db)
  <2> SUFFICES ASSUME Planned
               PROVE  /\ (plan.restricted # <<>>) <=> Restricted(refs, row)
                      /\ plan.restricted = <<>> =>
                           /\ IsInjective(plan.delete)
                           /\ Range(plan.delete) = Reach(refs, row)
                           /\ Range(plan.setNull) = {<<h[1], h[3]>> : h \in Cut(refs, row)}
    BY DEF PlanIsComplete
  <2>1. RowsValid(db) /\ FinishedInv /\ ListsInv
    BY <1>1 DEF PlannerInv, TypeInv
  <2>2. CASE plan.restricted # <<>>
    BY <2>1, <2>2 DEF ListsInv
  <2>3. CASE plan.restricted = <<>>
    <3>1. plan.deleted = Reached(db, row)
      BY <1>1, <2>3, FinishedIsReached
    <3>2. ASSUME NEW r \in refs, r[2] \in Reached(db, row)
          PROVE  /\ r[1].action # "restrict"
                 /\ r[1].action = "set_null" => <<r[1], r[3]>> \in Range(plan.setNull)
      <4>1. <<r[1], r[3]>> \in Kids(db, r[2]) /\ r[2] \in plan.deleted
        BY <2>1, <3>1, <3>2, HopsAre
      <4>2. PICK h \in Kids(db, r[2]) : h = <<r[1], r[3]>>
        BY <4>1
      <4>3. h[1].action # "restrict" /\ (h[1].action = "set_null" => Cuts(h)) /\ h[1] = r[1]
        BY <2>1, <4>1, <4>2 DEF FinishedInv
      <4> QED BY <2>3, <4>2, <4>3 DEF Cuts
    <3>3. ~Restricted(refs, row)
      BY <3>2 DEF Restricted, By, Reached
    <3>4. Range(plan.delete) = Reach(refs, row)
      BY <2>1, <2>3, <3>1 DEF ListsInv, Reached
    <3>5. ASSUME NEW r \in Cut(refs, row)
          PROVE  <<r[1], r[3]>> \in Range(plan.setNull)
      BY <3>2, <3>5 DEF Cut, By, Reached
    <3>6. ASSUME NEW h \in Range(plan.setNull)
          PROVE  \E r \in Cut(refs, row) : h = <<r[1], r[3]>>
      <4>1. PICK x \in Reached(db, row) : h \in Kids(db, x)
        BY <2>1, <3>6 DEF ListsInv
      <4>2. h[1].action = "set_null" /\ x \in RowIds
        BY <1>1, <2>1, <3>1, <3>6, <4>1 DEF ListsInv, PlannerInv, TypeInv, Plans
      <4>3. h = <<h[1], h[2]>> /\ <<h[1], x, h[2]>> \in refs
        BY <2>1, <4>1, <4>2, HopsAre
      <4> DEFINE r == <<h[1], x, h[2]>>
      <4>4. r \in Cut(refs, row) /\ h = <<r[1], r[3]>>
        BY <4>1, <4>2, <4>3 DEF Cut, By, Reached
      <4> QED BY <4>4
    <3> QED BY <2>1, <2>3, <3>3, <3>4, <3>5, <3>6 DEF ListsInv
  <2> QED BY <2>2, <2>3
<1> QED BY <1>1, PlannerInductive, PTL

\* Whatever the plan deletes, a row goes after every row that refers to it by
\* a cascading reference (DeletePlan.delete: "children first").
THEOREM ChildrenGoFirst == Spec => []ChildrenFirst
<1>1. ASSUME PlannerInv
      PROVE  ChildrenFirst
  <2> SUFFICES ASSUME NEW i \in DOMAIN plan.delete, NEW j \in DOMAIN plan.delete,
                      NEW r \in By(References(db), "cascade"),
                      r[2] = plan.delete[i], r[3] = plan.delete[j]
               PROVE  j < i
    BY DEF ChildrenFirst
  <2>1. RowsValid(db) /\ Ordered(db, plan.delete)
    BY <1>1 DEF PlannerInv, TypeInv, ListsInv
  <2>2. <<r[1], r[3]>> \in Kids(db, r[2]) /\ r[1].action = "cascade"
    BY <2>1, HopsAre
  <2>3. PICK h \in Kids(db, plan.delete[i]) : h = <<r[1], r[3]>>
    BY <2>2
  <2>4. h[1].action = "cascade" /\ h[2] = plan.delete[j]
    BY <2>2, <2>3
  <2> QED BY <2>1, <2>4 DEF Ordered
<1> QED BY <1>1, PlannerInductive, PTL
=============================================================================
