---------------------------- MODULE RustMigrateProofs ----------------------------
(***************************************************************************)
(* Proofs about the migration runner of module RustMigrate: the rows of a   *)
(* table that stays are never lost, a version on record was applied, guards *)
(* follow their tables, and what may run again fails only for bad rows.     *)
(***************************************************************************)
EXTENDS RustMigrate, FiniteSetTheorems, WellFoundedInduction, TLAPS

New == plan.new
Old == plan.old

-----------------------------------------------------------------------------
(* Types, as far as the proofs need them. *)

IsTable(x) == /\ x = [cols |-> x.cols, rows |-> x.rows]
              /\ x.cols = [c \in DOMAIN x.cols |-> x.cols[c]]

DiskType == disk = [tables |-> disk.tables, temps |-> disk.temps, uq |-> disk.uq,
                    rg |-> disk.rg, objects |-> disk.objects]

ProcType ==
  proc = [phase |-> proc.phase, code |-> proc.code, todo |-> proc.todo, m |-> proc.m,
          i |-> proc.i, step |-> proc.step, versions |-> proc.versions,
          saved |-> proc.saved, temp |-> proc.temp]

TypeInv ==
  /\ plan \in Plans
  /\ DiskType /\ ProcType
  /\ \A t \in DOMAIN disk.tables : IsTable(disk.tables[t])
  /\ \A n \in DOMAIN disk.temps : IsTable(disk.temps[n]) /\ n = <<n[1], n[2]>>
  /\ IsFiniteSet(DOMAIN disk.temps)
  /\ \A x \in DOMAIN written : x = <<x[1], x[2]>>

-----------------------------------------------------------------------------
(* Where an attempt stands. *)

RebuildSteps == {"temp", "filltemp", "droptable", "maketable", "fill", "droptemp"}

StepsOf(kind) ==
  CASE kind = "create_table"    -> {"create", "done"}
    [] kind = "drop_table"      -> {"drop", "clean", "done"}
    [] kind = "add_column"      -> {"addcol", "done"}
    [] kind = "alter_column"    -> {"alter", "fail", "done"}
    [] kind = "add_unique"      -> {"backfill", "fail", "done"}
    [] kind = "drop_unique"     -> {"dropguards", "done"}
    [] kind = "add_foreign_key" -> {"checkfk", "fail", "done"}
    [] kind = "add_index"       -> RebuildSteps \cup {"backfill", "fail", "done"}
    [] kind \in {"drop_column", "drop_index"} -> RebuildSteps \cup {"stale", "fail", "done"}
    [] kind \in {"create_object", "replace_object", "drop_object"} -> {kind, "done"}
    [] kind = "metadata"        -> {"done"}

Versions == {m.version : m \in plan.migrations}

Attempt ==
  /\ records = {}
  /\ plan.migrations # {}
  /\ proc.versions = Versions
  /\ proc.todo \subseteq plan.migrations
  /\ proc.m \in plan.migrations \/ (proc.m = None /\ proc.todo = plan.migrations)
  /\ proc.m \notin proc.todo
  /\ proc.i \in 0..Len(proc.m.ops)
  /\ proc.i = 0 => proc.step = "done"
  /\ proc.i # 0 => /\ proc.step \in StepsOf(Doing.kind)
                   /\ FirstStep(Doing, New) = "fail" <=> proc.step = "fail"
                   /\ FirstStep(Doing, New) = "done" => proc.step = "done"
                   /\ proc.step = "backfill" => FirstStep(Doing, New) = "backfill"

ProcInv ==
  /\ records \in {{}, Versions}
  /\ tried \in {"no", "yes", "mixed"}
  /\ proc.code \in {"old", "new"}
  /\ proc.phase \in {"down", "open", "serving", "applying", "recorded", "failed", "refused"}
  /\ proc.phase \notin {"down", "serving"} => proc.code = "new"
  /\ proc.phase \notin {"down", "serving", "open"} => tried # "no"
  /\ proc.phase = "open" => proc = [Down EXCEPT !.phase = "open", !.code = "new"]
  /\ proc.phase = "serving" /\ proc.code = "old" => records = {} /\ tried # "yes"
  /\ proc.phase = "serving" /\ proc.code = "new" => records = Versions /\ tried # "no"
  /\ proc.phase = "recorded" => records = Versions
  /\ proc.phase = "applying" => Attempt

\* Migrations are applied in the order of their versions.
OrderInv == proc.phase = "applying" => \A n \in proc.todo : proc.m.version < n.version

\* The rows of the table being rebuilt, wherever they are.
RebuildInv ==
  proc.phase = "applying" =>
    IF proc.step \notin RebuildSteps \ {"temp"} THEN proc.temp = <<>>
    ELSE /\ proc.temp \in DOMAIN disk.temps /\ proc.temp[1] = T
         /\ proc.step \in {"filltemp", "droptable"} =>
              T \in DOMAIN disk.tables /\ proc.saved = Now.rows
         /\ proc.step = "filltemp" => DOMAIN disk.temps[proc.temp].rows = {}
         /\ proc.step # "filltemp" => disk.temps[proc.temp].rows = Copy /\ CopyFits
         /\ proc.step = "maketable" => T \notin DOMAIN disk.tables
         /\ proc.step = "fill" =>
              T \in DOMAIN disk.tables /\ DOMAIN Now.rows = {} /\ Now.cols = Target.cols
         /\ proc.step = "droptemp" => T \in DOMAIN disk.tables /\ Now.rows = Copy

\* The tables as the attempt sees them: between the drop and the copy back
\* the table is what the process has read.
Away == proc.phase = "applying" /\ proc.step \in {"maketable", "fill"}
Here(t)   == t \in DOMAIN disk.tables \/ (Away /\ t = T)
RowsOf(t) == IF Away /\ t = T THEN Copy ELSE disk.tables[t].rows
ColsOf(t) == IF Away /\ t = T THEN Target.cols ELSE disk.tables[t].cols
CellAt(t, k, c) == Cell(RowsOf(t)[k], c)

-----------------------------------------------------------------------------
(* What is ahead and what is past. *)

Coming(m, i)  == m \in proc.todo \/ (m = proc.m /\ i > proc.i)
At(m, i, S)   == m = proc.m /\ i = proc.i /\ proc.step \in S
Past(m, i, S) == \/ records # {}
                 \/ /\ proc.phase = "applying"
                    /\ ~Coming(m, i) /\ ~At(m, i, S \cup {"fail"})

\* A table is gone until an operation says so or finds out.
Gone(t) ==
  \E m \in plan.migrations : \E i \in DOMAIN m.ops :
    /\ m.ops[i].t = t
    /\ \/ m.ops[i].kind = "drop_table" /\ ~Past(m, i, {"drop", "clean"})
       \/ Rebuilds(m.ops[i]) /\ ~Past(m, i, {"backfill", "temp"})

Guarded(t) == \/ \E g \in DOMAIN disk.uq : disk.uq[g][1] = t
              \/ \E r \in disk.rg : r[1] = t

PresenceInv == \A t : Guarded(t) \/ t \in DOMAIN Old \cap DOMAIN New => Here(t) \/ Gone(t)

-----------------------------------------------------------------------------
(* Columns and rows. *)

TableOk(t) ==
  /\ t \in DOMAIN Old \cup DOMAIN New
  /\ \A k \in DOMAIN RowsOf(t) : Storable(ColsOf(t), RowsOf(t)[k])
  /\ \A c \in DOMAIN ColsOf(t) :
       \/ t \in DOMAIN New /\ c \in DOMAIN New[t].cols /\ ColsOf(t)[c] = New[t].cols[c]
       \/ t \in DOMAIN Old /\ c \in DOMAIN Old[t].cols /\ ColsOf(t)[c] = Old[t].cols[c]
  /\ t \in DOMAIN New \cap DOMAIN Old =>
       DOMAIN Old[t].cols \cap DOMAIN New[t].cols \subseteq DOMAIN ColsOf(t)
  /\ t \notin DOMAIN Old => ColsOf(t) = New[t].cols

TableInv == \A t : Here(t) => TableOk(t)

-----------------------------------------------------------------------------
(* Guards. *)

NamesInv == \A g \in DOMAIN disk.uq : LET t == disk.uq[g][1] IN
  /\ disk.uq[g] = <<t, disk.uq[g][2]>>
  /\ \/ t \in DOMAIN Old /\ g[1] \in DOMAIN UniquesOf(Old[t])
     \/ t \in DOMAIN New /\ g[1] \in DOMAIN UniquesOf(New[t]) /\ tried # "no"

\* The guard of the key that row k of t has in the unique constraint u.
Key(t, k, u) == <<u, CellAt(t, k, UniquesOf(New[t])[u])>>
HasKey(t, k, u) == /\ t \in DOMAIN New /\ Here(t) /\ k \in DOMAIN RowsOf(t)
                   /\ u \in DOMAIN UniquesOf(New[t])
                   /\ CellAt(t, k, UniquesOf(New[t])[u]) # Null

OwnersInv == tried # "mixed" =>
  \A t, k, u : HasKey(t, k, u) /\ Key(t, k, u) \in DOMAIN disk.uq =>
    disk.uq[Key(t, k, u)] = <<t, k>>

Complete(t, u) == \A k : HasKey(t, k, u) => Key(t, k, u) \in DOMAIN disk.uq

CompleteInv == tried # "mixed" => \A t, u :
  \/ t \notin DOMAIN Old
  \/ u \in DOMAIN UniquesOf(Old[t])
  \/ records # {}
  => Complete(t, u)

-----------------------------------------------------------------------------
(* What operations have done by now. *)

Has(t, c) == /\ Here(t) /\ c \in DOMAIN ColsOf(t) /\ ColsOf(t)[c] = New[t].cols[c]
Refers(t, fk) == /\ Here(t) /\ Here(fk.parent)
                 /\ \A k \in DOMAIN RowsOf(t) :
                      CellAt(t, k, fk.col) \in DOMAIN RowsOf(fk.parent) \cup {Null}

Lasting(op) ==
  /\ op.kind = "create_table" => Here(op.t)
  /\ op.kind = "drop_table" => ~Here(op.t) \/ op.t \in ignored
  /\ op.kind = "drop_unique" => \A g \in DOMAIN disk.uq : g[1] # op.x
  /\ op.kind \in {"add_column", "alter_column"} =>
       Here(op.t) /\ \A c : Settles(plan, op, c) => Has(op.t, c)
  /\ Rebuilds(op) => Here(op.t) /\ ColsOf(op.t) = New[op.t].cols
  /\ op.kind = "create_object" => op.x \in disk.objects
  /\ op.kind = "add_foreign_key" => Refers(op.t, New[op.t].fks[op.x])

\* The steps an operation takes until then.
Until(op) == IF Rebuilds(op) THEN {"backfill", "temp", "filltemp", "droptable"}
             ELSE {"create", "drop", "dropguards", "addcol", "alter", "create_object", "checkfk"}

\* clean_table_guards has run, whether the table could be dropped or not.
CleanInv == \A m \in plan.migrations : \A i \in DOMAIN m.ops :
  m.ops[i].kind = "drop_table" /\ Past(m, i, {"drop", "clean"}) => ~Guarded(m.ops[i].t)

DeclaredInv == \A m \in plan.migrations : \A i \in DOMAIN m.ops :
  Past(m, i, {}) => FirstStep(m.ops[i], New) # "fail"

EffectInv == \A m \in plan.migrations : \A i \in DOMAIN m.ops :
  Past(m, i, Until(m.ops[i])) => Lasting(m.ops[i])

UniqueInv == tried # "mixed" => \A m \in plan.migrations : \A i \in DOMAIN m.ops :
  AddsUnique(m.ops[i]) /\ Past(m, i, {"backfill"}) => Complete(m.ops[i].t, m.ops[i].x)
-----------------------------------------------------------------------------
(* Steps. *)

LEMMA PlanFacts ==
  ASSUME plan \in Plans
  PROVE  /\ \A m \in plan.migrations :
              /\ m.version \in Nat \ {0} /\ Len(m.ops) \in Nat /\ DOMAIN m.ops = 1..Len(m.ops)
              /\ \A i \in DOMAIN m.ops : m.ops[i].kind \in Kinds
         /\ \A t \in DOMAIN New : New[t].cols = [c \in DOMAIN New[t].cols |-> New[t].cols[c]]
         /\ \A t \in DOMAIN Old : Old[t].cols = [c \in DOMAIN Old[t].cols |-> Old[t].cols[c]]
BY MigrateAssumption DEF New, Old

\* The steps that change something.
Steps == {"create", "drop", "clean", "addcol", "alter", "backfill", "dropguards", "checkfk",
          "create_object", "replace_object", "drop_object", "stale"} \cup RebuildSteps

LEMMA WorkingFacts ==
  ASSUME TypeInv, ProcInv, Working
  PROVE  /\ Attempt /\ proc.code = "new" /\ tried # "no" /\ Schema = New /\ records = {}
         /\ proc.m \in plan.migrations /\ proc.i \in DOMAIN proc.m.ops
         /\ Doing.kind \in Kinds /\ proc.step \in StepsOf(Doing.kind)
         /\ FirstStep(Doing, New) = "fail" <=> proc.step = "fail"
         /\ FirstStep(Doing, New) # "done"
         /\ proc.step = "backfill" => FirstStep(Doing, New) = "backfill"
         /\ proc.step \in Steps \cup {"fail"}
<1>1. Attempt /\ proc.code = "new" /\ tried # "no" /\ records = {}
  BY DEF ProcInv, Working, Attempt
<1>2. Schema = New
  BY <1>1 DEF Schema, New
<1>3. proc.i # 0
  BY <1>1 DEF Attempt, Working
<1>4. proc.m \in plan.migrations /\ proc.i \in DOMAIN proc.m.ops
  <2>1. CASE proc.m = None
    BY <1>1, <1>3, <2>1 DEF Attempt, None
  <2>2. CASE proc.m \in plan.migrations
    BY <1>1, <1>3, <2>2, PlanFacts DEF Attempt, TypeInv
  <2> QED BY <1>1, <2>1, <2>2 DEF Attempt
<1>5. Doing.kind \in Kinds
  BY <1>4, PlanFacts DEF TypeInv, Doing
<1>6. /\ proc.step \in StepsOf(Doing.kind)
      /\ FirstStep(Doing, New) = "fail" <=> proc.step = "fail"
      /\ FirstStep(Doing, New) # "done"
      /\ proc.step = "backfill" => FirstStep(Doing, New) = "backfill"
  BY <1>1, <1>3 DEF Attempt, Working
<1>7. proc.step \in Steps \cup {"fail"}
  BY <1>5, <1>6 DEF StepsOf, Kinds, Steps, RebuildSteps, Working
<1> QED BY <1>1, <1>2, <1>4, <1>5, <1>6, <1>7

LEMMA SchemaTarget ==
  ASSUME TypeInv, ProcInv, Working
  PROVE  Target = New[T]
BY WorkingFacts DEF Target

\* What an operation needs the schema to declare.
LEMMA Declared ==
  ASSUME TypeInv, ProcInv, Working, proc.step # "fail"
  PROVE  /\ proc.step \notin {"drop", "clean", "dropguards", "create_object", "replace_object",
                           "drop_object"} => T \in DOMAIN New
         /\ proc.step = "addcol" => Named(New[T].cols, Doing.x) # {}
         /\ proc.step = "backfill" => Doing.x \in DOMAIN UniquesOf(New[T])
         /\ proc.step = "checkfk" => /\ Doing.x \in DOMAIN New[T].fks
                                    /\ New[T].fks[Doing.x].parent \in DOMAIN New
<1>0. /\ Doing.kind \in Kinds /\ proc.step \in StepsOf(Doing.kind) /\ proc.step # "done"
      /\ FirstStep(Doing, New) \notin {"fail", "done"}
      /\ proc.step = "backfill" => FirstStep(Doing, New) = "backfill"
  BY WorkingFacts DEF Working
<1> DEFINE op == Doing
<1>1. T = op.t
  BY DEF T
<1>2. CASE op.kind \in {"create_table", "drop_table", "drop_unique", "create_object", "replace_object",
                       "drop_object", "metadata"}
  BY <1>0, <1>1, <1>2 DEF FirstStep, StepsOf, RebuildSteps
<1>3. CASE op.kind = "add_column"
  BY <1>0, <1>1, <1>3 DEF FirstStep, StepsOf, Named
<1>4. CASE op.kind \in {"alter_column", "add_unique", "add_foreign_key"}
  BY <1>0, <1>1, <1>4 DEF FirstStep, StepsOf
<1>5. CASE op.kind = "add_index"
  BY <1>0, <1>1, <1>5 DEF FirstStep, StepsOf, RebuildSteps
<1>6. CASE op.kind \in {"drop_column", "drop_index"}
  BY <1>0, <1>1, <1>6 DEF FirstStep, StepsOf, RebuildSteps
<1> QED BY <1>0, <1>2, <1>3, <1>4, <1>5, <1>6 DEF Kinds

\* What a step does to the disk.
LEMMA OutcomeIs ==
  ASSUME Outcome
  PROVE  /\ proc.step = "create"     => disk' = Create
         /\ proc.step = "drop"       => disk' = WithoutTable
         /\ proc.step = "clean"      => disk' = Clean
         /\ proc.step = "addcol"     => disk' = PutColumn(AddedColumn)
         /\ proc.step = "alter"      => disk' = PutColumn(AlteredColumn)
         /\ proc.step = "backfill"   => disk' = Backfill
         /\ proc.step = "dropguards" => disk' = DropGuards
         /\ proc.step = "stale"      => disk' = DropStale
         /\ proc.step = "checkfk"    => disk' = CheckForeignKey
         /\ proc.step = "temp"       => disk' = MakeTemp
         /\ proc.step = "filltemp"   => disk' = FillTemp
         /\ proc.step = "droptable"  => disk' = WithoutTable
         /\ proc.step = "maketable"  => disk' = PutTable(Physical(Target))
         /\ proc.step = "fill"       => disk' = PutTable([Physical(Target) EXCEPT !.rows = Copy])
         /\ proc.step = "droptemp"   => disk' = DropTemp
         /\ proc.step \in {"create_object", "replace_object", "drop_object"} => disk' = Object
BY DEF Outcome

LEMMA TablesAfter ==
  ASSUME TypeInv, ProcInv, ApplyStep
  PROVE  /\ proc.step = "create" /\ T \notin DOMAIN disk.tables =>
              disk'.tables = With(disk.tables, T, Physical(Target))
         /\ proc.step \in {"drop", "droptable"} => disk'.tables = Without(disk.tables, {T})
         /\ proc.step = "addcol" => disk'.tables =
              With(disk.tables, T, [cols |-> WithColumn(AddedColumn), rows |-> Now.rows])
         /\ proc.step = "alter" => disk'.tables =
              With(disk.tables, T, [cols |-> WithColumn(AlteredColumn), rows |-> Now.rows])
         /\ proc.step = "maketable" => disk'.tables = With(disk.tables, T, Physical(Target))
         /\ proc.step = "fill" =>
              disk'.tables = With(disk.tables, T, [cols |-> Target.cols, rows |-> Copy])
         /\ \/ proc.step \notin {"create", "drop", "droptable", "addcol", "alter", "maketable", "fill"}
            \/ proc.step = "create" /\ T \in DOMAIN disk.tables
            => disk'.tables = disk.tables
<1> USE DEF PutTable
<1>0. Outcome /\ DiskType /\ proc.step \in Steps /\ Succeeds
  BY WorkingFacts DEF ApplyStep, TypeInv, Succeeds
<1>1. ASSUME proc.step = "create" /\ T \notin DOMAIN disk.tables
      PROVE  disk'.tables = With(disk.tables, T, Physical(Target))
  BY <1>0, <1>1, OutcomeIs DEF Create, DiskType
<1>2. ASSUME proc.step = "create" /\ T \in DOMAIN disk.tables
      PROVE  disk'.tables = disk.tables
  BY <1>0, <1>2, OutcomeIs DEF Create
<1>3. ASSUME proc.step \in {"drop", "droptable"}
      PROVE  disk'.tables = Without(disk.tables, {T})
  BY <1>0, <1>3, OutcomeIs DEF WithoutTable, DiskType
<1>4. ASSUME NEW c, T \in DOMAIN disk.tables
      PROVE  PutColumn(c).tables = With(disk.tables, T, [cols |-> WithColumn(c), rows |-> Now.rows])
  <2>1. Now = [cols |-> Now.cols, rows |-> Now.rows]
    BY <1>4 DEF TypeInv, IsTable, Now
  <2>2. [Now EXCEPT !.cols = WithColumn(c)] = [cols |-> WithColumn(c), rows |-> Now.rows]
    BY <2>1
  <2> QED BY <1>0, <2>2 DEF PutColumn, DiskType
<1>5. ASSUME proc.step = "addcol"
      PROVE  disk'.tables = With(disk.tables, T, [cols |-> WithColumn(AddedColumn), rows |-> Now.rows])
  BY <1>0, <1>4, <1>5, OutcomeIs DEF Succeeds, AddsColumn
<1>6. ASSUME proc.step = "alter"
      PROVE  disk'.tables = With(disk.tables, T, [cols |-> WithColumn(AlteredColumn), rows |-> Now.rows])
  BY <1>0, <1>4, <1>6, OutcomeIs DEF Succeeds, AltersColumn
<1>7. ASSUME proc.step = "maketable"
      PROVE  disk'.tables = With(disk.tables, T, Physical(Target))
  BY <1>0, <1>7, OutcomeIs DEF DiskType
<1>8. ASSUME proc.step = "fill"
      PROVE  disk'.tables = With(disk.tables, T, [cols |-> Target.cols, rows |-> Copy])
  <2>1. [Physical(Target) EXCEPT !.rows = Copy] = [cols |-> Target.cols, rows |-> Copy]
    BY DEF Physical
  <2> QED BY <1>0, <1>8, <2>1, OutcomeIs DEF DiskType
<1>9. ASSUME proc.step \in {"clean", "dropguards", "stale", "backfill", "checkfk"}
      PROVE  disk'.tables = disk.tables
  BY <1>0, <1>9, OutcomeIs DEF Clean, DropGuards, DropStale, Backfill, CheckForeignKey, DiskType
<1>10. ASSUME proc.step \in {"temp", "filltemp", "droptemp", "create_object", "replace_object", "drop_object"}
       PROVE  disk'.tables = disk.tables
  BY <1>0, <1>10, OutcomeIs DEF MakeTemp, FillTemp, DropTemp, Object, DiskType
<1> QED BY <1>0, <1>1, <1>2, <1>3, <1>5, <1>6, <1>7, <1>8, <1>9, <1>10 DEF Steps, RebuildSteps

LEMMA TempsAfter ==
  ASSUME TypeInv, ProcInv, ApplyStep
  PROVE  /\ proc.step = "temp" => disk'.temps = With(disk.temps, TempName, Physical(Target))
         /\ proc.step = "filltemp" => disk'.temps = [disk.temps EXCEPT ![proc.temp].rows = Copy]
         /\ proc.step = "droptemp" => disk'.temps = Without(disk.temps, {proc.temp})
         /\ proc.step \notin {"temp", "filltemp", "droptemp"} => disk'.temps = disk.temps
<1>0. Outcome /\ DiskType /\ proc.step \in Steps
  BY WorkingFacts DEF ApplyStep, TypeInv, Succeeds
<1>1. ASSUME proc.step = "temp"
      PROVE  disk'.temps = With(disk.temps, TempName, Physical(Target))
  BY <1>0, <1>1, OutcomeIs DEF MakeTemp, DiskType
<1>2. ASSUME proc.step = "filltemp"
      PROVE  disk'.temps = [disk.temps EXCEPT ![proc.temp].rows = Copy]
  BY <1>0, <1>2, OutcomeIs DEF FillTemp, DiskType
<1>3. ASSUME proc.step = "droptemp"
      PROVE  disk'.temps = Without(disk.temps, {proc.temp})
  BY <1>0, <1>3, OutcomeIs DEF DropTemp, DiskType
<1>4. ASSUME proc.step \in {"create", "drop", "droptable", "addcol", "alter", "maketable", "fill"}
      PROVE  disk'.temps = disk.temps
  BY <1>0, <1>4, OutcomeIs DEF Create, WithoutTable, PutTable, PutColumn, DiskType
<1>5. ASSUME proc.step \in {"clean", "dropguards", "stale", "backfill", "checkfk"}
      PROVE  disk'.temps = disk.temps
  BY <1>0, <1>5, OutcomeIs DEF Clean, DropGuards, DropStale, Backfill, CheckForeignKey, DiskType
<1>6. ASSUME proc.step \in {"create_object", "replace_object", "drop_object"}
      PROVE  disk'.temps = disk.temps
  BY <1>0, <1>6, OutcomeIs DEF Object, DiskType
<1> QED BY <1>0, <1>1, <1>2, <1>3, <1>4, <1>5, <1>6 DEF Steps, RebuildSteps

LEMMA GuardsAfter ==
  ASSUME TypeInv, ProcInv, ApplyStep
  PROVE  /\ proc.step = "clean" =>
              /\ disk'.uq = Without(disk.uq, {g \in DOMAIN disk.uq : disk.uq[g][1] = T})
              /\ disk'.rg = {r \in disk.rg : r[1] # T}
         /\ proc.step = "dropguards" =>
              disk'.uq = Without(disk.uq, {g \in DOMAIN disk.uq :
                           disk.uq[g][1] = T /\ g[1] = Doing.x})
         /\ proc.step = "stale" =>
              disk'.uq = Without(disk.uq, {g \in DOMAIN disk.uq :
                           disk.uq[g][1] = T /\ g[1] \notin DOMAIN UniquesOf(Target)})
         /\ proc.step = "backfill" =>
              disk'.uq = [g \in DOMAIN disk.uq \cup {p[1] : p \in Found} |->
                            IF g \in DOMAIN disk.uq THEN disk.uq[g]
                            ELSE <<T, (CHOOSE p \in Found : p[1] = g)[2]>>]
         /\ proc.step \notin {"clean", "dropguards", "stale", "backfill"} => disk'.uq = disk.uq
         /\ proc.step = "checkfk" => disk'.rg = disk.rg \cup {<<Parent, k>> : k \in Wanted}
         /\ proc.step \notin {"clean", "checkfk"} => disk'.rg = disk.rg
<1>0. Outcome /\ DiskType /\ proc.step \in Steps
  BY WorkingFacts DEF ApplyStep, TypeInv, Succeeds
<1>1. ASSUME proc.step = "clean"
      PROVE  /\ disk'.uq = Without(disk.uq, {g \in DOMAIN disk.uq : disk.uq[g][1] = T})
             /\ disk'.rg = {r \in disk.rg : r[1] # T}
  BY <1>0, <1>1, OutcomeIs DEF Clean, DiskType
<1>2. ASSUME proc.step = "dropguards"
      PROVE  /\ disk'.uq = Without(disk.uq, {g \in DOMAIN disk.uq :
                              disk.uq[g][1] = T /\ g[1] = Doing.x})
             /\ disk'.rg = disk.rg
  BY <1>0, <1>2, OutcomeIs DEF DropGuards, DiskType
<1>3. ASSUME proc.step = "stale"
      PROVE  /\ disk'.uq = Without(disk.uq, {g \in DOMAIN disk.uq :
                              disk.uq[g][1] = T /\ g[1] \notin DOMAIN UniquesOf(Target)})
             /\ disk'.rg = disk.rg
  BY <1>0, <1>3, OutcomeIs DEF DropStale, DiskType
<1>4. ASSUME proc.step = "backfill"
      PROVE  /\ disk'.uq = [g \in DOMAIN disk.uq \cup {p[1] : p \in Found} |->
                              IF g \in DOMAIN disk.uq THEN disk.uq[g]
                              ELSE <<T, (CHOOSE p \in Found : p[1] = g)[2]>>]
             /\ disk'.rg = disk.rg
  BY <1>0, <1>4, OutcomeIs DEF Backfill, DiskType
<1>5. ASSUME proc.step = "checkfk"
      PROVE  /\ disk'.rg = disk.rg \cup {<<Parent, k>> : k \in Wanted}
             /\ disk'.uq = disk.uq
  BY <1>0, <1>5, OutcomeIs DEF CheckForeignKey, DiskType
<1>6. ASSUME proc.step \in {"create", "drop", "droptable", "addcol", "alter", "maketable", "fill"}
      PROVE  disk'.uq = disk.uq /\ disk'.rg = disk.rg
  BY <1>0, <1>6, OutcomeIs DEF Create, WithoutTable, PutTable, PutColumn, DiskType
<1>7. ASSUME proc.step \in {"temp", "filltemp", "droptemp", "create_object", "replace_object", "drop_object"}
      PROVE  disk'.uq = disk.uq /\ disk'.rg = disk.rg
  BY <1>0, <1>7, OutcomeIs DEF MakeTemp, FillTemp, DropTemp, Object, DiskType
<1> QED BY <1>0, <1>1, <1>2, <1>3, <1>4, <1>5, <1>6, <1>7 DEF Steps, RebuildSteps

LEMMA ObjectsAfter ==
  ASSUME TypeInv, ProcInv, ApplyStep
  PROVE  \/ proc.step = "drop_object" /\ disk'.objects = disk.objects \ {Doing.x}
         \/ proc.step \in {"create_object", "replace_object"} /\ disk'.objects = disk.objects \cup {Doing.x}
         \/ /\ proc.step \notin {"create_object", "replace_object", "drop_object"}
            /\ disk'.objects = disk.objects
<1>0. Outcome /\ DiskType /\ proc.step \in Steps /\ Doing.kind \in Kinds
      /\ proc.step \in StepsOf(Doing.kind)
  BY WorkingFacts DEF ApplyStep, TypeInv, Succeeds
<1>1. ASSUME proc.step \in {"create_object", "replace_object", "drop_object"}
      PROVE  /\ proc.step = "drop_object" => disk'.objects = disk.objects \ {Doing.x}
             /\ proc.step # "drop_object" => disk'.objects = disk.objects \cup {Doing.x}
  <2>1. proc.step = Doing.kind
    BY <1>0, <1>1 DEF StepsOf, Kinds, RebuildSteps
  <2> QED BY <1>0, <1>1, <2>1, OutcomeIs DEF Object, DiskType
<1>2. ASSUME proc.step \in {"clean", "dropguards", "stale", "backfill", "checkfk"}
      PROVE  disk'.objects = disk.objects
  BY <1>0, <1>2, OutcomeIs DEF Clean, DropGuards, DropStale, Backfill, CheckForeignKey, DiskType
<1>3. ASSUME proc.step \in {"create", "drop", "droptable", "addcol", "alter", "maketable", "fill"}
      PROVE  disk'.objects = disk.objects
  BY <1>0, <1>3, OutcomeIs DEF Create, WithoutTable, PutTable, PutColumn, DiskType
<1>4. ASSUME proc.step \in {"temp", "filltemp", "droptemp"}
      PROVE  disk'.objects = disk.objects
  BY <1>0, <1>4, OutcomeIs DEF MakeTemp, FillTemp, DropTemp, DiskType
<1> QED BY <1>0, <1>1, <1>2, <1>3, <1>4 DEF Steps, RebuildSteps

LEMMA ProcAfter ==
  ASSUME TypeInv, ApplyStep
  PROVE  /\ proc'.phase = "applying" /\ proc'.code = proc.code /\ proc'.todo = proc.todo
         /\ proc'.m = proc.m /\ proc'.i = proc.i /\ proc'.versions = proc.versions
         /\ proc'.step = StepAfter(proc.step, Doing.kind)
         /\ proc'.saved = IF proc.step = "temp" THEN Now.rows
                          ELSE IF proc.step = "droptemp" THEN <<>> ELSE proc.saved
         /\ proc'.temp = IF proc.step = "temp" THEN TempName
                         ELSE IF proc.step = "droptemp" THEN <<>> ELSE proc.temp
         /\ ProcType'
         /\ plan' = plan /\ records' = records /\ tried' = tried /\ written' = written
         /\ Working /\ Succeeds
<1>1. ProcType /\ proc.phase = "applying"
  BY DEF TypeInv, ApplyStep, Working
<1> HIDE DEF Now, TempName, Doing, StepAfter
<1>2. proc' = [proc EXCEPT !.step  = StepAfter(@, Doing.kind),
         !.saved = IF proc.step = "temp" THEN Now.rows ELSE IF proc.step = "droptemp" THEN <<>> ELSE @,
         !.temp  = IF proc.step = "temp" THEN TempName ELSE IF proc.step = "droptemp" THEN <<>> ELSE @]
  BY DEF ApplyStep
<1>3. ProcType'
  BY <1>1, <1>2 DEF ProcType
<1> QED BY <1>1, <1>2, <1>3 DEF ProcType, ApplyStep

LEMMA FirstSteps ==
  ASSUME NEW op, NEW schema, op.kind \in Kinds
  PROVE  /\ FirstStep(op, schema) \in StepsOf(op.kind)
         /\ FirstStep(op, schema) \notin {"clean", "stale"} \cup (RebuildSteps \ {"temp"})
BY DEF FirstStep, StepsOf, Kinds, RebuildSteps

LEMMA StepsAfter ==
  ASSUME NEW kind \in Kinds, NEW step \in StepsOf(kind) \ {"fail", "done"}
  PROVE  /\ StepAfter(step, kind) \in StepsOf(kind) \ {"fail", "backfill"}
         /\ step = "drop" => StepAfter(step, kind) = "clean"
         /\ step = "temp" => StepAfter(step, kind) = "filltemp"
         /\ step = "filltemp" => StepAfter(step, kind) = "droptable"
         /\ step = "droptable" => StepAfter(step, kind) = "maketable"
         /\ step = "maketable" => StepAfter(step, kind) = "fill"
         /\ step = "fill" => StepAfter(step, kind) = "droptemp"
         /\ step = "droptemp" => StepAfter(step, kind) \in {"stale", "done"}
         /\ step = "backfill" => StepAfter(step, kind) \in {"temp", "done"}
         /\ step \notin {"drop", "backfill"} \cup RebuildSteps => StepAfter(step, kind) = "done"
<1>1. CASE step \in {"temp", "filltemp", "droptable", "maketable", "fill"}
  BY <1>1 DEF StepAfter, Rebuild, StepsOf, Kinds, RebuildSteps
<1>2. CASE step \notin {"temp", "filltemp", "droptable", "maketable", "fill"}
  BY <1>2 DEF StepAfter, Rebuild, StepsOf, Kinds, RebuildSteps
<1> QED BY <1>1, <1>2

\* A set of naturals has a least element.
LEMMA Least ==
  ASSUME NEW S \in SUBSET Nat, S # {}
  PROVE  \E n \in S : \A m \in S : n <= m
<1> DEFINE R == OpToRel(<, Nat)
<1>1. \A x, y \in Nat : <<x, y>> \in R <=> x < y
  BY DEF OpToRel
<1>2. IsWellFoundedOn(R, Nat)
  BY NatLessThanWellFounded
<1> HIDE DEF R
<1>3. \E n \in S : \A m \in S : <<m, n>> \notin R
  BY <1>2, WFMin
<1>4. \A m, n \in Nat : ~(m < n) => n <= m
  OBVIOUS
<1> QED BY <1>1, <1>3, <1>4

\* The numbers up to the count of the temporary tables are not all taken.
LEMMA TempNameIsNew ==
  ASSUME TypeInv
  PROVE  TempName \notin DOMAIN disk.temps /\ TempName = <<T, TempName[2]>>
<1> DEFINE D == DOMAIN disk.temps
           N == Cardinality(D)
           Free == {n \in 0..N : <<T, n>> \notin D}
<1>1. IsFiniteSet(D) /\ N \in Nat
  BY FS_CardinalityType DEF TypeInv
<1>2. Free # {}
  <2> SUFFICES ASSUME Free = {} PROVE FALSE
    OBVIOUS
  <2>1. \A n \in 0..N : <<T, n>> \in D
    OBVIOUS
  <2> DEFINE f == [n \in 0..N |-> <<T, n>>]
  <2>2. f \in Injection(0..N, D)
    BY <2>1 DEF Injection, IsInjective
  <2>3. IsFiniteSet(0..N) /\ Cardinality(0..N) = N + 1
    BY <1>1, FS_Interval
  <2>4. Cardinality(0..N) <= N
    BY <1>1, <2>2, <2>3, FS_Injection
  <2> QED BY <1>1, <2>3, <2>4
<1>3. PICK n \in Free : \A m \in Free : n <= m
  <2>1. Free \in SUBSET Nat
    BY <1>1
  <2> HIDE DEF Free
  <2> QED BY <1>2, <2>1, Least
<1>4. /\ n \in 0..N /\ <<T, n>> \notin D
      /\ \A m \in 0..(n - 1) : <<T, m>> \in D
  BY <1>1, <1>3
<1> QED BY <1>4 DEF TempName

-----------------------------------------------------------------------------
(* The types and the process. *)

-----------------------------------------------------------------------------
(* The types and the process. *)

LEMMA RecordIsTable ==
  ASSUME NEW cols, NEW rows, cols = [c \in DOMAIN cols |-> cols[c]]
  PROVE  IsTable([cols |-> cols, rows |-> rows])
BY DEF IsTable

LEMMA TablesTyped ==
  ASSUME TypeInv, ProcInv, ApplyStep
  PROVE  \A t \in DOMAIN disk'.tables : IsTable(disk'.tables[t])
<1>0. /\ \A t \in DOMAIN disk.tables : IsTable(disk.tables[t])
      /\ Working /\ Succeeds /\ Target = New[T] /\ proc.step # "fail"
  BY SchemaTarget DEF TypeInv, ApplyStep, Succeeds
<1>1. ASSUME NEW x, IsTable(x), disk'.tables = With(disk.tables, T, x)
      PROVE  \A t \in DOMAIN disk'.tables : IsTable(disk'.tables[t])
  BY <1>0, <1>1 DEF With
<1>2. CASE disk'.tables = disk.tables
  BY <1>0, <1>2
<1>3. CASE disk'.tables = Without(disk.tables, {T})
  BY <1>0, <1>3 DEF Without
<1>4. ASSUME T \in DOMAIN New, NEW rows
      PROVE  IsTable([cols |-> Target.cols, rows |-> rows])
  <2>1. New[T].cols = [c \in DOMAIN New[T].cols |-> New[T].cols[c]]
    BY <1>4, PlanFacts DEF TypeInv
  <2> QED BY <1>0, <2>1, RecordIsTable
<1>5. ASSUME T \in DOMAIN New
      PROVE  IsTable(Physical(Target))
  BY <1>4, <1>5 DEF Physical
<1>6. ASSUME NEW c, NEW rows
      PROVE  IsTable([cols |-> WithColumn(c), rows |-> rows])
  BY RecordIsTable DEF With, WithColumn
<1> QED BY <1>0, <1>1, <1>2, <1>3, <1>4, <1>5, <1>6, TablesAfter, Declared

LEMMA TempsTyped ==
  ASSUME TypeInv, ProcInv, ApplyStep
  PROVE  /\ \A n \in DOMAIN disk'.temps : IsTable(disk'.temps[n]) /\ n = <<n[1], n[2]>>
         /\ IsFiniteSet(DOMAIN disk'.temps)
<1>0. /\ \A n \in DOMAIN disk.temps : IsTable(disk.temps[n]) /\ n = <<n[1], n[2]>>
      /\ IsFiniteSet(DOMAIN disk.temps)
      /\ Working /\ Succeeds /\ Target = New[T] /\ proc.step # "fail"
  BY SchemaTarget DEF TypeInv, ApplyStep, Succeeds
<1>1. CASE disk'.temps = disk.temps
  BY <1>0, <1>1
<1>2. CASE proc.step = "temp"
  <2>1. disk'.temps = With(disk.temps, TempName, Physical(Target))
    BY <1>2, TempsAfter
  <2>2. New[T].cols = [c \in DOMAIN New[T].cols |-> New[T].cols[c]]
    BY <1>0, <1>2, Declared, PlanFacts DEF TypeInv
  <2>3. IsTable(Physical(Target))
    BY <1>0, <2>2, RecordIsTable DEF Physical
  <2>4. DOMAIN disk'.temps = DOMAIN disk.temps \cup {TempName}
    BY <2>1 DEF With
  <2>5. IsFiniteSet(DOMAIN disk'.temps)
    BY <1>0, <2>4, FS_AddElement
  <2>6. TempName = <<TempName[1], TempName[2]>>
    BY TempNameIsNew
  <2> QED BY <1>0, <2>1, <2>3, <2>5, <2>6 DEF With
<1>3. CASE proc.step = "filltemp"
  <2>1. disk'.temps = [disk.temps EXCEPT ![proc.temp].rows = Copy]
    BY <1>3, TempsAfter
  <2>2. DOMAIN disk'.temps = DOMAIN disk.temps
    BY <2>1
  <2>3. ASSUME NEW n \in DOMAIN disk.temps
        PROVE  IsTable(disk'.temps[n])
    BY <1>0, <2>1, <2>3 DEF IsTable
  <2> QED BY <1>0, <2>2, <2>3
<1>4. CASE proc.step = "droptemp"
  <2>1. disk'.temps = Without(disk.temps, {proc.temp})
    BY <1>4, TempsAfter
  <2>2. IsFiniteSet(DOMAIN disk'.temps)
    BY <1>0, <2>1, FS_Subset DEF Without
  <2> QED BY <1>0, <2>1, <2>2 DEF Without
<1> QED BY <1>1, <1>2, <1>3, <1>4, TempsAfter

LEMMA DiskTyped ==
  ASSUME TypeInv, ApplyStep
  PROVE  DiskType'
<1>0. Outcome /\ DiskType
  BY DEF ApplyStep, TypeInv
<1>1. CASE proc.step \in {"create", "drop", "droptable", "addcol", "alter", "maketable", "fill"}
  BY <1>0, <1>1, OutcomeIs DEF Create, WithoutTable, PutTable, PutColumn, DiskType
<1>2. CASE proc.step \in {"clean", "dropguards", "stale", "backfill", "checkfk"}
  BY <1>0, <1>2, OutcomeIs DEF Clean, DropGuards, DropStale, Backfill, CheckForeignKey, DiskType
<1>3. CASE proc.step \in {"temp", "filltemp", "droptemp", "create_object", "replace_object", "drop_object"}
  BY <1>0, <1>3, OutcomeIs DEF MakeTemp, FillTemp, DropTemp, Object, DiskType
<1> QED BY <1>0, <1>1, <1>2, <1>3 DEF Outcome

\* The error paths: the temporary table goes.
LEMMA AbortIs ==
  ASSUME TypeInv, StepFails \/ StepRefused
  PROVE  /\ disk'.tables = disk.tables /\ disk'.temps = Without(disk.temps, {proc.temp})
         /\ disk'.uq = disk.uq /\ disk'.rg = disk.rg /\ disk'.objects = disk.objects
         /\ DiskType' /\ ProcType' /\ proc'.phase \in {"failed", "refused"}
         /\ proc'.code = proc.code
         /\ plan' = plan /\ records' = records /\ tried' = tried /\ written' = written
         /\ ignored' = ignored
<1>1. disk' = DropTemp /\ \E phase \in {"failed", "refused"} :
        proc' = [Down EXCEPT !.phase = phase, !.code = proc.code]
  BY DEF StepFails, StepRefused, Abort
<1> QED BY <1>1 DEF TypeInv, DiskType, ProcType, DropTemp, Down, StepFails, StepRefused

LEMMA WriteIs ==
  ASSUME TypeInv, Write
  PROVE  \E t \in DOMAIN Schema, k \in RowKeys :
           /\ t \in DOMAIN disk.tables
           /\ \E rows : disk'.tables = [disk.tables EXCEPT ![t].rows = rows]
           /\ disk'.temps = disk.temps /\ disk'.objects = disk.objects
           /\ DiskType'
           /\ \E row : written' \in {With(written, <<t, k>>, row), Without(written, {<<t, k>>})}
           /\ plan' = plan /\ records' = records /\ tried' = tried /\ proc' = proc
           /\ ignored' = ignored /\ proc.phase = "serving"
<1>1. PICK t \in DOMAIN Schema, k \in RowKeys : (\E row : InsertRow(t, k, row)) \/ DeleteRow(t, k)
  BY DEF Write
<1>2. CASE DeleteRow(t, k)
  BY <1>2 DEF DeleteRow, Stored, Idle, TypeInv, DiskType
<1>3. ASSUME NEW row, InsertRow(t, k, row)
      PROVE  /\ t \in DOMAIN disk.tables
             /\ \E rows : disk'.tables = [disk.tables EXCEPT ![t].rows = rows]
             /\ disk'.temps = disk.temps /\ disk'.objects = disk.objects
             /\ DiskType'
             /\ written' = With(written, <<t, k>>, row)
             /\ plan' = plan /\ records' = records /\ tried' = tried /\ proc' = proc
             /\ ignored' = ignored /\ proc.phase = "serving"
  BY <1>3 DEF InsertRow, Stored, Idle, TypeInv, DiskType
<1> QED BY <1>1, <1>2, <1>3

\* A drop whose error is ignored only moves on.
LEMMA IgnoredIs ==
  ASSUME TypeInv, ProcInv, DropIgnored
  PROVE  /\ proc'.phase = "applying" /\ proc'.code = proc.code /\ proc'.todo = proc.todo
         /\ proc'.m = proc.m /\ proc'.i = proc.i /\ proc'.versions = proc.versions
         /\ proc'.step = StepAfter(proc.step, Doing.kind)
         /\ proc'.saved = proc.saved /\ proc'.temp = proc.temp
         /\ ProcType' /\ Working
         /\ proc.step \in {"drop", "drop_object"}
         /\ proc.step = "drop" => proc'.step = "clean"
         /\ proc.step = "drop_object" => proc'.step = "done"
         /\ ignored' = IF proc.step = "drop" THEN ignored \cup {T} ELSE ignored
         /\ disk' = disk /\ plan' = plan /\ records' = records /\ tried' = tried
         /\ written' = written
<1>1. ProcType /\ proc.phase = "applying" /\ Working /\ proc.step \in {"drop", "drop_object"}
  BY DEF TypeInv, DropIgnored, Working, BestEffort
<1>2. /\ Doing.kind \in Kinds /\ proc.step \in StepsOf(Doing.kind) \ {"fail", "done"}
      /\ proc.step \notin RebuildSteps
  BY <1>1, WorkingFacts DEF RebuildSteps
<1> HIDE DEF Doing, StepAfter
<1>3. proc' = [proc EXCEPT !.step = StepAfter(@, Doing.kind)]
  BY DEF DropIgnored
<1>4. /\ proc.step = "drop" => StepAfter(proc.step, Doing.kind) = "clean"
      /\ proc.step = "drop_object" => StepAfter(proc.step, Doing.kind) = "done"
  BY <1>1, <1>2, StepsAfter
<1> QED BY <1>1, <1>3, <1>4 DEF ProcType, DropIgnored

\* The other steps leave the disk and the rows alone.
Quiet == \/ \E code \in {"old", "new"} : Open(code)
         \/ Migrate \/ NextMigration \/ NextOperation \/ DropIgnored
         \/ Record \/ Persist \/ Close \/ Crash

LEMMA TypeNext ==
  ASSUME TypeInv, ProcInv, [Next]_vars
  PROVE  TypeInv'
<1>1. CASE ApplyStep
  BY <1>1, TablesTyped, TempsTyped, DiskTyped, ProcAfter DEF TypeInv
<1>2. CASE StepFails \/ StepRefused
  <2>1. IsFiniteSet(DOMAIN disk'.temps)
    BY <1>2, AbortIs, FS_Subset DEF Without, TypeInv
  <2> QED BY <1>2, <2>1, AbortIs DEF Without, TypeInv
<1>3. CASE Write
  <2>1. PICK t, k, rows, row :
          /\ t \in DOMAIN disk.tables
          /\ disk'.tables = [disk.tables EXCEPT ![t].rows = rows]
          /\ disk'.temps = disk.temps /\ DiskType' /\ plan' = plan /\ proc' = proc
          /\ written' \in {With(written, <<t, k>>, row), Without(written, {<<t, k>>})}
    BY <1>3, WriteIs
  <2>2. \A x \in DOMAIN disk'.tables : IsTable(disk'.tables[x])
    BY <2>1 DEF TypeInv, IsTable
  <2>3. \A x \in DOMAIN written' : x = <<x[1], x[2]>>
    BY <2>1 DEF With, Without, TypeInv
  <2> QED BY <2>1, <2>2, <2>3 DEF TypeInv, ProcType
<1>4. CASE Quiet
  <2>1. disk' = disk /\ plan' = plan /\ written' = written
    BY <1>4, IgnoredIs
       DEF Quiet, Open, Migrate, NextMigration, NextOperation, Record, Persist, Close, Crash
  <2>2. ProcType'
    BY <1>4, IgnoredIs
       DEF Quiet, Open, Migrate, NextMigration, NextOperation, Record, Persist, Close, Crash,
           TypeInv, ProcType, Down
  <2> QED BY <2>1, <2>2 DEF TypeInv, DiskType
<1>5. CASE UNCHANGED vars
  BY <1>5 DEF vars, TypeInv, DiskType, ProcType
<1> QED BY <1>1, <1>2, <1>3, <1>4, <1>5 DEF Next, Quiet

\* Nothing is recorded before everything is.
LEMMA PendingIs ==
  ASSUME plan \in Plans, records \in {{}, Versions}
  PROVE  /\ records = {} => Pending(plan.migrations) = plan.migrations
         /\ records = Versions /\ Versions # {} => Pending(plan.migrations) = {}
<1>1. \A m \in plan.migrations : m.version \in Nat \ {0}
  BY PlanFacts
<1>2. ASSUME records = Versions, Versions # {}, NEW m \in Pending(plan.migrations)
      PROVE  FALSE
  <2>1. m \in plan.migrations /\ m.version > m.version
    BY <1>2 DEF Pending, Versions
  <2> QED BY <1>1, <2>1
<1> QED BY <1>2 DEF Pending

LEMMA ProcNext ==
  ASSUME TypeInv, ProcInv, [Next]_vars
  PROVE  ProcInv'
<1>0. ProcType /\ plan \in Plans
  BY DEF TypeInv
<1>1. ASSUME NEW code \in {"old", "new"}, Open(code)
      PROVE  ProcInv'
  BY <1>1 DEF Open, ProcInv, Versions, Down
<1>2. CASE Migrate
  <2>1. proc = [Down EXCEPT !.phase = "open", !.code = "new"] /\ proc.phase = "open"
    BY <1>2 DEF Migrate, ProcInv
  <2> DEFINE ms == Pending(plan.migrations)
  <2>2. /\ proc' = IF ms = {} THEN [proc EXCEPT !.phase = "serving"]
                    ELSE [proc EXCEPT !.phase = "applying", !.todo = ms,
                                      !.versions = {m.version : m \in ms}]
        /\ tried' \in {"yes", "mixed"} /\ plan' = plan /\ records' = records
    BY <1>2 DEF Migrate, ProcInv
  <2>3. CASE ms = {}
    <3>1. records = Versions
      BY <1>0, <2>3, PendingIs DEF ProcInv, Versions
    <3>2. proc'.phase = "serving" /\ proc'.code = "new"
      BY <2>1, <2>2, <2>3 DEF Down
    <3> QED BY <2>2, <3>1, <3>2 DEF ProcInv, Versions
  <2>4. CASE ms # {}
    <3>1. records = {} /\ ms = plan.migrations
      BY <1>0, <2>4, PendingIs DEF ProcInv, Pending
    <3> HIDE DEF ms
    <3>2. /\ proc'.phase = "applying" /\ proc'.code = "new" /\ proc'.todo = ms /\ proc'.m = None
          /\ proc'.i = 0 /\ proc'.step = "done" /\ proc'.versions = {m.version : m \in ms}
      BY <2>1, <2>2, <2>4 DEF Down
    <3>3. 0 \in 0..Len(None.ops) /\ None \notin plan.migrations
      <4>1. None.version \notin Nat \ {0} /\ 0 \in 0..Len(None.ops)
        BY DEF None
      <4> QED BY <1>0, <4>1, PlanFacts
    <3>4. Attempt'
      BY <2>2, <2>4, <3>1, <3>2, <3>3 DEF Attempt, Versions
    <3> QED BY <2>2, <3>1, <3>2, <3>4 DEF ProcInv
  <2> QED BY <2>3, <2>4
<1>3. CASE NextMigration
  <2>1. PICK m \in proc.todo : proc' = [proc EXCEPT !.todo = @ \ {m}, !.m = m, !.i = 0]
    BY <1>3 DEF NextMigration
  <2>2. Attempt /\ proc.phase = "applying" /\ proc.step = "done"
    BY <1>3 DEF NextMigration, ProcInv
  <2>3. /\ proc'.phase = proc.phase /\ proc'.code = proc.code /\ proc'.todo = proc.todo \ {m}
        /\ proc'.m = m /\ proc'.i = 0 /\ proc'.step = proc.step /\ proc'.versions = proc.versions
        /\ plan' = plan /\ records' = records /\ tried' = tried
    BY <1>0, <1>3, <2>1 DEF NextMigration, ProcType
  <2>4. m \in plan.migrations /\ 0 \in 0..Len(m.ops)
    BY <1>0, <2>2, PlanFacts DEF Attempt
  <2>5. Attempt'
    BY <2>2, <2>3, <2>4 DEF Attempt, Versions
  <2> QED BY <2>2, <2>3, <2>5 DEF ProcInv, Versions
<1>4. CASE NextOperation
  <2>1. Attempt /\ proc.phase = "applying" /\ proc.code = "new" /\ proc.i + 1 \in DOMAIN proc.m.ops
    BY <1>4 DEF NextOperation, ProcInv
  <2> DEFINE op == proc.m.ops[proc.i + 1]
  <2>2. /\ proc'.phase = proc.phase /\ proc'.code = proc.code /\ proc'.todo = proc.todo
        /\ proc'.m = proc.m /\ proc'.i = proc.i + 1 /\ proc'.step = FirstStep(op, New)
        /\ proc'.versions = proc.versions
        /\ plan' = plan /\ records' = records /\ tried' = tried
    BY <1>0, <1>4, <2>1 DEF NextOperation, ProcType, Schema, New
  <2>3. proc.m \in plan.migrations
    BY <2>1 DEF Attempt, None
  <2>4. op.kind \in Kinds /\ proc.i + 1 \in 0..Len(proc.m.ops) /\ proc.i + 1 # 0
    BY <1>0, <2>1, <2>3, PlanFacts
  <2>5. Doing' = op /\ New' = New
    BY <2>2 DEF Doing, New
  <2>6. proc'.step \in StepsOf(op.kind)
    BY <2>2, <2>4, FirstSteps
  <2> HIDE DEF op
  <2>7. Attempt'
    BY <2>1, <2>2, <2>3, <2>4, <2>5, <2>6 DEF Attempt, Versions
  <2> QED BY <2>1, <2>2, <2>7 DEF ProcInv, Versions
<1>5. CASE ApplyStep
  <2>1. /\ Attempt /\ Doing.kind \in Kinds /\ proc.step \in StepsOf(Doing.kind) \ {"fail", "done"}
        /\ FirstStep(Doing, New) \notin {"fail", "done"}
        /\ proc.i \in DOMAIN proc.m.ops /\ proc.phase = "applying"
    BY <1>5, WorkingFacts DEF ApplyStep, Working, Succeeds
  <2>2. Doing' = Doing /\ New' = New
    BY <1>5, ProcAfter DEF Doing, New
  <2>3. proc'.step \in StepsOf(Doing.kind) \ {"fail", "backfill"}
    BY <1>5, <2>1, ProcAfter, StepsAfter
  <2>4. Attempt'
    BY <1>5, <2>1, <2>2, <2>3, ProcAfter DEF Attempt, Versions
  <2> QED BY <1>5, <2>1, <2>4, ProcAfter DEF ProcInv, Versions
<1>6. CASE StepFails \/ StepRefused
  <2>1. proc.phase = "applying"
    BY <1>6 DEF StepFails, StepRefused, Working
  <2> QED BY <1>6, <2>1, AbortIs DEF ProcInv, Versions
<1>7. CASE Record
  <2>1. Attempt /\ proc.phase = "applying" /\ proc.code = "new" /\ tried # "no"
    BY <1>7 DEF Record, ProcInv
  <2>2. /\ proc'.phase = "recorded" /\ proc'.code = "new"
        /\ plan' = plan /\ records' = Versions /\ tried' = tried
    BY <1>0, <1>7, <2>1 DEF Record, ProcType, Attempt
  <2> QED BY <2>1, <2>2 DEF ProcInv, Versions
<1>8. CASE Persist
  <2>1. /\ proc'.phase = "serving" /\ proc'.code = proc.code /\ proc.phase = "recorded"
        /\ plan' = plan /\ records' = records /\ tried' = tried
    BY <1>0, <1>8 DEF Persist, ProcType
  <2> QED BY <2>1 DEF ProcInv, Versions
<1>9. CASE Close \/ Crash
  BY <1>9 DEF Close, Crash, ProcInv, Versions, Down
<1>10. CASE Write
  <2>1. plan' = plan /\ records' = records /\ tried' = tried /\ proc' = proc
        /\ proc.phase = "serving"
    BY <1>10, WriteIs
  <2> QED BY <2>1 DEF ProcInv, Versions
<1>11. CASE UNCHANGED vars
  <2>1. plan' = plan /\ records' = records /\ tried' = tried /\ proc' = proc
    BY <1>11 DEF vars
  <2> QED BY <2>1 DEF ProcInv, Versions, Attempt, Doing, New
<1>12. CASE DropIgnored
  <2>1. /\ Attempt /\ Doing.kind \in Kinds /\ proc.step \in StepsOf(Doing.kind) \ {"fail", "done"}
        /\ FirstStep(Doing, New) \notin {"fail", "done"}
        /\ proc.i \in DOMAIN proc.m.ops /\ proc.phase = "applying"
    BY <1>12, IgnoredIs, WorkingFacts DEF Working
  <2>2. Doing' = Doing /\ New' = New
    BY <1>12, IgnoredIs DEF Doing, New
  <2>3. proc'.step \in StepsOf(Doing.kind) \ {"fail", "backfill"}
    BY <1>12, <2>1, IgnoredIs, StepsAfter
  <2>4. Attempt'
    BY <1>12, <2>1, <2>2, <2>3, IgnoredIs DEF Attempt, Versions
  <2> QED BY <1>12, <2>1, <2>4, IgnoredIs DEF ProcInv, Versions
<1> QED BY <1>1, <1>2, <1>3, <1>4, <1>5, <1>6, <1>7, <1>8, <1>9, <1>10, <1>11, <1>12 DEF Next

-----------------------------------------------------------------------------
(* A rebuild, and the rows of the tables that stay. *)

\* Outside a rebuild there is no temporary table to drop.
LEMMA NoTemp ==
  ASSUME TypeInv
  PROVE  <<>> \notin DOMAIN disk.temps
<1>1. \A a, b : <<>> # <<a, b>>
  OBVIOUS
<1> QED BY <1>1 DEF TypeInv

LEMMA InitHolds == Init => TypeInv /\ ProcInv /\ RebuildInv
<1> SUFFICES ASSUME Init PROVE TypeInv /\ ProcInv /\ RebuildInv
  OBVIOUS
<1>1. /\ plan \in Plans /\ proc = Down /\ records = {} /\ tried = "no" /\ written = <<>>
      /\ disk = [tables |-> [t \in DOMAIN plan.old |-> Physical(plan.old[t])],
                temps |-> <<>>, uq |-> <<>>, rg |-> {}, objects |-> {}]
  BY DEF Init
<1>2. DiskType /\ ProcType
  BY <1>1 DEF DiskType, ProcType, Down
<1>3. \A t \in DOMAIN disk.tables : IsTable(disk.tables[t])
  <2> SUFFICES ASSUME NEW t \in DOMAIN disk.tables PROVE IsTable(disk.tables[t])
    OBVIOUS
  <2>1. t \in DOMAIN Old /\ disk.tables[t] = Physical(Old[t])
    BY <1>1 DEF Old
  <2> QED BY <1>1, <2>1, PlanFacts, RecordIsTable DEF Physical
<1>4. DOMAIN disk.temps = {} /\ DOMAIN written = {} /\ IsFiniteSet({})
  BY <1>1, FS_EmptySet
<1>5. ProcInv /\ RebuildInv
  BY <1>1 DEF ProcInv, RebuildInv, Down
<1> QED BY <1>1, <1>2, <1>3, <1>4, <1>5 DEF TypeInv

LEMMA RebuildNext ==
  ASSUME TypeInv, ProcInv, RebuildInv, [Next]_vars
  PROVE  RebuildInv'
<1>1. CASE ApplyStep
  <2>1. /\ proc.phase = "applying" /\ proc'.phase = "applying"
        /\ Doing.kind \in Kinds /\ proc.step \in StepsOf(Doing.kind) \ {"fail", "done"}
        /\ proc.step \in Steps
        /\ Target' = Target /\ T' = T /\ proc'.step = StepAfter(proc.step, Doing.kind)
    BY <1>1, WorkingFacts, ProcAfter DEF ApplyStep, Working, Succeeds, Target, Schema, T, Doing
  <2>2. CASE proc.step = "temp"
    <3>1. /\ proc'.step = "filltemp" /\ proc'.saved = Now.rows /\ proc'.temp = TempName
          /\ disk'.temps = With(disk.temps, TempName, Physical(Target)) /\ disk'.tables = disk.tables
          /\ T \in DOMAIN disk.tables
      <4>1. proc'.step = "filltemp"
        BY <2>1, <2>2, StepsAfter
      <4>2. proc'.saved = Now.rows /\ proc'.temp = TempName /\ T \in DOMAIN disk.tables
        BY <1>1, <2>2, ProcAfter DEF Succeeds
      <4>3. /\ disk'.temps = With(disk.temps, TempName, Physical(Target))
            /\ disk'.tables = disk.tables
        BY <1>1, <2>2, TempsAfter, TablesAfter
      <4> QED BY <4>1, <4>2, <4>3
    <3>2. Now' = Now /\ proc'.temp[1] = T
      <4>1. TempName = <<T, TempName[2]>>
        BY TempNameIsNew
      <4>2. TempName[1] = T
        BY <4>1
      <4> QED BY <2>1, <3>1, <4>2 DEF Now
    <3>3. proc'.temp \in DOMAIN disk'.temps /\ disk'.temps[proc'.temp] = Physical(Target)
      BY <3>1 DEF With
    <3>4. DOMAIN Physical(Target).rows = {}
      BY DEF Physical
    <3> QED BY <2>1, <3>1, <3>2, <3>3, <3>4 DEF RebuildInv, RebuildSteps
  <2>3. CASE proc.step = "filltemp"
    <3>1. /\ proc'.step = "droptable" /\ proc'.saved = proc.saved /\ proc'.temp = proc.temp
          /\ disk'.temps = [disk.temps EXCEPT ![proc.temp].rows = Copy] /\ disk'.tables = disk.tables
          /\ CopyFits
      BY <1>1, <2>1, <2>3, ProcAfter, StepsAfter, TempsAfter, TablesAfter DEF Succeeds
    <3>2. /\ proc.temp \in DOMAIN disk.temps /\ proc.temp[1] = T
          /\ T \in DOMAIN disk.tables /\ proc.saved = Now.rows
      BY <2>1, <2>3 DEF RebuildInv, RebuildSteps
    <3>3. Now' = Now /\ Copy' = Copy
      BY <2>1, <3>1 DEF Now, Copy
    <3>4. CopyFits'
      BY <2>1, <3>1, <3>3 DEF CopyFits
    <3>5. disk.temps[proc.temp] = [cols |-> disk.temps[proc.temp].cols, rows |-> disk.temps[proc.temp].rows]
      BY <3>2 DEF TypeInv, IsTable
    <3>6. disk'.temps[proc.temp].rows = Copy /\ DOMAIN disk'.temps = DOMAIN disk.temps
      BY <3>1, <3>2, <3>5
    <3> QED BY <2>1, <3>1, <3>2, <3>3, <3>4, <3>6 DEF RebuildInv, RebuildSteps
  <2>4. CASE proc.step \in {"droptable", "maketable", "fill"}
    <3>1. /\ proc'.step = IF proc.step = "droptable" THEN "maketable"
                          ELSE IF proc.step = "maketable" THEN "fill" ELSE "droptemp"
          /\ proc'.saved = proc.saved /\ proc'.temp = proc.temp /\ disk'.temps = disk.temps
      BY <1>1, <2>1, <2>4, ProcAfter, StepsAfter, TempsAfter
    <3>2. /\ proc.temp \in DOMAIN disk.temps /\ proc.temp[1] = T
          /\ disk.temps[proc.temp].rows = Copy /\ CopyFits
      BY <2>1, <2>4 DEF RebuildInv, RebuildSteps
    <3>3. Copy' = Copy
      BY <2>1, <3>1 DEF Copy
    <3>4. CopyFits'
      BY <2>1, <3>1, <3>2, <3>3 DEF CopyFits
    <3>5. CASE proc.step = "droptable"
      <4>1. disk'.tables = Without(disk.tables, {T})
        BY <1>1, <3>5, TablesAfter
      <4>2. T \notin DOMAIN disk'.tables
        BY <4>1 DEF Without
      <4> QED BY <2>1, <3>1, <3>2, <3>3, <3>4, <3>5, <4>2 DEF RebuildInv, RebuildSteps
    <3>6. CASE proc.step = "maketable"
      <4>1. disk'.tables = With(disk.tables, T, Physical(Target))
        BY <1>1, <3>6, TablesAfter
      <4>2. T \in DOMAIN disk'.tables /\ disk'.tables[T] = [cols |-> Target.cols, rows |-> <<>>]
        BY <4>1 DEF With, Physical
      <4>3. Now' = [cols |-> Target.cols, rows |-> <<>>]
        BY <2>1, <4>2 DEF Now
      <4>4. DOMAIN Now'.rows = {} /\ Now'.cols = Target.cols
        BY <4>3
      <4> QED BY <2>1, <3>1, <3>2, <3>3, <3>4, <3>6, <4>2, <4>4 DEF RebuildInv, RebuildSteps
    <3>7. CASE proc.step = "fill"
      <4>1. disk'.tables = With(disk.tables, T, [cols |-> Target.cols, rows |-> Copy])
        BY <1>1, <3>7, TablesAfter
      <4>2. T \in DOMAIN disk'.tables /\ disk'.tables[T].rows = Copy
        BY <4>1 DEF With
      <4>3. Now'.rows = Copy
        BY <2>1, <4>2 DEF Now
      <4> QED BY <2>1, <3>1, <3>2, <3>3, <3>4, <3>7, <4>2, <4>3 DEF RebuildInv, RebuildSteps
    <3> QED BY <2>4, <3>5, <3>6, <3>7
  <2>5. CASE proc.step = "droptemp"
    <3>1. proc'.step \in {"stale", "done"} /\ proc'.temp = <<>>
      BY <1>1, <2>1, <2>5, ProcAfter, StepsAfter
    <3> QED BY <2>1, <3>1 DEF RebuildInv, RebuildSteps
  <2>6. CASE proc.step \notin RebuildSteps
    <3>1. proc'.step \in {"clean", "temp", "done"} /\ proc'.temp = proc.temp
      BY <1>1, <2>1, <2>6, ProcAfter, StepsAfter DEF RebuildSteps
    <3> QED BY <2>1, <2>6, <3>1 DEF RebuildInv, RebuildSteps
  <2> QED BY <2>2, <2>3, <2>4, <2>5, <2>6 DEF RebuildSteps
<1>2. CASE StepFails \/ StepRefused
  BY <1>2, AbortIs DEF RebuildInv
<1>3. CASE Write
  BY <1>3, WriteIs DEF RebuildInv
<1>4. CASE Migrate
  <2>1. proc = [Down EXCEPT !.phase = "open", !.code = "new"]
    BY <1>4 DEF Migrate, ProcInv
  <2>2. proc'.step = "done" /\ proc'.temp = <<>>
    BY <1>4, <2>1 DEF Migrate, Down
  <2> QED BY <2>2 DEF RebuildInv, RebuildSteps
<1>5. CASE NextMigration
  <2>1. proc'.step = "done" /\ proc'.temp = proc.temp /\ proc.phase = "applying" /\ proc.step = "done"
    BY <1>5 DEF NextMigration, TypeInv, ProcType
  <2> QED BY <2>1 DEF RebuildInv, RebuildSteps
<1>6. CASE NextOperation
  <2>1. /\ proc'.step = FirstStep(proc.m.ops[proc.i + 1], Schema) /\ proc'.temp = proc.temp
        /\ proc.phase = "applying" /\ proc.step = "done" /\ proc.i + 1 \in DOMAIN proc.m.ops
    BY <1>6 DEF NextOperation, TypeInv, ProcType
  <2>2. proc.m \in plan.migrations
    BY <2>1 DEF ProcInv, Attempt, None
  <2>3. proc'.step \notin RebuildSteps \ {"temp"}
    <3>1. proc.m.ops[proc.i + 1].kind \in Kinds
      BY <2>1, <2>2, PlanFacts DEF TypeInv
    <3> QED BY <2>1, <3>1, FirstSteps
  <2>4. proc'.temp = <<>>
    BY <2>1 DEF RebuildInv, RebuildSteps
  <2> QED BY <2>3, <2>4 DEF RebuildInv
<1>7. CASE Record \/ Persist \/ Close \/ Crash \/ \E code \in {"old", "new"} : Open(code)
  <2>1. proc'.phase # "applying"
    <3>1. ASSUME NEW code, Open(code) PROVE proc'.phase # "applying"
      BY <3>1 DEF Open, Down
    <3>2. CASE Record \/ Persist
      BY <3>2 DEF Record, Persist, TypeInv, ProcType
    <3>3. CASE Close \/ Crash
      BY <3>3 DEF Close, Crash, Down
    <3> QED BY <1>7, <3>1, <3>2, <3>3
  <2> QED BY <2>1 DEF RebuildInv
<1>8. CASE UNCHANGED vars
  BY <1>8 DEF vars, RebuildInv, Now, Copy, CopyFits, Target, Schema, T, Doing
<1>9. CASE DropIgnored
  <2>1. /\ proc.phase = "applying" /\ proc.step \notin RebuildSteps
        /\ proc'.step \notin RebuildSteps /\ proc'.temp = proc.temp
    BY <1>9, IgnoredIs DEF Working, RebuildSteps
  <2> QED BY <2>1 DEF RebuildInv
<1> QED BY <1>1, <1>2, <1>3, <1>4, <1>5, <1>6, <1>7, <1>8, <1>9 DEF Next

\* The rows hold the row x[2] as the application wrote it, in the columns of
\* both releases.
Holds(p, w, x, rows) ==
  /\ x[2] \in DOMAIN rows
  /\ \A c \in DOMAIN p.old[x[1]].cols \cap DOMAIN p.new[x[1]].cols :
       Cell(rows[x[2]], c) = Cell(w[x], c)

Reach(d, p, w, x) ==
  \/ x[1] \in DOMAIN d.tables /\ Holds(p, w, x, d.tables[x[1]].rows)
  \/ \E n \in DOMAIN d.temps : n[1] = x[1] /\ Holds(p, w, x, d.temps[n].rows)

LEMMA Reachable ==
  RowsReachable <=> \A x \in DOMAIN written :
    x[1] \in DOMAIN plan.old \cap DOMAIN plan.new => Reach(disk, plan, written, x)
BY DEF RowsReachable, Reach, Holds

\* What a copy holds is what the table held.
LEMMA CopyHolds ==
  ASSUME NEW x, Target = New[T], x[1] = T
  PROVE  Holds(plan, written, x, Copy) <=> Holds(plan, written, x, proc.saved)
BY DEF Holds, Copy, New, Cell

LEMMA RowsNextStep ==
  ASSUME TypeInv, ProcInv, RebuildInv, ApplyStep, TablesStay(plan),
         NEW x \in DOMAIN written, x[1] \in DOMAIN plan.old \cap DOMAIN plan.new,
         Reach(disk, plan, written, x)
  PROVE  Reach(disk', plan, written, x)
<1>0. /\ proc.phase = "applying" /\ Working /\ Succeeds /\ Target = New[T] /\ proc.step \in Steps
      /\ Doing.kind \in Kinds /\ proc.step \in StepsOf(Doing.kind)
      /\ proc.m \in plan.migrations /\ proc.i \in DOMAIN proc.m.ops
  BY WorkingFacts, SchemaTarget DEF ApplyStep, Working, Succeeds
<1> DEFINE H(rows) == Holds(plan, written, x, rows)
<1> HIDE DEF H
<1>1. \/ x[1] \in DOMAIN disk.tables /\ H(disk.tables[x[1]].rows)
      \/ \E n \in DOMAIN disk.temps : n[1] = x[1] /\ H(disk.temps[n].rows)
  BY DEF Reach, H
<1>2. SUFFICES \/ x[1] \in DOMAIN disk'.tables /\ H(disk'.tables[x[1]].rows)
               \/ \E n \in DOMAIN disk'.temps : n[1] = x[1] /\ H(disk'.temps[n].rows)
  BY DEF Reach, H
<1>3. \A rows : DOMAIN rows = {} => ~H(rows)
  BY DEF H, Holds
<1>4. CASE proc.step = "temp"
  <2>1. /\ disk'.temps = With(disk.temps, TempName, Physical(Target)) /\ disk'.tables = disk.tables
    BY <1>4, TempsAfter, TablesAfter
  <2>2. TempName \notin DOMAIN disk.temps
    BY TempNameIsNew
  <2> QED BY <1>1, <2>1, <2>2 DEF With
<1>5. CASE proc.step = "filltemp"
  <2>1. /\ disk'.temps = [disk.temps EXCEPT ![proc.temp].rows = Copy] /\ disk'.tables = disk.tables
    BY <1>5, TempsAfter, TablesAfter
  <2>2. DOMAIN disk.temps[proc.temp].rows = {}
    BY <1>0, <1>5 DEF RebuildInv, RebuildSteps
  <2>3. \A n \in DOMAIN disk.temps : n # proc.temp => disk'.temps[n] = disk.temps[n]
    BY <2>1
  <2>4. DOMAIN disk'.temps = DOMAIN disk.temps
    BY <2>1
  <2> QED BY <1>1, <1>3, <2>1, <2>2, <2>3, <2>4
<1>6. CASE proc.step = "droptable"
  <2>1. /\ disk'.temps = disk.temps /\ disk'.tables = Without(disk.tables, {T})
    BY <1>6, TempsAfter, TablesAfter
  <2>2. /\ proc.temp \in DOMAIN disk.temps /\ proc.temp[1] = T /\ proc.saved = disk.tables[T].rows
        /\ disk.temps[proc.temp].rows = Copy
    BY <1>0, <1>6 DEF RebuildInv, RebuildSteps, Now
  <2>3. x[1] = T /\ H(disk.tables[T].rows) => H(disk.temps[proc.temp].rows)
    BY <1>0, <2>2, CopyHolds DEF H
  <2>4. x[1] # T /\ x[1] \in DOMAIN disk.tables =>
          x[1] \in DOMAIN disk'.tables /\ disk'.tables[x[1]] = disk.tables[x[1]]
    BY <2>1 DEF Without
  <2> QED BY <1>1, <2>1, <2>2, <2>3, <2>4
<1>7. CASE proc.step \in {"maketable", "fill"}
  <2>1. /\ disk'.temps = disk.temps /\ \E y : disk'.tables = With(disk.tables, T, y)
    BY <1>7, TempsAfter, TablesAfter
  <2>2. T \in DOMAIN disk.tables => DOMAIN disk.tables[T].rows = {}
    BY <1>0, <1>7 DEF RebuildInv, RebuildSteps, Now
  <2>3. x[1] # T /\ x[1] \in DOMAIN disk.tables =>
          x[1] \in DOMAIN disk'.tables /\ disk'.tables[x[1]] = disk.tables[x[1]]
    BY <2>1 DEF With
  <2> QED BY <1>1, <1>3, <2>1, <2>2, <2>3
<1>8. CASE proc.step = "droptemp"
  <2>1. /\ disk'.temps = Without(disk.temps, {proc.temp}) /\ disk'.tables = disk.tables
    BY <1>8, TempsAfter, TablesAfter
  <2>2. /\ proc.temp[1] = T /\ T \in DOMAIN disk.tables /\ disk.tables[T].rows = disk.temps[proc.temp].rows
    BY <1>0, <1>8 DEF RebuildInv, RebuildSteps, Now
  <2> QED BY <1>1, <2>1, <2>2 DEF Without
<1>9. CASE proc.step \notin RebuildSteps
  <2>1. disk'.temps = disk.temps
    BY <1>9, TempsAfter DEF RebuildSteps
  <2>2. CASE proc.step = "drop"
    <3>1. Doing.kind = "drop_table"
      BY <1>0, <2>2 DEF StepsOf, Kinds, RebuildSteps
    <3>2. Doing \in OpsOf(plan)
      BY <1>0 DEF OpsOf, Doing
    <3>3. T # x[1]
      BY <3>1, <3>2 DEF TablesStay, T
    <3>4. disk'.tables = Without(disk.tables, {T})
      BY <2>2, TablesAfter
    <3> QED BY <1>1, <2>1, <3>3, <3>4 DEF Without
  <2>3. CASE proc.step = "create" /\ T \notin DOMAIN disk.tables
    <3>1. disk'.tables = With(disk.tables, T, Physical(Target))
      BY <2>3, TablesAfter
    <3> QED BY <1>1, <2>1, <2>3, <3>1 DEF With
  <2>4. CASE proc.step \in {"addcol", "alter"}
    <3>1. \E cols : disk'.tables = With(disk.tables, T, [cols |-> cols, rows |-> Now.rows])
      BY <2>4, TablesAfter
    <3>2. PICK cols : disk'.tables = With(disk.tables, T, [cols |-> cols, rows |-> disk.tables[T].rows])
      BY <3>1 DEF Now
    <3> QED BY <1>1, <2>1, <3>2 DEF With
  <2>5. CASE /\ proc.step \notin {"drop", "addcol", "alter"}
             /\ proc.step # "create" \/ T \in DOMAIN disk.tables
    <3>1. disk'.tables = disk.tables
      BY <1>9, <2>5, TablesAfter DEF RebuildSteps
    <3> QED BY <1>1, <2>1, <3>1
  <2> QED BY <2>2, <2>3, <2>4, <2>5
<1> QED BY <1>4, <1>5, <1>6, <1>7, <1>8, <1>9 DEF RebuildSteps

\* The error paths drop a temporary table whose rows are in the table.
LEMMA RowsAbort ==
  ASSUME TypeInv, ProcInv, RebuildInv, StepFails \/ StepRefused,
         Refusable \cap {"maketable", "fill"} = {},
         NEW x \in DOMAIN written, Reach(disk, plan, written, x)
  PROVE  Reach(disk', plan, written, x)
<1>1. /\ proc.phase = "applying" /\ disk'.temps = Without(disk.temps, {proc.temp})
      /\ disk'.tables = disk.tables
  BY AbortIs DEF StepFails, StepRefused, Working
<1>2. proc.step \notin {"maketable", "fill"}
  BY DEF StepFails, StepRefused, Succeeds
<1>3. proc.temp \in DOMAIN disk.temps => proc.step \in {"filltemp", "droptable", "droptemp"}
  BY <1>1, <1>2, NoTemp DEF RebuildInv, RebuildSteps
<1>4. CASE proc.temp \notin DOMAIN disk.temps
  <2>1. \A n \in DOMAIN disk.temps : n \in DOMAIN disk'.temps /\ disk'.temps[n] = disk.temps[n]
    BY <1>1, <1>4 DEF Without
  <2> QED BY <1>1, <2>1 DEF Reach
<1>5. CASE proc.step = "filltemp"
  <2>1. DOMAIN disk.temps[proc.temp].rows = {}
    BY <1>1, <1>5 DEF RebuildInv, RebuildSteps
  <2>2. \A n \in DOMAIN disk.temps : n # proc.temp => n \in DOMAIN disk'.temps /\ disk'.temps[n] = disk.temps[n]
    BY <1>1 DEF Without
  <2> QED BY <1>1, <2>1, <2>2 DEF Reach, Holds
<1>6. CASE proc.step \in {"droptable", "droptemp"}
  <2>1. /\ proc.temp[1] = T /\ T \in DOMAIN disk.tables
        /\ disk.temps[proc.temp].rows = Copy
        /\ proc.step = "droptable" => proc.saved = disk.tables[T].rows
        /\ proc.step = "droptemp" => Copy = disk.tables[T].rows
    BY <1>1, <1>6 DEF RebuildInv, RebuildSteps, Now
  <2>2. Target = New[T]
    BY SchemaTarget DEF StepFails, StepRefused
  <2>3. x[1] = T => (Holds(plan, written, x, disk.temps[proc.temp].rows)
                       <=> Holds(plan, written, x, disk.tables[T].rows))
    BY <1>6, <2>1, <2>2, CopyHolds
  <2>4. \A n \in DOMAIN disk.temps : n # proc.temp => n \in DOMAIN disk'.temps /\ disk'.temps[n] = disk.temps[n]
    BY <1>1 DEF Without
  <2> QED BY <1>1, <2>1, <2>3, <2>4 DEF Reach
<1> QED BY <1>3, <1>4, <1>5, <1>6

LEMMA RowsWrite ==
  ASSUME TypeInv, ProcInv, Write, NEW x \in DOMAIN written',
         x \in DOMAIN written => Reach(disk, plan, written, x)
  PROVE  Reach(disk', plan, written', x)
<1>1. PICK t \in DOMAIN Schema, k \in RowKeys : (\E row : InsertRow(t, k, row)) \/ DeleteRow(t, k)
  BY DEF Write
<1>2. ASSUME NEW row, InsertRow(t, k, row)
      PROVE  Reach(disk', plan, written', x)
  <2>1. /\ t \in DOMAIN disk.tables /\ k \notin DOMAIN disk.tables[t].rows
        /\ written' = With(written, <<t, k>>, row)
    BY <1>2 DEF InsertRow, Stored
  <2>2. disk'.tables = [disk.tables EXCEPT ![t].rows = With(@, k, row)] /\ disk'.temps = disk.temps
    BY <1>2 DEF InsertRow, TypeInv, DiskType
  <2>3. IsTable(disk.tables[t])
    BY <2>1 DEF TypeInv
  <2>4. DOMAIN disk'.tables = DOMAIN disk.tables
        /\ \A y \in DOMAIN disk.tables : y # t => disk'.tables[y] = disk.tables[y]
    BY <2>2
  <2>5. disk'.tables[t].rows = With(disk.tables[t].rows, k, row)
    BY <2>1, <2>2, <2>3 DEF IsTable
  <2>6. CASE x = <<t, k>>
    <3>1. x[1] = t /\ x[2] = k /\ written'[x] = row
      BY <2>1, <2>6 DEF With
    <3>2. k \in DOMAIN disk'.tables[t].rows /\ disk'.tables[t].rows[k] = row
      BY <2>5 DEF With
    <3> QED BY <2>1, <2>4, <3>1, <3>2 DEF Reach, Holds
  <2>7. CASE x # <<t, k>>
    <3>1. x \in DOMAIN written /\ written'[x] = written[x] /\ x = <<x[1], x[2]>>
      BY <2>1, <2>7 DEF With, TypeInv
    <3>2. Reach(disk, plan, written', x)
      BY <3>1 DEF Reach, Holds
    <3>3. CASE \E n \in DOMAIN disk.temps : n[1] = x[1] /\ Holds(plan, written', x, disk.temps[n].rows)
      BY <2>2, <3>3 DEF Reach
    <3>4. CASE x[1] \in DOMAIN disk.tables /\ Holds(plan, written', x, disk.tables[x[1]].rows)
      <4>1. CASE x[1] # t
        BY <2>4, <3>4, <4>1 DEF Reach
      <4>2. CASE x[1] = t
        <5>1. x[2] # k
          BY <2>7, <3>1, <4>2
        <5>2. x[2] \in DOMAIN disk.tables[t].rows => /\ x[2] \in DOMAIN disk'.tables[t].rows
                /\ disk'.tables[t].rows[x[2]] = disk.tables[t].rows[x[2]]
          BY <2>5, <5>1 DEF With
        <5> QED BY <2>4, <3>4, <4>2, <5>2 DEF Reach, Holds
      <4> QED BY <4>1, <4>2
    <3> QED BY <3>2, <3>3, <3>4 DEF Reach
  <2> QED BY <2>6, <2>7
<1>3. CASE DeleteRow(t, k)
  <2>1. t \in DOMAIN disk.tables /\ written' = Without(written, {<<t, k>>})
    BY <1>3 DEF DeleteRow, Stored
  <2>2. disk'.tables = [disk.tables EXCEPT ![t].rows = Without(@, {k})] /\ disk'.temps = disk.temps
    BY <1>3 DEF DeleteRow, TypeInv, DiskType
  <2>3. IsTable(disk.tables[t])
    BY <2>1 DEF TypeInv
  <2>4. DOMAIN disk'.tables = DOMAIN disk.tables
        /\ \A y \in DOMAIN disk.tables : y # t => disk'.tables[y] = disk.tables[y]
    BY <2>2
  <2>5. disk'.tables[t].rows = Without(disk.tables[t].rows, {k})
    BY <2>1, <2>2, <2>3 DEF IsTable
  <2>6. x \in DOMAIN written /\ written'[x] = written[x] /\ x # <<t, k>> /\ x = <<x[1], x[2]>>
    BY <2>1 DEF Without, TypeInv
  <2>7. Reach(disk, plan, written', x)
    BY <2>6 DEF Reach, Holds
  <2>8. CASE \E n \in DOMAIN disk.temps : n[1] = x[1] /\ Holds(plan, written', x, disk.temps[n].rows)
    BY <2>2, <2>8 DEF Reach
  <2>9. CASE x[1] \in DOMAIN disk.tables /\ Holds(plan, written', x, disk.tables[x[1]].rows)
    <3>1. CASE x[1] # t
      BY <2>4, <2>9, <3>1 DEF Reach
    <3>2. CASE x[1] = t
      <4>1. x[2] # k
        BY <2>6, <3>2
      <4>2. x[2] \in DOMAIN disk.tables[t].rows => /\ x[2] \in DOMAIN disk'.tables[t].rows
              /\ disk'.tables[t].rows[x[2]] = disk.tables[t].rows[x[2]]
        BY <2>5, <4>1 DEF Without
      <4> QED BY <2>4, <2>9, <3>2, <4>2 DEF Reach, Holds
    <3> QED BY <3>1, <3>2
  <2> QED BY <2>7, <2>8, <2>9 DEF Reach
<1> QED BY <1>1, <1>2, <1>3

LEMMA QuietIs ==
  ASSUME Quiet \/ UNCHANGED vars
  PROVE  disk' = disk /\ plan' = plan /\ written' = written
BY DEF Quiet, Open, Migrate, NextMigration, NextOperation, DropIgnored, Record, Persist, Close,
       Crash, vars

\* Every row the application stored in a table of both releases can be found
\* with its values, at every moment of every attempt, however often it is cut
\* short (rebuild_table copies before it drops).  The plans drop no such
\* table, and the engine does not refuse to create the table again or to
\* write the rows back, on whose error the code drops the copy.
THEOREM RowsAreReachable ==
  ASSUME \A p \in Plans : TablesStay(p),
         Refusable \cap {"maketable", "fill"} = {}
  PROVE  Spec => []RowsReachable
<1> DEFINE Inv == TypeInv /\ ProcInv /\ RebuildInv /\ RowsReachable
<1>1. Init => Inv
  BY InitHolds, Reachable DEF Init
<1>2. ASSUME Inv, [Next]_vars
      PROVE  Inv'
  <2>1. TypeInv' /\ ProcInv' /\ RebuildInv'
    BY <1>2, TypeNext, ProcNext, RebuildNext
  <2>2. plan' = plan /\ TablesStay(plan)
    BY <1>2, ProcAfter, AbortIs, WriteIs, QuietIs DEF TypeInv, Next, Quiet
  <2>3. SUFFICES ASSUME NEW x \in DOMAIN written', x[1] \in DOMAIN plan.old \cap DOMAIN plan.new
                 PROVE  Reach(disk', plan, written', x)
    <3>1. RowsReachable' <=> \A x \in DOMAIN written' :
            x[1] \in DOMAIN plan'.old \cap DOMAIN plan'.new => Reach(disk', plan', written', x)
      BY DEF RowsReachable, Reach, Holds
    <3> QED BY <2>1, <2>2, <3>1
  <2>4. x \in DOMAIN written => Reach(disk, plan, written, x)
    BY <1>2, <2>3, Reachable
  <2>5. CASE ApplyStep
    BY <1>2, <2>2, <2>3, <2>4, <2>5, RowsNextStep, ProcAfter
  <2>6. CASE StepFails \/ StepRefused
    BY <1>2, <2>3, <2>4, <2>6, RowsAbort, AbortIs
  <2>7. CASE Write
    BY <1>2, <2>3, <2>4, <2>7, RowsWrite
  <2>8. CASE Quiet \/ UNCHANGED vars
    BY <2>3, <2>4, <2>8, QuietIs
  <2> QED BY <1>2, <2>5, <2>6, <2>7, <2>8 DEF Next, Quiet
<1> QED BY <1>1, <1>2, PTL DEF Spec

-----------------------------------------------------------------------------
(* What the steps do to the tables as the attempt sees them. *)

Same(t) == /\ Here(t)' <=> Here(t)
           /\ Here(t) => RowsOf(t)' = RowsOf(t) /\ ColsOf(t)' = ColsOf(t)

\* Steps that leave the tables alone, and those that end the attempt.
Still == \/ \E code \in {"old", "new"} : Open(code)
         \/ Migrate \/ NextMigration \/ NextOperation \/ DropIgnored
         \/ Record \/ Persist \/ Close
         \/ UNCHANGED vars

Ends == StepFails \/ StepRefused \/ Crash

LEMMA NextIs ==
  ASSUME [Next]_vars
  PROVE  Still \/ ApplyStep \/ Ends \/ Write
BY DEF Next, Still, Ends

\* The next operation begins with its first step.
LEMMA NextOperationIs ==
  ASSUME TypeInv, ProcInv, NextOperation
  PROVE  /\ proc.phase = "applying" /\ proc.step = "done" /\ records = {}
         /\ proc.m \in plan.migrations /\ proc.i + 1 \in DOMAIN proc.m.ops /\ proc.i \in Nat
         /\ proc'.phase = "applying" /\ proc'.todo = proc.todo /\ proc'.m = proc.m
         /\ proc'.i = proc.i + 1 /\ proc'.step = FirstStep(proc.m.ops[proc.i + 1], New)
         /\ proc.m.ops[proc.i + 1].kind \in Kinds
         /\ proc'.step \notin {"clean", "stale"} \cup (RebuildSteps \ {"temp"})
<1>1. Attempt /\ proc.phase = "applying" /\ proc.step = "done" /\ proc.code = "new"
      /\ proc.i + 1 \in DOMAIN proc.m.ops
  BY DEF NextOperation, ProcInv
<1>2. proc.m \in plan.migrations /\ records = {}
  BY <1>1 DEF Attempt, None
<1>3. /\ proc'.phase = proc.phase /\ proc'.todo = proc.todo /\ proc'.m = proc.m
      /\ proc'.i = proc.i + 1 /\ proc'.step = FirstStep(proc.m.ops[proc.i + 1], New)
  BY <1>1 DEF NextOperation, TypeInv, ProcType, Schema, New
<1>4. Len(proc.m.ops) \in Nat /\ proc.m.ops[proc.i + 1].kind \in Kinds
  BY <1>1, <1>2, PlanFacts DEF TypeInv
<1>5. proc.i \in Nat
  BY <1>1, <1>4 DEF Attempt
<1> QED BY <1>1, <1>2, <1>3, <1>4, <1>5, FirstSteps

LEMMA StillSees ==
  ASSUME TypeInv, ProcInv, Still, NEW t
  PROVE  Same(t)
<1>1. CASE UNCHANGED vars
  BY <1>1 DEF vars, Same, Here, RowsOf, ColsOf, Away, T, Doing, Copy, Target, Schema
<1>2. ASSUME ~Away, ~Away', disk' = disk
      PROVE  Same(t)
  BY <1>2 DEF Same, Here, RowsOf, ColsOf
<1>3. ASSUME NEW code, Open(code)
      PROVE  ~Away /\ ~Away' /\ disk' = disk
  BY <1>3 DEF Open, Away, Down
<1>4. CASE Migrate
  <2>1. proc = [Down EXCEPT !.phase = "open", !.code = "new"]
    BY <1>4 DEF Migrate, ProcInv
  <2>2. proc'.step = "done"
    BY <1>4, <2>1 DEF Migrate, Down
  <2>3. disk' = disk /\ proc.phase = "open"
    BY <1>4 DEF Migrate
  <2> QED BY <1>2, <2>2, <2>3 DEF Away
<1>5. CASE NextMigration
  <2>1. proc'.step = "done" /\ proc.step = "done" /\ disk' = disk
    BY <1>5 DEF NextMigration, TypeInv, ProcType
  <2> QED BY <1>2, <2>1 DEF Away
<1>6. CASE NextOperation
  <2>1. proc.step = "done" /\ proc'.step \notin {"maketable", "fill"} /\ disk' = disk
    BY <1>6, NextOperationIs DEF NextOperation, RebuildSteps
  <2> QED BY <1>2, <2>1 DEF Away
<1>7. CASE Record \/ Persist
  <2>1. proc'.phase # "applying" /\ disk' = disk /\ (proc.step = "done" \/ proc.phase # "applying")
    BY <1>7 DEF Record, Persist, TypeInv, ProcType
  <2> QED BY <1>2, <2>1 DEF Away
<1>8. CASE Close
  <2>1. proc'.phase # "applying" /\ disk' = disk /\ proc.phase # "applying"
    BY <1>8 DEF Close, Down
  <2> QED BY <1>2, <2>1 DEF Away
<1>9. CASE DropIgnored
  BY <1>2, <1>9, IgnoredIs DEF Away
<1> QED BY <1>1, <1>2, <1>3, <1>4, <1>5, <1>6, <1>7, <1>8, <1>9 DEF Still

\* An attempt that ends between the drop and the copy back loses its rows
\* from view.
LEMMA EndsSees ==
  ASSUME TypeInv, ProcInv, RebuildInv, Ends, NEW t
  PROVE  /\ disk'.tables = disk.tables /\ disk'.uq = disk.uq /\ disk'.rg = disk.rg
         /\ proc'.phase # "applying"
         /\ plan' = plan /\ records' = records /\ tried' = tried /\ ignored' = ignored
         /\ ~Away => Same(t)
         /\ Here(t)' => /\ Here(t) /\ ColsOf(t)' = ColsOf(t)
                       /\ \A k \in DOMAIN RowsOf(t)' : k \in DOMAIN RowsOf(t) /\ RowsOf(t)'[k] = RowsOf(t)[k]
         /\ Here(t) /\ ~Here(t)' => /\ t = T /\ Away
<1>0. /\ disk'.tables = disk.tables /\ disk'.uq = disk.uq /\ disk'.rg = disk.rg
      /\ proc'.phase # "applying" /\ plan' = plan /\ records' = records /\ tried' = tried
      /\ ignored' = ignored
  <2>1. CASE Crash
    BY <2>1 DEF Crash, Down
  <2>2. CASE StepFails \/ StepRefused
    BY <2>2, AbortIs
  <2> QED BY <2>1, <2>2 DEF Ends
<1>2. /\ Here(t)' <=> t \in DOMAIN disk.tables
      /\ RowsOf(t)' = disk.tables[t].rows /\ ColsOf(t)' = disk.tables[t].cols
  BY <1>0 DEF Here, RowsOf, ColsOf, Away
<1>3. CASE ~(Away /\ t = T)
  BY <1>0, <1>2, <1>3 DEF Here, RowsOf, ColsOf, Same
<1>4. CASE Away /\ t = T
  <2>1. /\ proc.step = "maketable" => T \notin DOMAIN disk.tables
        /\ proc.step = "fill" => /\ T \in DOMAIN disk.tables /\ DOMAIN disk.tables[T].rows = {}
                                /\ disk.tables[T].cols = Target.cols
    BY <1>4 DEF RebuildInv, RebuildSteps, Away, Now
  <2> QED BY <1>0, <1>2, <1>4, <2>1 DEF Here, RowsOf, ColsOf, Away
<1> QED BY <1>0, <1>3, <1>4

\* A step leaves the other tables alone,
LEMMA OthersSame ==
  ASSUME TypeInv, ProcInv, ApplyStep, NEW t, t # T
  PROVE  Same(t)
<1>1. T' = T /\ proc.step \in Steps
  BY ProcAfter, WorkingFacts DEF T, Doing, Succeeds
<1>2. CASE \E x : disk'.tables = With(disk.tables, T, x)
  BY <1>1, <1>2 DEF With, Same, Here, RowsOf, ColsOf
<1>3. CASE disk'.tables = Without(disk.tables, {T})
  BY <1>1, <1>3 DEF Without, Same, Here, RowsOf, ColsOf
<1>4. CASE disk'.tables = disk.tables
  BY <1>1, <1>4 DEF Same, Here, RowsOf, ColsOf
<1> QED BY <1>2, <1>3, <1>4, TablesAfter

\* and does with its own what it is for.
LEMMA StepSees ==
  ASSUME TypeInv, ProcInv, RebuildInv, ApplyStep, NEW t, t = T
  PROVE  /\ proc.step = "create" /\ ~Here(t) =>
              Here(t)' /\ DOMAIN RowsOf(t)' = {} /\ ColsOf(t)' = New[t].cols
         /\ proc.step = "drop" => ~Here(t)'
         /\ proc.step \in {"addcol", "alter"} =>
              /\ t \in DOMAIN disk.tables /\ Here(t) /\ Here(t)' /\ RowsOf(t)' = RowsOf(t)
              /\ LET c == IF proc.step = "addcol" THEN AddedColumn ELSE AlteredColumn
                 IN  /\ ColsOf(t)' = With(ColsOf(t), c, New[t].cols[c])
                     /\ \A k \in DOMAIN RowsOf(t) : Storable(ColsOf(t)', RowsOf(t)[k])
         /\ proc.step = "droptable" =>
              /\ t \in DOMAIN disk.tables /\ Here(t) /\ Here(t)'
              /\ RowsOf(t)' = [k \in DOMAIN RowsOf(t) |->
                                [c \in DOMAIN New[t].cols |-> CellAt(t, k, c)]]
              /\ ColsOf(t)' = New[t].cols
              /\ \A k \in DOMAIN RowsOf(t)' : Storable(New[t].cols, RowsOf(t)'[k])
         /\ \/ proc.step \notin {"create", "drop", "addcol", "alter", "droptable"}
            \/ proc.step = "create" /\ Here(t)
            => Same(t)
<1>0. /\ T' = T /\ proc.step \in Steps /\ Target = New[T] /\ Target' = Target /\ Working /\ Succeeds
      /\ proc.phase = "applying" /\ proc'.phase = "applying" /\ Doing.kind \in Kinds
      /\ proc.step \in StepsOf(Doing.kind) \ {"fail", "done"}
      /\ proc'.step = StepAfter(proc.step, Doing.kind)
      /\ proc'.saved = proc.saved \/ proc.step \in {"temp", "droptemp"}
  BY ProcAfter, WorkingFacts, SchemaTarget DEF T, Doing, Target, Schema, Succeeds, Working
<1>1. /\ proc'.step \in {"maketable", "fill"} <=> proc.step \in {"droptable", "maketable"}
      /\ proc.step \notin {"maketable", "fill"} => ~Away
      /\ proc.step \notin {"droptable", "maketable"} => ~Away'
      /\ proc.step \in {"maketable", "fill"} => Away
      /\ proc.step \in {"droptable", "maketable"} => Away'
  <2>1. proc'.step \in {"maketable", "fill"} <=> proc.step \in {"droptable", "maketable"}
    BY <1>0, StepsAfter DEF RebuildSteps
  <2> QED BY <1>0, <2>1 DEF Away
<1>2. CASE proc.step = "create"
  <2>1. CASE T \in DOMAIN disk.tables
    BY <1>0, <1>1, <1>2, <2>1, TablesAfter DEF Same, Here, RowsOf, ColsOf
  <2>2. CASE T \notin DOMAIN disk.tables
    <3>1. disk'.tables = With(disk.tables, T, Physical(Target))
      BY <1>2, <2>2, TablesAfter
    <3>2. T \in DOMAIN disk'.tables /\ disk'.tables[T] = [cols |-> Target.cols, rows |-> <<>>]
      BY <3>1 DEF With, Physical
    <3> QED BY <1>0, <1>1, <1>2, <2>2, <3>2 DEF Here, RowsOf, ColsOf
  <2> QED BY <2>1, <2>2
<1>3. CASE proc.step = "drop"
  <2>1. disk'.tables = Without(disk.tables, {T})
    BY <1>3, TablesAfter
  <2> QED BY <1>0, <1>1, <1>3, <2>1 DEF Without, Here
<1>4. CASE proc.step \in {"addcol", "alter"}
  <2> DEFINE c == IF proc.step = "addcol" THEN AddedColumn ELSE AlteredColumn
  <2>1. T \in DOMAIN disk.tables /\ ColumnFits(c)
    BY <1>0, <1>4 DEF Succeeds, AddsColumn, AltersColumn
  <2>2. disk'.tables = With(disk.tables, T, [cols |-> WithColumn(c), rows |-> Now.rows])
    BY <1>4, TablesAfter
  <2> HIDE DEF c
  <2>3. T \in DOMAIN disk'.tables /\ disk'.tables[T] = [cols |-> WithColumn(c), rows |-> Now.rows]
    BY <2>2 DEF With
  <2>4. /\ Here(t) /\ Here(t)' /\ RowsOf(t) = Now.rows /\ ColsOf(t) = Now.cols
        /\ RowsOf(t)' = Now.rows /\ ColsOf(t)' = WithColumn(c)
    BY <1>0, <1>1, <1>4, <2>1, <2>3 DEF Here, RowsOf, ColsOf, Now
  <2>5. WithColumn(c) = With(ColsOf(t), c, New[T].cols[c])
    BY <1>0, <2>4 DEF WithColumn
  <2>6. \A k \in DOMAIN RowsOf(t) : Storable(ColsOf(t)', RowsOf(t)[k])
    BY <2>1, <2>4 DEF ColumnFits
  <2>7. /\ ColsOf(t)' = With(ColsOf(t), c, New[T].cols[c])
        /\ \A k \in DOMAIN RowsOf(t) : Storable(ColsOf(t)', RowsOf(t)[k])
    BY <2>4, <2>5, <2>6
  <2> QED BY <1>4, <2>1, <2>4, <2>7 DEF c
<1>5. CASE proc.step = "droptable"
  <2>1. T \in DOMAIN disk.tables /\ proc.saved = disk.tables[T].rows /\ CopyFits
    BY <1>0, <1>5 DEF RebuildInv, RebuildSteps, Now
  <2>2. Here(t) /\ Here(t)' /\ RowsOf(t) = proc.saved /\ RowsOf(t)' = Copy' /\ ColsOf(t)' = New[T].cols
    BY <1>0, <1>1, <1>5, <2>1 DEF Here, RowsOf, ColsOf
  <2>3. Copy' = Copy
    BY <1>0, <1>5 DEF Copy
  <2>4. Copy = [k \in DOMAIN RowsOf(t) |-> [c \in DOMAIN New[T].cols |-> CellAt(t, k, c)]]
    BY <1>0, <2>2 DEF Copy, CellAt
  <2>5. \A k \in DOMAIN Copy : Storable(New[T].cols, Copy[k])
    BY <1>0, <2>1 DEF CopyFits
  <2> QED BY <1>5, <2>1, <2>2, <2>3, <2>4, <2>5
<1>6. CASE proc.step = "maketable"
  <2>1. Copy' = Copy
    BY <1>0, <1>6 DEF Copy
  <2> QED BY <1>0, <1>1, <1>6, <2>1 DEF Same, Here, RowsOf, ColsOf
<1>7. CASE proc.step = "fill"
  <2>1. disk'.tables = With(disk.tables, T, [cols |-> Target.cols, rows |-> Copy])
    BY <1>7, TablesAfter
  <2>2. T \in DOMAIN disk'.tables /\ disk'.tables[T] = [cols |-> Target.cols, rows |-> Copy]
    BY <2>1 DEF With
  <2> QED BY <1>0, <1>1, <1>7, <2>2 DEF Same, Here, RowsOf, ColsOf
<1>8. CASE proc.step \notin {"create", "drop", "addcol", "alter", "droptable", "maketable", "fill"}
  <2>1. disk'.tables = disk.tables
    BY <1>8, TablesAfter
  <2> QED BY <1>0, <1>1, <1>8, <2>1 DEF Same, Here, RowsOf, ColsOf
<1> QED BY <1>2, <1>3, <1>4, <1>5, <1>6, <1>7, <1>8

\* A step brings no rows and changes no cell, but for those of columns that
\* are gone; the rows go with their table only.
LEMMA StepKeeps ==
  ASSUME TypeInv, ProcInv, RebuildInv, ApplyStep, NEW t
  PROVE  /\ \A k : Here(t)' /\ k \in DOMAIN RowsOf(t)' =>
              /\ Here(t) /\ k \in DOMAIN RowsOf(t)
              /\ \A c : CellAt(t, k, c)' \in {CellAt(t, k, c), Null}
         /\ Here(t) /\ Here(t)' => DOMAIN RowsOf(t) \subseteq DOMAIN RowsOf(t)'
         /\ Here(t) /\ ~Here(t)' => t = T /\ proc.step = "drop"
         /\ ~Here(t) /\ Here(t)' => t = T /\ proc.step = "create"
<1>1. CASE t # T
  BY <1>1, OthersSame DEF Same, CellAt
<1>2. CASE t = T
  <2>1. CASE Same(t)
    BY <1>2, <2>1 DEF Same, CellAt
  <2>2. CASE proc.step = "create" /\ ~Here(t)
    BY <1>2, <2>2, StepSees
  <2>3. CASE proc.step = "drop"
    BY <1>2, <2>3, StepSees
  <2>4. CASE proc.step \in {"addcol", "alter"}
    BY <1>2, <2>4, StepSees DEF CellAt
  <2>5. CASE proc.step = "droptable"
    <3>1. /\ Here(t) /\ Here(t)'
          /\ RowsOf(t)' = [k \in DOMAIN RowsOf(t) |->
                            [c \in DOMAIN New[t].cols |-> CellAt(t, k, c)]]
      BY <1>2, <2>5, StepSees
    <3>2. \A k \in DOMAIN RowsOf(t) : \A c : CellAt(t, k, c)' \in {CellAt(t, k, c), Null}
      BY <3>1 DEF CellAt, Cell
    <3> QED BY <1>2, <2>5, <3>1, <3>2
  <2> QED BY <1>2, <2>1, <2>2, <2>3, <2>4, <2>5, StepSees
<1> QED BY <1>1, <1>2

-----------------------------------------------------------------------------
(* When an operation is past. *)

\* A step moves its own operation only,
LEMMA PastStep ==
  ASSUME TypeInv, ProcInv, ApplyStep, NEW m, NEW i, NEW S
  PROVE  /\ m # proc.m \/ i # proc.i => (Past(m, i, S)' <=> Past(m, i, S))
         /\ m = proc.m /\ i = proc.i /\ Past(m, i, S)' =>
              StepAfter(proc.step, Doing.kind) \notin S \cup {"fail"}
         /\ records = {} /\ records' = {}
BY ProcAfter, WorkingFacts DEF Past, Coming, At, ApplyStep, Working

\* and so does a drop that was ignored,
LEMMA PastIgnored ==
  ASSUME TypeInv, ProcInv, DropIgnored, NEW m, NEW i, NEW S, Past(m, i, S)',
         "drop_object" \notin S
  PROVE  \/ Past(m, i, S)
         \/ m = proc.m /\ i = proc.i /\ proc.step = "drop" /\ "drop" \in S /\ "clean" \notin S
BY IgnoredIs DEF Past, Coming, At, Working

\* another one only begins the next operation,
LEMMA PastStill ==
  ASSUME TypeInv, ProcInv, Still, NEW m \in plan.migrations, NEW i \in DOMAIN m.ops, NEW S,
         FirstStep(m.ops[i], New) \in S \cup {"fail"}, S \cap {"done", "drop_object"} = {},
         "drop" \notin S \/ "clean" \in S \/ ~DropIgnored, Past(m, i, S)'
  PROVE  Past(m, i, S)
<1>0. records' = {} => /\ m \notin proc'.todo /\ ~(m = proc'.m /\ i > proc'.i)
                      /\ ~(m = proc'.m /\ i = proc'.i /\ proc'.step \in S \cup {"fail"})
  BY DEF Past, Coming, At
<1>1. CASE UNCHANGED vars
  BY <1>1 DEF vars, Past, Coming, At
<1>2. ASSUME NEW code, Open(code)
      PROVE  Past(m, i, S)
  BY <1>2 DEF Open, Past, Down
<1>3. CASE Migrate
  <2>1. ProcType /\ proc.phase = "open" /\ records' = records
    BY <1>3 DEF TypeInv, Migrate
  <2>2. CASE records # {}
    BY <2>2 DEF Past
  <2>3. CASE records = {}
    <3>1. Pending(plan.migrations) = plan.migrations /\ plan.migrations # {}
      BY <2>3, PendingIs DEF ProcInv, TypeInv
    <3>2. proc' = [proc EXCEPT !.phase = "applying", !.todo = plan.migrations,
                             !.versions = {n.version : n \in plan.migrations}]
      BY <1>3, <3>1 DEF Migrate
    <3>3. proc'.todo = plan.migrations
      BY <2>1, <3>2 DEF ProcType
    <3> QED BY <1>0, <2>1, <2>3, <3>3
  <2> QED BY <2>2, <2>3
<1>4. CASE NextMigration
  <2>1. /\ proc.phase = "applying" /\ proc.step = "done" /\ proc.i + 1 \notin DOMAIN proc.m.ops
        /\ records' = records
    BY <1>4 DEF NextMigration
  <2>2. PICK n \in proc.todo : proc' = [proc EXCEPT !.todo = @ \ {n}, !.m = n, !.i = 0]
    BY <1>4 DEF NextMigration
  <2>3. proc'.todo = proc.todo \ {n} /\ proc'.m = n /\ proc'.i = 0
    BY <2>2 DEF TypeInv, ProcType
  <2>4. m \in plan.migrations /\ i \in 1..Len(m.ops) /\ Len(m.ops) \in Nat
    BY PlanFacts DEF TypeInv
  <2>5. i > 0
    BY <2>4
  <2>6. CASE records # {}
    BY <2>6 DEF Past
  <2>7. CASE records = {}
    <3>1. m \notin proc.todo \ {n} /\ m # n
      BY <1>0, <2>1, <2>3, <2>5, <2>7
    <3>2. m = proc.m => ~(i > proc.i)
      <4>1. ASSUME m = proc.m PROVE proc.i \in 0..Len(m.ops) /\ proc.i + 1 \notin 1..Len(m.ops)
        BY <2>1, <4>1, PlanFacts DEF ProcInv, Attempt, TypeInv
      <4> QED BY <2>4, <4>1
    <3> QED BY <2>1, <3>1, <3>2 DEF Past, Coming, At
  <2> QED BY <2>6, <2>7
<1>5. CASE NextOperation
  <2>1. /\ proc.phase = "applying" /\ proc.step = "done" /\ records = {} /\ proc.i \in Nat
        /\ proc'.phase = "applying" /\ proc'.todo = proc.todo /\ proc'.m = proc.m
        /\ proc'.i = proc.i + 1 /\ proc'.step = FirstStep(proc.m.ops[proc.i + 1], New)
    BY <1>5, NextOperationIs
  <2>2. i \in Nat /\ records' = records
    BY <1>5, PlanFacts DEF NextOperation, TypeInv
  <2>3. m \notin proc.todo /\ ~(m = proc.m /\ i > proc.i + 1)
        /\ ~(m = proc.m /\ i = proc.i + 1)
    BY <1>0, <2>1, <2>2
  <2>4. ~(m = proc.m /\ i > proc.i)
    BY <2>1, <2>2, <2>3
  <2> QED BY <2>1, <2>3, <2>4 DEF Past, Coming, At
<1>6. CASE Record
  <2>1. /\ proc.phase = "applying" /\ proc.step = "done" /\ proc.todo = {}
        /\ proc.i + 1 \notin DOMAIN proc.m.ops
    BY <1>6 DEF Record
  <2>2. i \in 1..Len(m.ops) /\ Len(m.ops) \in Nat
    BY PlanFacts DEF TypeInv
  <2>3. ASSUME m = proc.m PROVE ~(i > proc.i)
    <3>1. proc.i \in 0..Len(m.ops) /\ proc.i + 1 \notin 1..Len(m.ops)
      BY <2>1, <2>3, PlanFacts DEF ProcInv, Attempt, TypeInv
    <3> QED BY <2>2, <3>1
  <2>4. ~Coming(m, i)
    BY <2>1, <2>3 DEF Coming
  <2>5. ~At(m, i, S \cup {"fail"})
    BY <2>1 DEF At
  <2> QED BY <2>1, <2>4, <2>5 DEF Past
<1>7. CASE Persist
  BY <1>7 DEF Persist, Past, TypeInv, ProcType
<1>8. CASE Close
  BY <1>8 DEF Close, Past, Down
<1>9. CASE DropIgnored
  BY <1>9, PastIgnored
<1> QED BY <1>1, <1>2, <1>3, <1>4, <1>5, <1>6, <1>7, <1>8, <1>9 DEF Still

\* and the end of an attempt takes all of it back.
LEMMA PastEnds ==
  ASSUME TypeInv, ProcInv, RebuildInv, Ends, NEW m, NEW i, NEW S, Past(m, i, S)'
  PROVE  Past(m, i, S) /\ records # {} /\ ~Away
<1>1. proc'.phase # "applying" /\ records' = records
  BY EndsSees
<1>2. records # {}
  BY <1>1 DEF Past
<1> QED BY <1>2 DEF Past, Away, ProcInv, Attempt

LEMMA PastWrite ==
  ASSUME TypeInv, Write, NEW m, NEW i, NEW S
  PROVE  Past(m, i, S)' <=> Past(m, i, S)
BY WriteIs DEF Past, Coming, At

-----------------------------------------------------------------------------
(* Operations and their steps. *)

LEMMA FirstStepIs ==
  ASSUME TablesFollow(plan), ColumnsFollow(plan), NEW op \in OpsOf(plan)
  PROVE  /\ op.kind = "create_table" => op.t \in DOMAIN New \ DOMAIN Old /\ FirstStep(op, New) = "create"
         /\ op.kind = "drop_table" => op.t \notin DOMAIN New /\ FirstStep(op, New) = "drop"
         /\ op.kind = "drop_unique" => FirstStep(op, New) = "dropguards"
         /\ op.kind = "add_column" => op.t \in DOMAIN New /\ FirstStep(op, New) = "addcol"
         /\ op.kind = "alter_column" => op.t \in DOMAIN New /\ FirstStep(op, New) \in {"alter", "fail"}
         /\ Rebuilds(op) => FirstStep(op, New) \in {"backfill", "temp", "fail"}
         /\ op.kind = "create_object" => FirstStep(op, New) = "create_object"
         /\ op.kind = "add_foreign_key" => FirstStep(op, New) \in {"checkfk", "fail"}
         /\ AddsUnique(op) => FirstStep(op, New) \in {"backfill", "fail"}
<1>1. CASE op.kind \in {"create_table", "drop_table", "drop_unique", "create_object"}
  BY <1>1 DEF TablesFollow, FirstStep, New, Old, Rebuilds, AddsUnique
<1>2. CASE op.kind = "add_column"
  <2>1. op.t \in DOMAIN New /\ \E c \in DOMAIN New[op.t].cols : New[op.t].cols[c].name = op.x
    BY <1>2 DEF ColumnsFollow, Named, New
  <2> QED BY <1>2, <2>1 DEF FirstStep, Rebuilds, AddsUnique
<1>3. CASE op.kind = "alter_column"
  <2>1. op.t \in DOMAIN New
    BY <1>3 DEF ColumnsFollow, New
  <2> QED BY <1>3, <2>1 DEF FirstStep, Rebuilds, AddsUnique
<1>4. CASE op.kind \in {"add_foreign_key", "add_unique"}
  BY <1>4 DEF FirstStep, Rebuilds, AddsUnique
<1>5. CASE op.kind \in {"drop_column", "drop_index"}
  BY <1>5 DEF FirstStep, Rebuilds, AddsUnique
<1>6. CASE op.kind = "add_index"
  BY <1>6 DEF FirstStep, Rebuilds, AddsUnique, New
<1>7. CASE op.kind \notin {"create_table", "drop_table", "drop_unique", "create_object", "add_column",
        "alter_column", "add_foreign_key", "add_unique", "drop_column", "drop_index", "add_index"}
  BY <1>7 DEF Rebuilds, AddsUnique
<1> QED BY <1>1, <1>2, <1>3, <1>4, <1>5, <1>6, <1>7

LEMMA StepKinds ==
  ASSUME TypeInv, ProcInv, Working
  PROVE  /\ Doing \in OpsOf(plan)
         /\ proc.step = "create" => Doing.kind = "create_table"
         /\ proc.step \in {"drop", "clean"} => Doing.kind = "drop_table"
         /\ proc.step = "addcol" => Doing.kind = "add_column"
         /\ proc.step = "alter" => Doing.kind = "alter_column"
         /\ proc.step = "backfill" => AddsUnique(Doing)
         /\ proc.step = "dropguards" => Doing.kind = "drop_unique"
         /\ proc.step = "checkfk" => Doing.kind = "add_foreign_key"
         /\ proc.step \in RebuildSteps \cup {"stale"} => Rebuilds(Doing)
         /\ proc.step \in {"create_object", "replace_object", "drop_object"} => Doing.kind = proc.step
<1>1. /\ proc.m \in plan.migrations /\ proc.i \in DOMAIN proc.m.ops
      /\ Doing.kind \in Kinds /\ proc.step \in StepsOf(Doing.kind)
      /\ proc.step = "backfill" => FirstStep(Doing, New) = "backfill"
  BY WorkingFacts
<1>2. Doing \in OpsOf(plan)
  BY <1>1 DEF OpsOf, Doing
<1>3. ASSUME proc.step = "backfill" PROVE AddsUnique(Doing)
  <2>1. Doing.kind \in {"add_unique", "add_index"}
    BY <1>1, <1>3 DEF StepsOf, Kinds, RebuildSteps
  <2>2. ASSUME Doing.kind = "add_index" PROVE New[Doing.t].indexes[Doing.x].unique
    BY <1>1, <1>3, <2>2 DEF FirstStep
  <2> QED BY <2>1, <2>2 DEF AddsUnique, New
<1>4. proc.step = "create" => Doing.kind = "create_table"
  BY <1>1 DEF StepsOf, Kinds, RebuildSteps
<1>5. proc.step \in {"drop", "clean"} => Doing.kind = "drop_table"
  BY <1>1 DEF StepsOf, Kinds, RebuildSteps
<1>6. /\ proc.step = "addcol" => Doing.kind = "add_column"
      /\ proc.step = "alter" => Doing.kind = "alter_column"
      /\ proc.step = "dropguards" => Doing.kind = "drop_unique"
      /\ proc.step = "checkfk" => Doing.kind = "add_foreign_key"
  BY <1>1 DEF StepsOf, Kinds, RebuildSteps
<1>7. proc.step \in RebuildSteps \cup {"stale"} => Rebuilds(Doing)
  BY <1>1 DEF StepsOf, Kinds, RebuildSteps, Rebuilds
<1>8. proc.step \in {"create_object", "replace_object", "drop_object"} => Doing.kind = proc.step
  BY <1>1 DEF StepsOf, Kinds, RebuildSteps
<1> QED BY <1>2, <1>3, <1>4, <1>5, <1>6, <1>7, <1>8

\* What the two transactions do.
LEMMA InsertIs ==
  ASSUME TypeInv, ProcInv, NEW t, NEW k, NEW row, InsertRow(t, k, row)
  PROVE  /\ t \in DOMAIN Schema /\ t \in DOMAIN disk.tables /\ Here(t) /\ ~Away /\ ~Away'
         /\ k \notin DOMAIN RowsOf(t) /\ Storable(ColsOf(t), row)
         /\ \A x : /\ Here(x)' <=> Here(x)
                   /\ ColsOf(x)' = ColsOf(x) \/ ~Here(x)
                   /\ x # t => Same(x)
         /\ RowsOf(t)' = With(RowsOf(t), k, row)
         /\ disk'.objects = disk.objects
         /\ proc.phase = "serving" /\ proc' = proc /\ plan' = plan /\ records' = records
         /\ tried' = tried
<1>1. /\ proc.phase = "serving" /\ proc' = proc /\ plan' = plan /\ records' = records /\ tried' = tried
      /\ t \in DOMAIN Schema /\ t \in DOMAIN disk.tables /\ k \notin DOMAIN disk.tables[t].rows
      /\ Storable(disk.tables[t].cols, row)
  BY DEF InsertRow, Idle, Stored
<1>2. disk'.tables = [disk.tables EXCEPT ![t].rows = With(@, k, row)] /\ disk'.objects = disk.objects
  BY DEF InsertRow, TypeInv, DiskType
<1>3. /\ DOMAIN disk'.tables = DOMAIN disk.tables
      /\ \A x \in DOMAIN disk.tables : x # t => disk'.tables[x] = disk.tables[x]
  BY <1>2
<1>4. /\ disk'.tables[t].rows = With(disk.tables[t].rows, k, row)
      /\ disk'.tables[t].cols = disk.tables[t].cols
  BY <1>1, <1>2 DEF TypeInv, IsTable
<1>5. ~Away /\ ~Away'
  BY <1>1 DEF Away
<1>6. \A x : (Here(x)' <=> Here(x)) /\ (Here(x) <=> x \in DOMAIN disk.tables)
  BY <1>3, <1>5 DEF Here
<1>7. \A x : RowsOf(x) = disk.tables[x].rows /\ RowsOf(x)' = disk'.tables[x].rows
            /\ ColsOf(x) = disk.tables[x].cols /\ ColsOf(x)' = disk'.tables[x].cols
  BY <1>5 DEF RowsOf, ColsOf
<1> QED BY <1>1, <1>2, <1>3, <1>4, <1>5, <1>6, <1>7 DEF Same

LEMMA DeleteIs ==
  ASSUME TypeInv, ProcInv, NEW t, NEW k, DeleteRow(t, k)
  PROVE  /\ t \in DOMAIN Schema /\ t \in DOMAIN disk.tables /\ Here(t) /\ ~Away /\ ~Away'
         /\ \A x : /\ Here(x)' <=> Here(x)
                   /\ ColsOf(x)' = ColsOf(x) \/ ~Here(x)
                   /\ x # t => Same(x)
         /\ RowsOf(t)' = Without(RowsOf(t), {k})
         /\ disk'.objects = disk.objects
         /\ disk'.uq = Without(disk.uq, {g \in DOMAIN disk.uq :
                          disk.uq[g] = <<t, k>> /\ g[1] \in DOMAIN UniquesOf(Schema[t])})
         /\ disk'.rg = disk.rg \cup {<<t, k>>}
         /\ proc.phase = "serving" /\ proc' = proc /\ plan' = plan /\ records' = records
         /\ tried' = tried
<1>1. /\ proc.phase = "serving" /\ proc' = proc /\ plan' = plan /\ records' = records /\ tried' = tried
      /\ t \in DOMAIN Schema /\ t \in DOMAIN disk.tables
  BY DEF DeleteRow, Idle, Stored
<1>2. /\ disk'.tables = [disk.tables EXCEPT ![t].rows = Without(@, {k})] /\ disk'.objects = disk.objects
      /\ disk'.uq = Without(disk.uq, {g \in DOMAIN disk.uq :
                       disk.uq[g] = <<t, k>> /\ g[1] \in DOMAIN UniquesOf(Schema[t])})
      /\ disk'.rg = disk.rg \cup {<<t, k>>}
  BY DEF DeleteRow, TypeInv, DiskType
<1>3. /\ DOMAIN disk'.tables = DOMAIN disk.tables
      /\ \A x \in DOMAIN disk.tables : x # t => disk'.tables[x] = disk.tables[x]
  BY <1>2
<1>4. /\ disk'.tables[t].rows = Without(disk.tables[t].rows, {k})
      /\ disk'.tables[t].cols = disk.tables[t].cols
  BY <1>1, <1>2 DEF TypeInv, IsTable
<1>5. ~Away /\ ~Away'
  BY <1>1 DEF Away
<1>6. \A x : (Here(x)' <=> Here(x)) /\ (Here(x) <=> x \in DOMAIN disk.tables)
  BY <1>3, <1>5 DEF Here
<1>7. \A x : RowsOf(x) = disk.tables[x].rows /\ RowsOf(x)' = disk'.tables[x].rows
            /\ ColsOf(x) = disk.tables[x].cols /\ ColsOf(x)' = disk'.tables[x].cols
  BY <1>5 DEF RowsOf, ColsOf
<1> QED BY <1>1, <1>2, <1>3, <1>4, <1>5, <1>6, <1>7 DEF Same

\* The guards of a row that is inserted, and the rows it refers to.
Mine(t, row) == {g \in {<<u, Cell(row, UniquesOf(Schema[t])[u])>> : u \in DOMAIN UniquesOf(Schema[t])} :
                   g[2] # Null}
Refs(t, row) == {<<Schema[t].fks[f].parent, Cell(row, Schema[t].fks[f].col)>> : f \in DOMAIN Schema[t].fks}

LEMMA InsertGuards ==
  ASSUME TypeInv, ProcInv, NEW t, NEW k, NEW row, InsertRow(t, k, row)
  PROVE  /\ Mine(t, row) \cap DOMAIN disk.uq = {}
         /\ disk'.uq = [g \in Mine(t, row) \cup DOMAIN disk.uq |->
                          IF g \in Mine(t, row) THEN <<t, k>> ELSE disk.uq[g]]
         /\ disk'.rg = disk.rg \cup {r \in Refs(t, row) : r[2] # Null}
         /\ \A r \in Refs(t, row) : r[2] # Null => Here(r[1]) /\ r[2] \in DOMAIN RowsOf(r[1])
<1>1. /\ Mine(t, row) \cap DOMAIN disk.uq = {}
      /\ \A r \in Refs(t, row) : r[2] # Null =>
           r[1] \in DOMAIN disk.tables /\ r[2] \in DOMAIN disk.tables[r[1]].rows
  BY DEF InsertRow, Mine, Refs, Stored
<1>2. disk' = [disk EXCEPT !.tables[t].rows = With(@, k, row),
                          !.uq = [g \in Mine(t, row) \cup DOMAIN @ |->
                                    IF g \in Mine(t, row) THEN <<t, k>> ELSE @[g]],
                          !.rg = @ \cup {r \in Refs(t, row) : r[2] # Null}]
  BY DEF InsertRow, Mine, Refs
<1>3. /\ disk'.uq = [g \in Mine(t, row) \cup DOMAIN disk.uq |->
                          IF g \in Mine(t, row) THEN <<t, k>> ELSE disk.uq[g]]
      /\ disk'.rg = disk.rg \cup {r \in Refs(t, row) : r[2] # Null}
  BY <1>2 DEF TypeInv, DiskType
<1>4. ~Away
  BY InsertIs
<1> QED BY <1>1, <1>3, <1>4 DEF Here, RowsOf

-----------------------------------------------------------------------------
(* Guarded tables are there, or an operation will say so. *)

LEMMA GoneStays ==
  ASSUME TypeInv, ProcInv, RebuildInv, TablesFollow(plan), ColumnsFollow(plan),
         Still \/ Ends \/ Write, NEW t, Gone(t)
  PROVE  Gone(t)'
<1>1. PICK m, i :
        /\ m \in plan.migrations /\ i \in DOMAIN m.ops
        /\ m.ops[i].t = t
        /\ \/ m.ops[i].kind = "drop_table" /\ ~Past(m, i, {"drop", "clean"})
           \/ Rebuilds(m.ops[i]) /\ ~Past(m, i, {"backfill", "temp"})
  BY DEF Gone
<1>2. m.ops[i] \in OpsOf(plan) /\ plan' = plan
  <2>1. plan' = plan
    BY QuietIs, EndsSees, WriteIs DEF Still, Quiet, Ends
  <2> QED BY <1>1, <2>1 DEF OpsOf
<1>3. ASSUME NEW S, FirstStep(m.ops[i], New) \in S \cup {"fail"}, Past(m, i, S)',
             S \cap {"done", "drop_object"} = {}, "drop" \notin S \/ "clean" \in S
      PROVE  Past(m, i, S)
  BY <1>1, <1>3, PastStill, PastEnds, PastWrite
<1>4. CASE m.ops[i].kind = "drop_table" /\ ~Past(m, i, {"drop", "clean"})
  <2>1. FirstStep(m.ops[i], New) = "drop"
    BY <1>2, <1>4, FirstStepIs
  <2>2. ~Past(m, i, {"drop", "clean"})'
    BY <1>3, <1>4, <2>1
  <2> QED BY <1>1, <1>2, <1>4, <2>2 DEF Gone
<1>5. CASE Rebuilds(m.ops[i]) /\ ~Past(m, i, {"backfill", "temp"})
  <2>1. FirstStep(m.ops[i], New) \in {"backfill", "temp", "fail"}
    BY <1>2, <1>5, FirstStepIs
  <2>2. ~Past(m, i, {"backfill", "temp"})'
    BY <1>3, <1>5, <2>1
  <2> QED BY <1>1, <1>2, <1>5, <2>2 DEF Gone
<1> QED BY <1>1, <1>4, <1>5

\* Guards are added to tables that are there.
LEMMA GuardedStep ==
  ASSUME TypeInv, ProcInv, RebuildInv, ApplyStep, NEW t, Guarded(t)'
  PROVE  /\ Guarded(t) \/ (t \in DOMAIN disk.tables /\ t \in DOMAIN New)
         /\ proc.step = "clean" => t # T
<1>1. CASE proc.step = "clean"
  <2>1. /\ disk'.uq = Without(disk.uq, {g \in DOMAIN disk.uq : disk.uq[g][1] = T})
        /\ disk'.rg = {r \in disk.rg : r[1] # T}
    BY <1>1, GuardsAfter
  <2> QED BY <2>1 DEF Guarded, Without
<1>2. CASE proc.step \in {"dropguards", "stale"}
  <2>1. \E S : disk'.uq = Without(disk.uq, S) /\ disk'.rg = disk.rg
    BY <1>2, GuardsAfter
  <2> QED BY <1>2, <2>1 DEF Guarded, Without
<1>3. CASE proc.step = "backfill"
  <2>1. /\ disk'.uq = [g \in DOMAIN disk.uq \cup {p[1] : p \in Found} |->
                            IF g \in DOMAIN disk.uq THEN disk.uq[g]
                            ELSE <<T, (CHOOSE p \in Found : p[1] = g)[2]>>]
        /\ disk'.rg = disk.rg
    BY <1>3, GuardsAfter
  <2>2. T \in DOMAIN disk.tables /\ T \in DOMAIN New
    BY <1>3, ProcAfter, Declared DEF Succeeds, Backfills
  <2> QED BY <1>3, <2>1, <2>2 DEF Guarded
<1>4. CASE proc.step = "checkfk"
  <2>1. disk'.uq = disk.uq /\ disk'.rg = disk.rg \cup {<<Parent, k>> : k \in Wanted}
    BY <1>4, GuardsAfter
  <2>2. Parent \in DOMAIN disk.tables /\ Parent \in DOMAIN New
    BY <1>4, ProcAfter, Declared, SchemaTarget DEF Succeeds, ChecksForeignKey, Parent
  <2> QED BY <1>4, <2>1, <2>2 DEF Guarded
<1>5. CASE proc.step \notin {"clean", "dropguards", "stale", "backfill", "checkfk"}
  <2>1. disk'.uq = disk.uq /\ disk'.rg = disk.rg
    BY <1>5, GuardsAfter
  <2> QED BY <1>5, <2>1 DEF Guarded
<1> QED BY <1>1, <1>2, <1>3, <1>4, <1>5

LEMMA GuardedWrite ==
  ASSUME TypeInv, ProcInv, Write, records # {}, NEW t, Guarded(t)'
  PROVE  Guarded(t) \/ t \in DOMAIN New
<1>1. PICK x, y : (\E row : InsertRow(x, y, row)) \/ DeleteRow(x, y)
  BY DEF Write
<1>2. Schema = New
  <2>1. proc.phase = "serving" /\ proc.code = "new"
    BY WriteIs DEF ProcInv
  <2> QED BY <2>1 DEF Schema, New
<1>3. CASE DeleteRow(x, y)
  <2>1. x \in DOMAIN New /\ (\E S : disk'.uq = Without(disk.uq, S)) /\ disk'.rg = disk.rg \cup {<<x, y>>}
    BY <1>2, <1>3, DeleteIs
  <2>2. CASE \E g \in DOMAIN disk'.uq : disk'.uq[g][1] = t
    <3>1. PICK S : disk'.uq = Without(disk.uq, S)
      BY <2>1
    <3>2. \A g \in DOMAIN disk'.uq : g \in DOMAIN disk.uq /\ disk'.uq[g] = disk.uq[g]
      BY <3>1 DEF Without
    <3> QED BY <2>2, <3>2 DEF Guarded
  <2>3. CASE \E r \in disk'.rg : r[1] = t
    BY <2>1, <2>3 DEF Guarded
  <2> QED BY <2>2, <2>3 DEF Guarded
<1>4. ASSUME NEW row, InsertRow(x, y, row)
      PROVE  Guarded(t) \/ t \in DOMAIN New
  <2>1. /\ x \in DOMAIN New /\ disk'.rg = disk.rg \cup {r \in Refs(x, row) : r[2] # Null}
        /\ disk'.uq = [g \in Mine(x, row) \cup DOMAIN disk.uq |->
                         IF g \in Mine(x, row) THEN <<x, y>> ELSE disk.uq[g]]
    BY <1>2, <1>4, InsertIs, InsertGuards
  <2>2. \A r \in Refs(x, row) : r[2] # Null => r[1] \in DOMAIN New
    BY <1>2, <1>4 DEF InsertRow, Refs, Stored
  <2>3. CASE \E g \in DOMAIN disk'.uq : disk'.uq[g][1] = t
    BY <2>1, <2>3 DEF Guarded
  <2>4. CASE \E r \in disk'.rg : r[1] = t
    BY <2>1, <2>2, <2>4 DEF Guarded
  <2> QED BY <2>3, <2>4 DEF Guarded
<1> QED BY <1>1, <1>3, <1>4

\* A dropped table gets no guards again.
LEMMA CleanNext ==
  ASSUME TypeInv, ProcInv, RebuildInv, TablesFollow(plan), ColumnsFollow(plan), CleanInv, [Next]_vars
  PROVE  CleanInv'
<1>0. plan' = plan
  BY NextIs, ProcAfter, QuietIs, EndsSees, WriteIs DEF Still, Quiet, Ends
<1> SUFFICES ASSUME NEW m \in plan.migrations, NEW i \in DOMAIN m.ops, m.ops[i].kind = "drop_table",
                    Past(m, i, {"drop", "clean"})', Guarded(m.ops[i].t)'
             PROVE  FALSE
  BY <1>0 DEF CleanInv
<1>1. m.ops[i].t \notin DOMAIN New /\ FirstStep(m.ops[i], New) = "drop"
  <2>1. m.ops[i] \in OpsOf(plan)
    BY DEF OpsOf
  <2> QED BY <2>1, FirstStepIs
<1>2. Past(m, i, {"drop", "clean"}) => ~Guarded(m.ops[i].t)
  BY DEF CleanInv
<1>3. CASE Still
  <2>1. Past(m, i, {"drop", "clean"})
    BY <1>1, <1>3, PastStill
  <2>2. disk' = disk
    BY <1>3, QuietIs DEF Still, Quiet
  <2> QED BY <1>2, <2>1, <2>2 DEF Guarded
<1>4. CASE Ends
  BY <1>2, <1>4, PastEnds, EndsSees DEF Guarded
<1>5. CASE Write
  <2>1. Past(m, i, {"drop", "clean"}) /\ records # {}
    BY <1>5, PastWrite, WriteIs DEF Past
  <2> QED BY <1>1, <1>2, <1>5, <2>1, GuardedWrite
<1>6. CASE ApplyStep
  <2>1. Guarded(m.ops[i].t)
    BY <1>1, <1>6, GuardedStep
  <2>2. ~Past(m, i, {"drop", "clean"})
    BY <1>2, <2>1
  <2>3. m = proc.m /\ i = proc.i
    BY <1>6, <2>2, PastStep
  <2>4. proc.step \in {"drop", "clean"} /\ StepAfter(proc.step, Doing.kind) \notin {"drop", "clean"}
    <3>1. /\ Doing.kind = "drop_table" /\ proc.step \in StepsOf(Doing.kind) \ {"fail", "done"}
          /\ StepAfter(proc.step, Doing.kind) \notin {"drop", "clean"}
      BY <1>6, <2>3, PastStep, WorkingFacts, ProcAfter DEF Doing, Working, Succeeds
    <3> QED BY <3>1 DEF StepsOf
  <2>5. proc.step = "clean"
    BY <2>4 DEF StepAfter, Rebuild
  <2>6. T = m.ops[i].t
    BY <2>3 DEF T, Doing
  <2> QED BY <1>6, <2>5, <2>6, GuardedStep
<1> QED BY <1>3, <1>4, <1>5, <1>6, NextIs

LEMMA PresenceNext ==
  ASSUME TypeInv, ProcInv, RebuildInv, TablesFollow(plan), ColumnsFollow(plan), PresenceInv, [Next]_vars
  PROVE  PresenceInv'
<1> SUFFICES ASSUME NEW t, Guarded(t)' \/ t \in DOMAIN Old' \cap DOMAIN New'
             PROVE  Here(t)' \/ Gone(t)'
  BY DEF PresenceInv
<1>0. Old' = Old /\ New' = New
  <2>1. plan' = plan
    BY NextIs, ProcAfter, QuietIs, EndsSees, WriteIs DEF Still, Quiet, Ends
  <2> QED BY <2>1 DEF Old, New
<1>1. ASSUME Guarded(t)' => Guarded(t) \/ Here(t)
      PROVE  Here(t) \/ Gone(t)
  BY <1>0, <1>1 DEF PresenceInv
<1>2. CASE Still
  <2>1. disk' = disk
    BY <1>2, QuietIs DEF Still, Quiet
  <2>2. Here(t) \/ Gone(t)
    BY <1>1, <2>1 DEF Guarded
  <2> QED BY <1>2, <2>2, StillSees, GoneStays DEF Same
<1>3. CASE Ends
  <2>1. Here(t) \/ Gone(t)
    BY <1>1, <1>3, EndsSees DEF Guarded
  <2>2. ASSUME Here(t), ~Here(t)' PROVE Gone(t)'
    <3>1. t = T /\ Away
      BY <1>3, <2>2, EndsSees
    <3>2. proc.m \in plan.migrations /\ proc.i \in DOMAIN proc.m.ops /\ Rebuilds(Doing)
      BY <3>1, WorkingFacts, StepKinds DEF Away, Working, RebuildSteps
    <3>3. PICK m, i : m \in plan.migrations /\ i \in DOMAIN m.ops /\ m = proc.m /\ i = proc.i
      BY <3>2
    <3>4. Rebuilds(m.ops[i]) /\ m.ops[i].t = t
      BY <3>1, <3>2, <3>3 DEF Doing, T
    <3>5. ~Past(m, i, {"backfill", "temp"})'
      BY <1>3, <3>1, PastEnds
    <3>6. plan' = plan
      BY <1>3, EndsSees
    <3> QED BY <3>3, <3>4, <3>5, <3>6 DEF Gone
  <2> QED BY <1>3, <2>1, <2>2, GoneStays
<1>4. CASE Write
  <2>1. PICK x, k : (\E row : InsertRow(x, k, row)) \/ DeleteRow(x, k)
    BY <1>4 DEF Write
  <2>2. ASSUME NEW row, InsertRow(x, k, row)
        PROVE  (Guarded(t)' => Guarded(t) \/ Here(t)) /\ (Here(t) => Here(t)')
    <3>1. Here(t) => Here(t)'
      BY <2>2, InsertIs
    <3>2. Here(x)
      BY <2>2, InsertIs
    <3>3. /\ disk'.uq = [g \in Mine(x, row) \cup DOMAIN disk.uq |->
                          IF g \in Mine(x, row) THEN <<x, k>> ELSE disk.uq[g]]
          /\ disk'.rg = disk.rg \cup {r \in Refs(x, row) : r[2] # Null}
          /\ \A r \in Refs(x, row) : r[2] # Null => Here(r[1])
      BY <2>2, InsertGuards
    <3> QED BY <3>1, <3>2, <3>3 DEF Guarded
  <2>3. ASSUME DeleteRow(x, k)
        PROVE  (Guarded(t)' => Guarded(t) \/ Here(t)) /\ (Here(t) => Here(t)')
    <3>1. (Here(t) => Here(t)') /\ Here(x) /\ disk'.rg = disk.rg \cup {<<x, k>>}
          /\ \E S : disk'.uq = Without(disk.uq, S)
      BY <2>3, DeleteIs
    <3> QED BY <3>1 DEF Guarded, Without
  <2> QED BY <1>1, <1>4, <2>1, <2>2, <2>3, GoneStays
<1>5. CASE ApplyStep
  <2>0. /\ proc.m \in plan.migrations /\ proc.i \in DOMAIN proc.m.ops /\ plan' = plan /\ Working
        /\ Succeeds /\ proc.phase = "applying" /\ Doing.kind \in Kinds
        /\ proc.step \in StepsOf(Doing.kind) \ {"fail", "done"} /\ Doing \in OpsOf(plan)
        /\ proc.m \notin proc.todo
    BY <1>5, WorkingFacts, ProcAfter, StepKinds DEF ApplyStep, Working, Succeeds, Attempt
  <2>1. PICK m, i : m \in plan.migrations /\ i \in DOMAIN m.ops /\ m = proc.m /\ i = proc.i
    BY <2>0
  <2>2. m.ops[i] = Doing /\ m.ops[i].t = T
    BY <2>1 DEF Doing, T
  <2>3. Here(t) \/ Gone(t)
    BY <1>1, <1>5, GuardedStep DEF Here
  <2>4. ASSUME Here(t), ~Here(t)' PROVE Gone(t)'
    <3>1. t = T /\ proc.step = "drop" /\ Doing.kind = "drop_table"
      BY <1>5, <2>0, <2>4, StepKeeps, StepKinds
    <3>2. StepAfter(proc.step, Doing.kind) = "clean"
      BY <2>0, <3>1, StepsAfter
    <3>3. ~Past(m, i, {"drop", "clean"})'
      BY <1>5, <2>1, <3>2, PastStep
    <3> QED BY <2>0, <2>1, <2>2, <3>1, <3>3 DEF Gone
  <2>5. ASSUME ~Here(t), Gone(t), ~Here(t)' PROVE Gone(t)'
    <3>1. PICK n, j :
            /\ n \in plan.migrations /\ j \in DOMAIN n.ops
            /\ n.ops[j].t = t
            /\ \/ n.ops[j].kind = "drop_table" /\ ~Past(n, j, {"drop", "clean"})
               \/ Rebuilds(n.ops[j]) /\ ~Past(n, j, {"backfill", "temp"})
      BY <2>5 DEF Gone
    <3>2. CASE n # proc.m \/ j # proc.i
      <4>1. /\ Past(n, j, {"drop", "clean"})' <=> Past(n, j, {"drop", "clean"})
            /\ Past(n, j, {"backfill", "temp"})' <=> Past(n, j, {"backfill", "temp"})
        BY <1>5, <3>2, PastStep
      <4> QED BY <2>0, <3>1, <4>1 DEF Gone
    <3>3. CASE n = proc.m /\ j = proc.i
      <4>1. n.ops[j] = Doing /\ T = t
        BY <3>1, <3>3 DEF Doing, T
      <4>2. ~Coming(n, j)
        <5>1. ~(j > proc.i)
          BY <3>1, <3>3, PlanFacts DEF TypeInv
        <5> QED BY <2>0, <3>3, <5>1 DEF Coming
      <4>3. CASE Rebuilds(Doing) /\ ~Past(n, j, {"backfill", "temp"})
        <5>1. proc.step \in {"backfill", "temp"}
          BY <2>0, <3>3, <4>2, <4>3 DEF Past, At
        <5>2. T \in DOMAIN disk.tables
          BY <2>0, <5>1 DEF Succeeds, Backfills
        <5> QED BY <2>5, <4>1, <5>2 DEF Here
      <4>4. CASE Doing.kind = "drop_table" /\ ~Past(n, j, {"drop", "clean"})
        <5>1. proc.step \in {"drop", "clean"}
          BY <2>0, <3>3, <4>2, <4>4 DEF Past, At
        <5>2. CASE proc.step = "clean"
          <6>1. ~Guarded(t)'
            BY <1>5, <4>1, <5>2, GuardedStep
          <6>2. t \notin DOMAIN New
            BY <2>0, <4>1, <4>4, FirstStepIs DEF T
          <6> QED BY <1>0, <6>1, <6>2
        <5>3. CASE proc.step = "drop"
          <6>1. StepAfter(proc.step, Doing.kind) = "clean"
            BY <2>0, <5>3, StepsAfter
          <6>2. ~Past(n, j, {"drop", "clean"})'
            BY <1>5, <3>3, <6>1, PastStep
          <6> QED BY <2>0, <3>1, <4>1, <4>4, <6>2 DEF Gone
        <5> QED BY <5>1, <5>2, <5>3
      <4> QED BY <3>1, <4>1, <4>3, <4>4
    <3> QED BY <3>2, <3>3
  <2> QED BY <2>3, <2>4, <2>5
<1> QED BY <1>2, <1>3, <1>4, <1>5, NextIs

-----------------------------------------------------------------------------
(* Columns come from the two releases, and the rows fit them. *)

\* The columns that a step changes are those of the new release.
LEMMA ColumnIs ==
  ASSUME TypeInv, ProcInv, Working, Succeeds
  PROVE  /\ proc.step = "addcol" =>
              /\ AddedColumn \in Named(New[T].cols, Doing.x) /\ AddedColumn \in DOMAIN New[T].cols
         /\ proc.step = "alter" => AlteredColumn \in AlteredColumns /\ AlteredColumn \in DOMAIN New[T].cols
         /\ proc.step \in {"addcol", "alter"} => T \in DOMAIN New
<1>1. Target = New[T] /\ proc.step # "fail"
  BY SchemaTarget DEF Succeeds
<1>2. CASE proc.step = "addcol"
  BY <1>1, <1>2, Declared DEF AddedColumn, Named
<1>3. CASE proc.step = "alter"
  <2>1. AlteredColumns # {}
    BY <1>3 DEF Succeeds, AltersColumn
  <2>2. AlteredColumn \in AlteredColumns
    BY <2>1 DEF AlteredColumn
  <2>3. AlteredColumns \subseteq DOMAIN New[T].cols
    BY <1>1 DEF AlteredColumns, Named
  <2> QED BY <1>1, <1>3, <2>2, <2>3, Declared
<1> QED BY <1>2, <1>3

LEMMA SameTable ==
  ASSUME NEW t, Same(t), Here(t), TableOk(t), plan' = plan
  PROVE  TableOk(t)'
BY DEF Same, TableOk, Old, New

LEMMA TableNext ==
  ASSUME TypeInv, ProcInv, RebuildInv, TableInv, [Next]_vars
  PROVE  TableInv'
<1> SUFFICES ASSUME NEW t, Here(t)' PROVE TableOk(t)'
  BY DEF TableInv
<1>0. plan' = plan /\ Old' = Old /\ New' = New
  <2>1. plan' = plan
    BY NextIs, ProcAfter, QuietIs, EndsSees, WriteIs DEF Still, Quiet, Ends
  <2> QED BY <2>1 DEF Old, New
<1>1. Here(t) => TableOk(t)
  BY DEF TableInv
<1>2. CASE Same(t)
  BY <1>0, <1>1, <1>2, SameTable DEF Same
<1>3. CASE Still
  BY <1>2, <1>3, StillSees
<1>4. CASE Ends
  <2>1. /\ Here(t) /\ ColsOf(t)' = ColsOf(t)
        /\ \A k \in DOMAIN RowsOf(t)' : k \in DOMAIN RowsOf(t) /\ RowsOf(t)'[k] = RowsOf(t)[k]
    BY <1>4, EndsSees
  <2> QED BY <1>0, <1>1, <2>1 DEF TableOk
<1>5. CASE Write
  <2>1. PICK x, k : (\E row : InsertRow(x, k, row)) \/ DeleteRow(x, k)
    BY <1>5 DEF Write
  <2>2. ASSUME NEW row, InsertRow(x, k, row), ~Same(t)
        PROVE  TableOk(t)'
    <3>1. /\ t = x /\ Here(t) /\ ColsOf(t)' = ColsOf(t) /\ RowsOf(t)' = With(RowsOf(t), k, row)
          /\ Storable(ColsOf(t), row)
      BY <2>2, InsertIs
    <3>2. \A y \in DOMAIN RowsOf(t)' : Storable(ColsOf(t)', RowsOf(t)'[y])
      BY <1>1, <3>1 DEF With, TableOk
    <3> QED BY <1>0, <1>1, <3>1, <3>2 DEF TableOk
  <2>3. ASSUME DeleteRow(x, k), ~Same(t)
        PROVE  TableOk(t)'
    <3>1. t = x /\ Here(t) /\ ColsOf(t)' = ColsOf(t) /\ RowsOf(t)' = Without(RowsOf(t), {k})
      BY <2>3, DeleteIs
    <3>2. \A y \in DOMAIN RowsOf(t)' : Storable(ColsOf(t)', RowsOf(t)'[y])
      BY <1>1, <3>1 DEF Without, TableOk
    <3> QED BY <1>0, <1>1, <3>1, <3>2 DEF TableOk
  <2> QED BY <1>2, <2>1, <2>2, <2>3
<1>6. CASE ApplyStep
  <2>0. /\ Working /\ Succeeds /\ proc.step # "fail"
    BY <1>6, ProcAfter DEF Succeeds
  <2>1. CASE t # T
    BY <1>2, <1>6, <2>1, OthersSame
  <2>2. CASE t = T /\ ~Same(t)
    <3>1. proc.step \in {"create", "addcol", "alter", "droptable"}
      BY <1>6, <2>2, StepSees
    <3>2. t \in DOMAIN New /\ New[t].cols = [c \in DOMAIN New[t].cols |-> New[t].cols[c]]
      BY <2>0, <2>2, <3>1, Declared, PlanFacts DEF TypeInv
    <3>3. CASE proc.step = "create"
      <4>1. DOMAIN RowsOf(t)' = {} /\ ColsOf(t)' = New[t].cols
        BY <1>6, <2>2, <3>3, StepSees
      <4> QED BY <1>0, <3>2, <4>1 DEF TableOk
    <3>4. CASE proc.step = "droptable"
      <4>1. /\ ColsOf(t)' = New[t].cols
            /\ \A k \in DOMAIN RowsOf(t)' : Storable(New[t].cols, RowsOf(t)'[k])
        BY <1>6, <2>2, <3>4, StepSees
      <4> QED BY <1>0, <3>2, <4>1 DEF TableOk
    <3>5. CASE proc.step \in {"addcol", "alter"}
      <4> DEFINE c == IF proc.step = "addcol" THEN AddedColumn ELSE AlteredColumn
      <4>1. /\ Here(t) /\ RowsOf(t)' = RowsOf(t)
            /\ ColsOf(t)' = With(ColsOf(t), c, New[t].cols[c])
            /\ \A k \in DOMAIN RowsOf(t) : Storable(ColsOf(t)', RowsOf(t)[k])
        BY <1>6, <2>2, <3>5, StepSees
      <4>2. c \in DOMAIN New[t].cols
        BY <2>0, <2>2, <3>5, ColumnIs
      <4> HIDE DEF c
      <4>3. t \notin DOMAIN Old => ColsOf(t)' = New[t].cols
        <5>1. ASSUME t \notin DOMAIN Old PROVE ColsOf(t)' = New[t].cols
          <6>1. ColsOf(t) = New[t].cols
            BY <1>1, <4>1, <5>1 DEF TableOk
          <6>2. With(New[t].cols, c, New[t].cols[c]) = New[t].cols
            BY <3>2, <4>2 DEF With
          <6> QED BY <4>1, <6>1, <6>2
        <5> QED BY <5>1
      <4>4. DOMAIN ColsOf(t)' = DOMAIN ColsOf(t) \cup {c}
            /\ \A d \in DOMAIN ColsOf(t)' :
                  ColsOf(t)'[d] = IF d = c THEN New[t].cols[c] ELSE ColsOf(t)[d]
        BY <4>1 DEF With
      <4>5. /\ \A k \in DOMAIN RowsOf(t)' : Storable(ColsOf(t)', RowsOf(t)'[k])
            /\ \A d \in DOMAIN ColsOf(t)' :
                 \/ t \in DOMAIN New /\ d \in DOMAIN New[t].cols /\ ColsOf(t)'[d] = New[t].cols[d]
                 \/ t \in DOMAIN Old /\ d \in DOMAIN Old[t].cols /\ ColsOf(t)'[d] = Old[t].cols[d]
        BY <1>1, <3>2, <4>1, <4>2, <4>4 DEF TableOk
      <4>6. t \in DOMAIN New \cap DOMAIN Old =>
              DOMAIN Old[t].cols \cap DOMAIN New[t].cols \subseteq DOMAIN ColsOf(t)'
        BY <1>1, <4>1, <4>4 DEF TableOk
      <4> QED BY <1>0, <3>2, <4>3, <4>5, <4>6 DEF TableOk
    <3> QED BY <3>1, <3>3, <3>4, <3>5
  <2> QED BY <1>2, <2>1, <2>2
<1> QED BY <1>3, <1>4, <1>5, <1>6, NextIs

-----------------------------------------------------------------------------
(* The order of the migrations, and what their operations declare. *)

LEMMA HistoryNext ==
  ASSUME TypeInv, ProcInv, RebuildInv, [Next]_vars
  PROVE  /\ plan' = plan /\ Old' = Old /\ New' = New
         /\ tried = "mixed" => tried' = "mixed"
         /\ tried # "no" => tried' # "no"
         /\ Still => disk' = disk /\ ignored \subseteq ignored'
<1>1. CASE Still
  BY <1>1 DEF Still, Open, Migrate, NextMigration, NextOperation, DropIgnored, Record, Persist,
              Close, vars, Old, New
<1>2. CASE ApplyStep \/ Ends \/ Write
  <2>1. plan' = plan /\ tried' = tried
    BY <1>2, ProcAfter, EndsSees, WriteIs
  <2>2. ~Still \/ (disk' = disk /\ ignored \subseteq ignored')
    BY DEF Still, Open, Migrate, NextMigration, NextOperation, DropIgnored, Record, Persist, Close,
           vars
  <2> QED BY <2>1, <2>2 DEF Old, New
<1> QED BY <1>1, <1>2, NextIs

LEMMA OrderNext ==
  ASSUME TypeInv, ProcInv, RebuildInv, VersionsDiffer(plan), OrderInv, [Next]_vars
  PROVE  OrderInv'
<1>1. \A m \in plan.migrations : m.version \in Nat \ {0}
  BY PlanFacts DEF TypeInv
<1>2. ASSUME proc'.phase # "applying" \/ proc' = proc
      PROVE  OrderInv'
  BY <1>2 DEF OrderInv
<1>3. CASE Migrate
  <2>1. proc = [Down EXCEPT !.phase = "open", !.code = "new"]
    BY <1>3 DEF Migrate, ProcInv
  <2>2. proc'.m = None /\ (proc'.phase = "applying" => proc'.todo = Pending(plan.migrations))
    BY <1>3, <2>1 DEF Migrate, Down
  <2>3. Pending(plan.migrations) \subseteq plan.migrations
    BY DEF Pending
  <2> QED BY <1>1, <2>2, <2>3 DEF OrderInv, None
<1>4. CASE NextMigration
  <2>1. PICK m \in proc.todo : /\ \A n \in proc.todo : m.version <= n.version
                              /\ proc' = [proc EXCEPT !.todo = @ \ {m}, !.m = m, !.i = 0]
    BY <1>4 DEF NextMigration
  <2>2. proc'.todo = proc.todo \ {m} /\ proc'.m = m
    BY <2>1 DEF TypeInv, ProcType
  <2>3. proc.todo \subseteq plan.migrations
    BY <1>4 DEF NextMigration, ProcInv, Attempt
  <2>4. \A n \in proc.todo \ {m} : m.version < n.version
    BY <1>1, <2>1, <2>3 DEF VersionsDiffer
  <2> QED BY <2>2, <2>4 DEF OrderInv
<1>5. CASE NextOperation
  BY <1>5, NextOperationIs DEF OrderInv
<1>6. CASE ApplyStep
  BY <1>6, ProcAfter DEF OrderInv, Working
<1>7. CASE Ends \/ Write
  BY <1>2, <1>7, EndsSees, WriteIs
<1>8. ASSUME NEW code, Open(code) PROVE OrderInv'
  BY <1>2, <1>8 DEF Open, Down
<1>9. CASE Record \/ Persist \/ Close
  <2>1. CASE Record \/ Persist
    BY <1>2, <2>1 DEF Record, Persist, TypeInv, ProcType
  <2>2. CASE Close
    BY <1>2, <2>2 DEF Close, Down
  <2> QED BY <1>9, <2>1, <2>2
<1>10. CASE UNCHANGED vars
  BY <1>2, <1>10 DEF vars
<1>11. CASE DropIgnored
  BY <1>11, IgnoredIs DEF OrderInv, Working
<1> QED BY <1>3, <1>4, <1>5, <1>6, <1>7, <1>8, <1>9, <1>10, <1>11, NextIs DEF Still

\* An operation that failed is not past.
LEMMA DeclaredNext ==
  ASSUME TypeInv, ProcInv, RebuildInv, DeclaredInv, [Next]_vars
  PROVE  DeclaredInv'
<1>0. plan' = plan /\ New' = New
  BY HistoryNext
<1> SUFFICES ASSUME NEW m \in plan.migrations, NEW i \in DOMAIN m.ops, Past(m, i, {})',
                    FirstStep(m.ops[i], New) = "fail"
             PROVE  FALSE
  BY <1>0 DEF DeclaredInv
<1>1. ~Past(m, i, {})
  BY DEF DeclaredInv
<1>2. CASE Still
  BY <1>1, <1>2, PastStill
<1>3. CASE Ends \/ Write
  BY <1>1, <1>3, PastEnds, PastWrite
<1>4. CASE ApplyStep
  <2>1. m = proc.m /\ i = proc.i
    BY <1>1, <1>4, PastStep
  <2>2. proc.step # "fail" /\ Working
    BY <1>4, ProcAfter DEF Succeeds
  <2> QED BY <2>1, <2>2, WorkingFacts DEF Doing
<1> QED BY <1>2, <1>3, <1>4, NextIs

-----------------------------------------------------------------------------
(* The guards of the unique constraints. *)

\* Each guard belongs to a constraint of one of the releases.
LEMMA NamesNext ==
  ASSUME TypeInv, ProcInv, RebuildInv, NamesInv, [Next]_vars
  PROVE  NamesInv'
<1>0. plan' = plan /\ Old' = Old /\ New' = New /\ (tried # "no" => tried' # "no")
  BY HistoryNext
<1> DEFINE Ok(g, o) == /\ o = <<o[1], o[2]>>
                       /\ \/ o[1] \in DOMAIN Old /\ g[1] \in DOMAIN UniquesOf(Old[o[1]])
                          \/ o[1] \in DOMAIN New /\ g[1] \in DOMAIN UniquesOf(New[o[1]]) /\ tried' # "no"
<1>1. \A g \in DOMAIN disk.uq : Ok(g, disk.uq[g])
  BY <1>0 DEF NamesInv
<1>2. SUFFICES ASSUME NEW g \in DOMAIN disk'.uq PROVE Ok(g, disk'.uq[g])
  BY <1>0 DEF NamesInv
<1>3. CASE Still \/ Ends
  <2>1. disk'.uq = disk.uq
    BY <1>3, HistoryNext, EndsSees
  <2> QED BY <1>1, <1>2, <2>1
<1>4. CASE Write
  <2>1. PICK x, k : (\E row : InsertRow(x, k, row)) \/ DeleteRow(x, k)
    BY <1>4 DEF Write
  <2>2. CASE DeleteRow(x, k)
    <3>1. \E S : disk'.uq = Without(disk.uq, S)
      BY <2>2, DeleteIs
    <3> QED BY <1>1, <1>2, <3>1 DEF Without
  <2>3. ASSUME NEW row, InsertRow(x, k, row) PROVE Ok(g, disk'.uq[g])
    <3>1. /\ disk'.uq = [h \in Mine(x, row) \cup DOMAIN disk.uq |->
                          IF h \in Mine(x, row) THEN <<x, k>> ELSE disk.uq[h]]
      BY <2>3, InsertGuards
    <3>2. CASE g \notin Mine(x, row)
      BY <1>1, <1>2, <3>1, <3>2
    <3>3. CASE g \in Mine(x, row)
      <4>1. disk'.uq[g] = <<x, k>>
        BY <1>2, <3>1, <3>3
      <4>2. x \in DOMAIN Schema /\ g[1] \in DOMAIN UniquesOf(Schema[x])
        BY <2>3, <3>3, InsertIs DEF Mine
      <4>3. \/ Schema = Old
            \/ Schema = New /\ tried # "no"
        BY <2>3, InsertIs DEF Schema, Old, New, ProcInv
      <4> QED BY <1>0, <4>1, <4>2, <4>3
    <3> QED BY <3>2, <3>3
  <2> QED BY <2>1, <2>2, <2>3
<1>5. CASE ApplyStep
  <2>1. CASE g \in DOMAIN disk.uq /\ disk'.uq[g] = disk.uq[g]
    BY <1>1, <2>1
  <2>2. CASE \E S : disk'.uq = Without(disk.uq, S)
    BY <1>2, <2>1, <2>2 DEF Without
  <2>3. CASE proc.step = "backfill"
    <3>1. disk'.uq = [h \in DOMAIN disk.uq \cup {p[1] : p \in Found} |->
                            IF h \in DOMAIN disk.uq THEN disk.uq[h]
                            ELSE <<T, (CHOOSE p \in Found : p[1] = h)[2]>>]
      BY <1>5, <2>3, GuardsAfter
    <3>2. CASE g \in DOMAIN disk.uq
      BY <2>1, <3>1, <3>2
    <3>3. CASE g \notin DOMAIN disk.uq
      <4>1. g \in {p[1] : p \in Found} /\ disk'.uq[g] = <<T, (CHOOSE p \in Found : p[1] = g)[2]>>
        BY <1>2, <3>1, <3>3
      <4>2. g[1] = Doing.x
        BY <4>1 DEF Found, KeysIn
      <4>3. tried # "no" /\ T \in DOMAIN New /\ Doing.x \in DOMAIN UniquesOf(New[T])
        BY <1>5, <2>3, ProcAfter, WorkingFacts, Declared DEF Succeeds
      <4> QED BY <1>0, <4>1, <4>2, <4>3
    <3> QED BY <3>2, <3>3
  <2> QED BY <1>2, <1>5, <2>1, <2>2, <2>3, GuardsAfter
<1> QED BY <1>3, <1>4, <1>5, NextIs

-----------------------------------------------------------------------------
(* The keys of the rows and their guards. *)

LEMMA UniqueColumn ==
  ASSUME UniquesFollow(plan), NEW t \in DOMAIN New, NEW u \in DOMAIN UniquesOf(New[t])
  PROVE  /\ \A v \in DOMAIN New : u \in DOMAIN UniquesOf(New[v]) => v = t
         /\ \A v \in DOMAIN Old : u \in DOMAIN UniquesOf(Old[v]) =>
              v = t /\ UniquesOf(Old[v])[u] = UniquesOf(New[t])[u]
<1>1. t \in DOMAIN plan["new"] /\ u \in DOMAIN UniquesOf(plan["new"][t])
  BY DEF New
<1>2. ASSUME NEW v \in DOMAIN plan["new"], u \in DOMAIN UniquesOf(plan["new"][v]) PROVE v = t
  BY <1>1, <1>2 DEF UniquesFollow
<1>3. ASSUME NEW v \in DOMAIN plan["old"], u \in DOMAIN UniquesOf(plan["old"][v])
      PROVE v = t /\ UniquesOf(plan["old"][v])[u] = UniquesOf(plan["new"][t])[u]
  BY <1>1, <1>3 DEF UniquesFollow
<1> QED BY <1>2, <1>3 DEF Old, New

\* Only an insert brings a key.
LEMMA KeysKept ==
  ASSUME TypeInv, ProcInv, RebuildInv, NEW t, NEW k, NEW u, HasKey(t, k, u)',
         \/ Still \/ Ends \/ ApplyStep \/ \E x, y : DeleteRow(x, y)
         \/ \E x, y, row : InsertRow(x, y, row) /\ <<x, y>> # <<t, k>>
  PROVE  HasKey(t, k, u) /\ Key(t, k, u)' = Key(t, k, u)
<1> DEFINE c == UniquesOf(New[t])[u]
<1>0. New' = New
  <2>1. CASE Still \/ Ends \/ ApplyStep
    BY <2>1, HistoryNext DEF Still, Ends, Next
  <2>2. CASE (\E x, y : DeleteRow(x, y)) \/ (\E x, y, row : InsertRow(x, y, row))
    BY <2>2, DeleteIs, InsertIs DEF New
  <2> QED BY <2>1, <2>2
<1>1. /\ t \in DOMAIN New /\ u \in DOMAIN UniquesOf(New[t])
      /\ Here(t)' /\ k \in DOMAIN RowsOf(t)' /\ CellAt(t, k, c)' # Null
  BY <1>0 DEF HasKey
<1>2. SUFFICES Here(t) /\ k \in DOMAIN RowsOf(t) /\ CellAt(t, k, c)' = CellAt(t, k, c)
  BY <1>0, <1>1 DEF HasKey, Key
<1>3. CASE Same(t)
  BY <1>0, <1>1, <1>3 DEF Same, CellAt
<1>4. CASE Still
  BY <1>3, <1>4, StillSees
<1>5. CASE Ends
  <2>1. Here(t) /\ k \in DOMAIN RowsOf(t) /\ RowsOf(t)'[k] = RowsOf(t)[k]
    BY <1>1, <1>5, EndsSees
  <2> QED BY <1>0, <2>1 DEF CellAt
<1>6. CASE ApplyStep
  <2>1. Here(t) /\ k \in DOMAIN RowsOf(t) /\ \A d : CellAt(t, k, d)' \in {CellAt(t, k, d), Null}
    BY <1>1, <1>6, StepKeeps
  <2>2. PICK d : d = c
    OBVIOUS
  <2>3. CellAt(t, k, d)' \in {CellAt(t, k, d), Null}
    BY <2>1
  <2> QED BY <1>0, <1>1, <2>1, <2>2, <2>3 DEF CellAt
<1>7. ASSUME NEW x, NEW y, DeleteRow(x, y)
      PROVE  Here(t) /\ k \in DOMAIN RowsOf(t) /\ CellAt(t, k, c)' = CellAt(t, k, c)
  <2>1. (Here(t)' <=> Here(t)) /\ (x # t => Same(t)) /\ RowsOf(x)' = Without(RowsOf(x), {y})
    BY <1>7, DeleteIs
  <2> QED BY <1>0, <1>1, <1>3, <2>1 DEF Without, CellAt
<1>8. ASSUME NEW x, NEW y, NEW row, InsertRow(x, y, row), <<x, y>> # <<t, k>>
      PROVE  Here(t) /\ k \in DOMAIN RowsOf(t) /\ CellAt(t, k, c)' = CellAt(t, k, c)
  <2>1. (Here(t)' <=> Here(t)) /\ (x # t => Same(t)) /\ RowsOf(x)' = With(RowsOf(x), y, row)
    BY <1>8, InsertIs
  <2> QED BY <1>0, <1>1, <1>3, <1>8, <2>1 DEF With, CellAt
<1> QED BY <1>4, <1>5, <1>6, <1>7, <1>8

\* The guards of a key that is backfilled.
LEMMA BackfillIs ==
  ASSUME TypeInv, ProcInv, RebuildInv, ApplyStep, proc.step = "backfill"
  PROVE  /\ T \in DOMAIN New /\ Doing.x \in DOMAIN UniquesOf(New[T])
         /\ disk'.uq = [g \in DOMAIN disk.uq \cup {p[1] : p \in Found} |->
                            IF g \in DOMAIN disk.uq THEN disk.uq[g]
                            ELSE <<T, (CHOOSE p \in Found : p[1] = g)[2]>>]
         /\ \A p, q \in Found : p[1] = q[1] => p[2] = q[2]
         /\ \A k : HasKey(T, k, Doing.x) => <<Key(T, k, Doing.x), k>> \in Found
<1>1. /\ disk'.uq = [g \in DOMAIN disk.uq \cup {p[1] : p \in Found} |->
                            IF g \in DOMAIN disk.uq THEN disk.uq[g]
                            ELSE <<T, (CHOOSE p \in Found : p[1] = g)[2]>>]
  BY GuardsAfter
<1>2. Working /\ Succeeds /\ Backfills /\ Target = New[T] /\ T \in DOMAIN New
      /\ Doing.x \in DOMAIN UniquesOf(New[T])
  BY ProcAfter, SchemaTarget, Declared DEF Succeeds
<1>3. ASSUME NEW k, HasKey(T, k, Doing.x)
      PROVE  <<Key(T, k, Doing.x), k>> \in Found
  <2>1. RowsOf(T) = disk.tables[T].rows
    BY DEF RowsOf, Away
  <2> QED BY <1>2, <1>3, <2>1 DEF HasKey, Key, CellAt, Found, KeysIn
<1> QED BY <1>1, <1>2, <1>3 DEF Backfills

\* What a transaction of the serving release knows of the constraints of the
\* new one.
LEMMA Served ==
  ASSUME TypeInv, ProcInv, TablesFollow(plan), UniquesFollow(plan), NamesInv, CompleteInv,
         tried # "mixed", proc.phase = "serving",
         NEW t \in DOMAIN New, NEW u \in DOMAIN UniquesOf(New[t])
  PROVE  /\ \/ /\ t \in DOMAIN Schema /\ u \in DOMAIN UniquesOf(Schema[t])
               /\ UniquesOf(Schema[t])[u] = UniquesOf(New[t])[u]
               /\ Complete(t, u)
            \/ \A g \in DOMAIN disk.uq : g[1] # u
         /\ \A x \in DOMAIN Schema : u \in DOMAIN UniquesOf(Schema[x]) =>
              x = t /\ UniquesOf(Schema[t])[u] = UniquesOf(New[t])[u] /\ Complete(t, u)
<1>1. CASE proc.code = "new"
  <2>1. Schema = New /\ records = Versions
    BY <1>1 DEF Schema, New, ProcInv
  <2>2. CASE records # {}
    BY <2>1, <2>2, UniqueColumn DEF CompleteInv
  <2>3. CASE records = {}
    <3>1. plan.migrations = {}
      BY <2>1, <2>3 DEF Versions
    <3>2. OpsOf(plan) = {}
      BY <3>1 DEF OpsOf
    <3>3. t \in DOMAIN Old
      BY <3>2 DEF TablesFollow, Old, New
    <3>4. u \in DOMAIN UniquesOf(Old[t])
      BY <3>2, <3>3 DEF UniquesFollow, Old, New
    <3> QED BY <2>1, <3>3, <3>4, UniqueColumn DEF CompleteInv
  <2> QED BY <2>2, <2>3
<1>2. CASE proc.code = "old"
  <2>1. Schema = Old /\ tried = "no"
    BY <1>2 DEF Schema, Old, ProcInv
  <2>2. \A x \in DOMAIN Old : u \in DOMAIN UniquesOf(Old[x]) =>
          x = t /\ UniquesOf(Old[t])[u] = UniquesOf(New[t])[u] /\ Complete(t, u)
    BY UniqueColumn DEF CompleteInv
  <2>3. ASSUME NEW g \in DOMAIN disk.uq, g[1] = u
        PROVE  \E x \in DOMAIN Old : u \in DOMAIN UniquesOf(Old[x])
    BY <2>1, <2>3 DEF NamesInv
  <2> QED BY <2>1, <2>2, <2>3
<1> QED BY <1>1, <1>2 DEF ProcInv

LEMMA OwnersNext ==
  ASSUME TypeInv, ProcInv, RebuildInv, TablesFollow(plan), UniquesFollow(plan), NamesInv, OwnersInv,
         CompleteInv, [Next]_vars
  PROVE  OwnersInv'
<1> SUFFICES ASSUME tried' # "mixed", NEW t, NEW k, NEW u,
                    HasKey(t, k, u)', Key(t, k, u)' \in DOMAIN disk'.uq
             PROVE  disk'.uq[Key(t, k, u)'] = <<t, k>>
  BY DEF OwnersInv
<1>0. tried # "mixed" /\ New' = New
  BY HistoryNext
<1>1. ASSUME HasKey(t, k, u), Key(t, k, u)' = Key(t, k, u), Key(t, k, u) \in DOMAIN disk.uq,
             disk'.uq[Key(t, k, u)] = disk.uq[Key(t, k, u)]
      PROVE  disk'.uq[Key(t, k, u)'] = <<t, k>>
  BY <1>0, <1>1 DEF OwnersInv
<1>2. ASSUME HasKey(t, k, u), Key(t, k, u)' = Key(t, k, u),
             disk'.uq = disk.uq \/ \E S : disk'.uq = Without(disk.uq, S)
      PROVE  disk'.uq[Key(t, k, u)'] = <<t, k>>
  BY <1>1, <1>2 DEF Without
<1>3. CASE Still \/ Ends
  BY <1>2, <1>3, KeysKept, HistoryNext, EndsSees
<1>4. CASE ApplyStep
  <2>1. HasKey(t, k, u) /\ Key(t, k, u)' = Key(t, k, u)
    BY <1>4, KeysKept
  <2>2. CASE proc.step = "backfill"
    <3> DEFINE g == Key(t, k, u)
    <3>1. /\ disk'.uq = [h \in DOMAIN disk.uq \cup {p[1] : p \in Found} |->
                            IF h \in DOMAIN disk.uq THEN disk.uq[h]
                            ELSE <<T, (CHOOSE p \in Found : p[1] = h)[2]>>]
          /\ T \in DOMAIN New /\ Doing.x \in DOMAIN UniquesOf(New[T])
          /\ \A p, q \in Found : p[1] = q[1] => p[2] = q[2]
          /\ \A y : HasKey(T, y, Doing.x) => <<Key(T, y, Doing.x), y>> \in Found
      BY <1>4, <2>2, BackfillIs
    <3>2. CASE g \in DOMAIN disk.uq
      BY <1>1, <2>1, <3>1, <3>2
    <3>3. CASE g \notin DOMAIN disk.uq
      <4>1. g \in {p[1] : p \in Found}
        BY <2>1, <3>1, <3>3
      <4>2. g[1] = u /\ u = Doing.x /\ t \in DOMAIN New /\ u \in DOMAIN UniquesOf(New[t])
        BY <2>1, <4>1 DEF Found, KeysIn, Key, HasKey
      <4>3. t = T
        BY <1>4, <3>1, <4>2, UniqueColumn
      <4>4. <<g, k>> \in Found
        BY <2>1, <3>1, <4>2, <4>3
      <4>5. (CHOOSE p \in Found : p[1] = g)[2] = k
        BY <3>1, <4>4
      <4> QED BY <2>1, <3>1, <3>3, <4>1, <4>3, <4>5
    <3> QED BY <3>2, <3>3
  <2> QED BY <1>2, <1>4, <2>1, <2>2, GuardsAfter
<1>5. ASSUME NEW x, NEW y, DeleteRow(x, y)
      PROVE  disk'.uq[Key(t, k, u)'] = <<t, k>>
  <2>1. HasKey(t, k, u) /\ Key(t, k, u)' = Key(t, k, u)
    BY <1>5, KeysKept
  <2>2. \E S : disk'.uq = Without(disk.uq, S)
    BY <1>5, DeleteIs
  <2> QED BY <1>2, <2>1, <2>2
<1>6. ASSUME NEW x, NEW y, NEW row, InsertRow(x, y, row)
      PROVE  disk'.uq[Key(t, k, u)'] = <<t, k>>
  <2>0. proc.phase = "serving" /\ x \in DOMAIN Schema /\ RowsOf(x)' = With(RowsOf(x), y, row)
    BY <1>6, InsertIs
  <2>1. /\ Mine(x, row) \cap DOMAIN disk.uq = {}
        /\ disk'.uq = [g \in Mine(x, row) \cup DOMAIN disk.uq |->
                          IF g \in Mine(x, row) THEN <<x, y>> ELSE disk.uq[g]]
    BY <1>6, InsertGuards
  <2>2. t \in DOMAIN New /\ u \in DOMAIN UniquesOf(New[t])
    BY <1>0 DEF HasKey
  <2>3. /\ \/ /\ t \in DOMAIN Schema /\ u \in DOMAIN UniquesOf(Schema[t])
               /\ UniquesOf(Schema[t])[u] = UniquesOf(New[t])[u]
               /\ Complete(t, u)
           \/ \A g \in DOMAIN disk.uq : g[1] # u
        /\ \A v \in DOMAIN Schema : u \in DOMAIN UniquesOf(Schema[v]) =>
              v = t /\ UniquesOf(Schema[t])[u] = UniquesOf(New[t])[u] /\ Complete(t, u)
    BY <1>0, <2>0, <2>2, Served
  <2>4. CASE <<x, y>> # <<t, k>>
    <3>1. HasKey(t, k, u) /\ Key(t, k, u)' = Key(t, k, u)
      BY <1>6, <2>4, KeysKept
    <3>2. ASSUME Key(t, k, u) \in Mine(x, row) PROVE FALSE
      <4>1. u \in DOMAIN UniquesOf(Schema[x])
        BY <3>2 DEF Mine, Key
      <4>2. Complete(t, u)
        BY <2>0, <2>3, <4>1
      <4>3. Key(t, k, u) \in DOMAIN disk.uq
        BY <3>1, <4>2 DEF Complete
      <4> QED BY <2>1, <3>2, <4>3
    <3> QED BY <1>1, <2>1, <3>1, <3>2
  <2>5. CASE <<x, y>> = <<t, k>>
    <3>1. x = t /\ y = k
      BY <2>5
    <3> DEFINE c == UniquesOf(New[t])[u]
    <3>2. Key(t, k, u)' = <<u, Cell(row, c)>> /\ Cell(row, c) # Null
      BY <1>0, <2>0, <3>1 DEF HasKey, Key, CellAt, With
    <3>3. CASE Key(t, k, u)' \in Mine(x, row)
      BY <2>1, <3>1, <3>3
    <3>4. CASE Key(t, k, u)' \notin Mine(x, row)
      <4>1. ~(u \in DOMAIN UniquesOf(Schema[t]) /\ UniquesOf(Schema[t])[u] = c)
        BY <3>1, <3>2, <3>4 DEF Mine
      <4>2. \A g \in DOMAIN disk.uq : g[1] # u
        BY <2>3, <4>1
      <4>3. Key(t, k, u)' \in DOMAIN disk.uq
        BY <2>1, <3>4
      <4> QED BY <3>2, <4>2, <4>3
    <3> QED BY <3>3, <3>4
  <2> QED BY <2>4, <2>5
<1>7. CASE Write
  BY <1>5, <1>6, <1>7 DEF Write
<1> QED BY <1>3, <1>4, <1>7, NextIs

-----------------------------------------------------------------------------
(* Guards of every key. *)

\* A constraint that guards all its keys goes on to.
LEMMA CompleteKept ==
  ASSUME TypeInv, ProcInv, RebuildInv, Follows(plan), NamesInv, OwnersInv, tried # "mixed",
         [Next]_vars, NEW t, NEW u, Complete(t, u),
         proc.phase = "serving" =>
           proc.code = "new" \/ t \notin DOMAIN Old \/ u \in DOMAIN UniquesOf(Old[t])
  PROVE  Complete(t, u)'
<1> SUFFICES ASSUME NEW k, HasKey(t, k, u)' PROVE Key(t, k, u)' \in DOMAIN disk'.uq
  BY DEF Complete
<1>0. New' = New /\ UniquesFollow(plan) /\ TablesFollow(plan) /\ ColumnsFollow(plan)
  BY HistoryNext DEF Follows
<1>1. t \in DOMAIN New /\ u \in DOMAIN UniquesOf(New[t])
  BY <1>0 DEF HasKey
<1>2. ASSUME HasKey(t, k, u), Key(t, k, u)' = Key(t, k, u)
      PROVE  /\ Key(t, k, u) \in DOMAIN disk.uq
             /\ disk.uq[Key(t, k, u)] = <<t, k>>
             /\ Key(t, k, u)[1] = u
             /\ Key(t, k, u) \in DOMAIN disk'.uq => Key(t, k, u)' \in DOMAIN disk'.uq
  BY <1>2 DEF Complete, OwnersInv, Key
<1>3. CASE Still \/ Ends
  <2>1. disk'.uq = disk.uq
    BY <1>3, HistoryNext, EndsSees
  <2> QED BY <1>2, <1>3, <2>1, KeysKept
<1>4. CASE ApplyStep
  <2>1. HasKey(t, k, u) /\ Key(t, k, u)' = Key(t, k, u)
    BY <1>4, KeysKept
  <2> DEFINE g == Key(t, k, u)
  <2>2. /\ g \in DOMAIN disk.uq /\ disk.uq[g] = <<t, k>> /\ g[1] = u
        /\ g \in DOMAIN disk'.uq => Key(t, k, u)' \in DOMAIN disk'.uq
    BY <1>2, <2>1
  <2> HIDE DEF g
  <2>3. Working /\ proc.step # "fail" /\ Target = New[T] /\ Doing \in OpsOf(plan) /\ T = Doing.t
    BY <1>4, ProcAfter, SchemaTarget, StepKinds DEF Succeeds, T
  <2>4. CASE proc.step = "clean"
    <3>1. T \notin DOMAIN New
      BY <1>0, <2>3, <2>4, StepKinds, FirstStepIs
    <3>2. disk'.uq = Without(disk.uq, {h \in DOMAIN disk.uq : disk.uq[h][1] = T})
      BY <1>4, <2>4, GuardsAfter
    <3> QED BY <1>1, <2>2, <3>1, <3>2 DEF Without
  <2>5. CASE proc.step = "dropguards"
    <3>1. Doing.kind = "drop_unique"
      BY <2>3, <2>5, StepKinds
    <3>2. ASSUME Doing.x = u PROVE FALSE
      <4>1. t \in DOMAIN plan["new"] /\ Doing.x \in DOMAIN UniquesOf(plan["new"][t])
        BY <1>1, <3>2 DEF New
      <4> QED BY <1>0, <2>3, <3>1, <4>1 DEF UniquesFollow
    <3>3. disk'.uq = Without(disk.uq, {h \in DOMAIN disk.uq : disk.uq[h][1] = T /\ h[1] = Doing.x})
      BY <1>4, <2>5, GuardsAfter
    <3> QED BY <2>2, <3>2, <3>3 DEF Without
  <2>6. CASE proc.step = "stale"
    <3>1. disk'.uq = Without(disk.uq, {h \in DOMAIN disk.uq :
                       disk.uq[h][1] = T /\ h[1] \notin DOMAIN UniquesOf(Target)})
      BY <1>4, <2>6, GuardsAfter
    <3> QED BY <1>1, <2>2, <2>3, <3>1 DEF Without
  <2>7. CASE proc.step = "backfill"
    <3>1. DOMAIN disk.uq \subseteq DOMAIN disk'.uq
      BY <1>4, <2>7, BackfillIs
    <3> QED BY <2>2, <3>1
  <2>8. CASE proc.step \notin {"clean", "dropguards", "stale", "backfill"}
    BY <1>4, <2>2, <2>8, GuardsAfter
  <2> QED BY <2>4, <2>5, <2>6, <2>7, <2>8
<1>5. ASSUME NEW x, NEW y, DeleteRow(x, y)
      PROVE  Key(t, k, u)' \in DOMAIN disk'.uq
  <2>1. HasKey(t, k, u) /\ Key(t, k, u)' = Key(t, k, u)
    BY <1>5, KeysKept
  <2>2. \A g \in DOMAIN disk.uq : disk.uq[g] # <<x, y>> => g \in DOMAIN disk'.uq
    <3>1. disk'.uq = Without(disk.uq, {g \in DOMAIN disk.uq :
                        disk.uq[g] = <<x, y>> /\ g[1] \in DOMAIN UniquesOf(Schema[x])})
      BY <1>5 DEF DeleteRow, TypeInv, DiskType
    <3> QED BY <3>1 DEF Without
  <2>3. <<x, y>> # <<t, k>>
    <3>1. RowsOf(x)' = Without(RowsOf(x), {y})
      BY <1>5, DeleteIs
    <3> QED BY <3>1 DEF HasKey, Without
  <2>4. PICK g : g = Key(t, k, u)
    OBVIOUS
  <2>5. g \in DOMAIN disk.uq /\ disk.uq[g] = <<t, k>>
        /\ (g \in DOMAIN disk'.uq => Key(t, k, u)' \in DOMAIN disk'.uq)
    BY <1>2, <2>1, <2>4
  <2>6. g \in DOMAIN disk'.uq
    BY <2>2, <2>3, <2>5
  <2> QED BY <2>5, <2>6
<1>6. ASSUME Write, NEW x, NEW y, NEW row, InsertRow(x, y, row)
      PROVE  Key(t, k, u)' \in DOMAIN disk'.uq
  <2>1. disk'.uq = [g \in Mine(x, row) \cup DOMAIN disk.uq |->
                       IF g \in Mine(x, row) THEN <<x, y>> ELSE disk.uq[g]]
    BY <1>6, InsertGuards
  <2>2. CASE <<x, y>> # <<t, k>>
    BY <1>2, <1>6, <2>1, <2>2, KeysKept
  <2>3. CASE <<x, y>> = <<t, k>>
    <3> DEFINE c == UniquesOf(New[t])[u]
    <3>1. x = t /\ y = k
      BY <2>3
    <3>2. x \in DOMAIN Schema /\ RowsOf(x)' = With(RowsOf(x), y, row)
      BY <1>6, InsertIs
    <3>3. Key(t, k, u)' = <<u, Cell(row, c)>> /\ Cell(row, c) # Null
      BY <1>0, <3>1, <3>2 DEF HasKey, Key, CellAt, With
    <3>4. u \in DOMAIN UniquesOf(Schema[t]) /\ UniquesOf(Schema[t])[u] = c
      <4>1. CASE proc.code = "new"
        BY <1>1, <4>1 DEF Schema, New
      <4>2. CASE proc.code # "new"
        <5>1. Schema = Old
          BY <4>2 DEF ProcInv, Schema, Old
        <5>2. t \in DOMAIN Old /\ u \in DOMAIN UniquesOf(Old[t])
          BY <1>6, <3>1, <3>2, <4>2, <5>1, InsertIs
        <5> QED BY <1>0, <1>1, <5>1, <5>2, UniqueColumn
      <4> QED BY <4>1, <4>2
    <3>5. Key(t, k, u)' \in Mine(x, row)
      BY <3>1, <3>3, <3>4 DEF Mine
    <3> QED BY <2>1, <3>5
  <2> QED BY <2>2, <2>3
<1>7. CASE Write
  BY <1>5, <1>6, <1>7 DEF Write
<1> QED BY <1>3, <1>4, <1>7, NextIs

\* An operation whose own step is none of S is past S.
LEMMA PastOwn ==
  ASSUME TypeInv, ProcInv, ApplyStep, NEW m, NEW i, m = proc.m, i = proc.i, NEW S, proc.step \notin S
  PROVE  Past(m, i, S)
<1>1. proc.step # "fail" /\ proc.m \notin proc.todo /\ proc.phase = "applying"
      /\ proc.m \in plan.migrations /\ proc.i \in DOMAIN proc.m.ops
  BY ProcAfter, WorkingFacts DEF Succeeds, Attempt, Working
<1>2. ~(i > i)
  BY <1>1, PlanFacts DEF TypeInv
<1> QED BY <1>1, <1>2 DEF Past, Coming, At

LEMMA UniqueNext ==
  ASSUME TypeInv, ProcInv, RebuildInv, Follows(plan), NamesInv, OwnersInv, UniqueInv, [Next]_vars
  PROVE  UniqueInv'
<1>0. plan' = plan /\ New' = New /\ (tried = "mixed" => tried' = "mixed")
      /\ \A op : AddsUnique(op)' <=> AddsUnique(op)
  BY HistoryNext DEF AddsUnique
<1> SUFFICES ASSUME tried' # "mixed", NEW m \in plan.migrations, NEW i \in DOMAIN m.ops,
                    AddsUnique(m.ops[i]), Past(m, i, {"backfill"})'
             PROVE  Complete(m.ops[i].t, m.ops[i].x)'
  BY <1>0 DEF UniqueInv
<1>1. TablesFollow(plan) /\ ColumnsFollow(plan) /\ m.ops[i] \in OpsOf(plan)
  BY DEF Follows, OpsOf
<1>2. ASSUME Past(m, i, {"backfill"})
      PROVE  Complete(m.ops[i].t, m.ops[i].x)'
  <2>1. tried # "mixed"
    BY <1>0
  <2>2. Complete(m.ops[i].t, m.ops[i].x)
    BY <1>2, <2>1 DEF UniqueInv
  <2>3. proc.phase = "serving" => proc.code = "new"
    BY <1>2 DEF Past, ProcInv
  <2> QED BY <2>1, <2>2, <2>3, CompleteKept
<1>3. CASE Still
  <2>1. FirstStep(m.ops[i], New) \in {"backfill", "fail"}
    BY <1>1, FirstStepIs
  <2> QED BY <1>2, <1>3, <2>1, PastStill
<1>4. CASE Ends \/ Write
  BY <1>2, <1>4, PastEnds, PastWrite
<1>5. CASE ApplyStep /\ (m # proc.m \/ i # proc.i \/ proc.step # "backfill")
  BY <1>2, <1>5, PastStep, PastOwn
<1>6. CASE ApplyStep /\ m = proc.m /\ i = proc.i /\ proc.step = "backfill"
  <2>1. m.ops[i] = Doing /\ T = Doing.t
    BY <1>6 DEF Doing, T
  <2>2. /\ disk'.uq = [g \in DOMAIN disk.uq \cup {p[1] : p \in Found} |->
                            IF g \in DOMAIN disk.uq THEN disk.uq[g]
                            ELSE <<T, (CHOOSE p \in Found : p[1] = g)[2]>>]
        /\ \A k : HasKey(T, k, Doing.x) => <<Key(T, k, Doing.x), k>> \in Found
    BY <1>6, BackfillIs
  <2>3. PICK t, u : t = m.ops[i].t /\ u = m.ops[i].x
    OBVIOUS
  <2>4. ASSUME NEW k, HasKey(t, k, u)'
        PROVE  Key(t, k, u)' \in DOMAIN disk'.uq
    <3>1. HasKey(t, k, u) /\ Key(t, k, u)' = Key(t, k, u)
      BY <1>6, <2>4, KeysKept
    <3>2. <<Key(t, k, u), k>> \in Found
      BY <2>1, <2>2, <2>3, <3>1
    <3> QED BY <2>2, <3>1, <3>2
  <2>5. Complete(t, u)'
    BY <2>4 DEF Complete
  <2> QED BY <2>3, <2>5
<1> QED BY <1>3, <1>4, <1>5, <1>6, NextIs

LEMMA CompleteNext ==
  ASSUME TypeInv, ProcInv, RebuildInv, Follows(plan), NamesInv, OwnersInv, UniqueInv, CompleteInv,
         [Next]_vars
  PROVE  CompleteInv'
<1>0. plan' = plan /\ New' = New /\ Old' = Old /\ (tried = "mixed" => tried' = "mixed")
  BY HistoryNext
<1> SUFFICES ASSUME tried' # "mixed", NEW t, NEW u,
                    t \notin DOMAIN Old \/ u \in DOMAIN UniquesOf(Old[t]) \/ records' # {}
             PROVE  Complete(t, u)'
  BY <1>0 DEF CompleteInv
<1>1. TablesFollow(plan) /\ ColumnsFollow(plan) /\ UniquesFollow(plan) /\ tried # "mixed"
  BY <1>0 DEF Follows
<1>2. CASE t \notin DOMAIN Old \/ u \in DOMAIN UniquesOf(Old[t]) \/ records # {}
  <2>1. Complete(t, u)
    BY <1>1, <1>2 DEF CompleteInv
  <2>2. proc.phase = "serving" =>
          proc.code = "new" \/ t \notin DOMAIN Old \/ u \in DOMAIN UniquesOf(Old[t])
    BY <1>2 DEF ProcInv
  <2> QED BY <1>1, <2>1, <2>2, CompleteKept
<1>3. CASE t \in DOMAIN Old /\ u \notin DOMAIN UniquesOf(Old[t]) /\ records = {}
  <2>1. Still /\ records' # {}
    BY <1>3, EndsSees, ProcAfter, WriteIs, NextIs
  <2>2. CASE ~(t \in DOMAIN New /\ u \in DOMAIN UniquesOf(New[t]))
    BY <1>0, <2>2 DEF Complete, HasKey
  <2>3. CASE t \in DOMAIN New /\ u \in DOMAIN UniquesOf(New[t])
    <3>1. PICK op \in OpsOf(plan) : op.t = t /\ op.x = u /\ AddsUnique(op)
      BY <1>1, <1>3, <2>3 DEF UniquesFollow, AddsUnique, Old, New
    <3>2. PICK m, i : m \in plan.migrations /\ i \in DOMAIN m.ops /\ m.ops[i] = op
      BY <3>1 DEF OpsOf
    <3>3. Past(m, i, {"backfill"})'
      BY <2>1 DEF Past
    <3>4. FirstStep(m.ops[i], New) \in {"backfill", "fail"}
      BY <1>1, <3>1, <3>2, FirstStepIs
    <3>5. Past(m, i, {"backfill"})
      BY <2>1, <3>2, <3>3, <3>4, PastStill
    <3>6. Complete(t, u)
      BY <1>1, <3>1, <3>2, <3>5 DEF UniqueInv
    <3>7. proc.phase # "serving"
      BY <1>3, <3>5 DEF Past
    <3> QED BY <1>1, <3>6, <3>7, CompleteKept
  <2> QED BY <2>2, <2>3
<1> QED BY <1>2, <1>3

-----------------------------------------------------------------------------
(* The effects of an operation last. *)

LEMMA LastingSame ==
  ASSUME NEW op, Lasting(op), \A t : Same(t), disk'.uq = disk.uq, disk'.objects = disk.objects,
         plan' = plan, ignored \subseteq ignored'
  PROVE  Lasting(op)'
<1>1. New' = New
  BY DEF New
<1>2. \A t, c : Has(t, c) => Has(t, c)'
  BY <1>1 DEF Same, Has
<1>3. \A t, fk : Refers(t, fk) => Refers(t, fk)'
  BY DEF Same, Refers, CellAt
<1>4. \A t : (Here(t)' <=> Here(t)) /\ (Here(t) => ColsOf(t)' = ColsOf(t))
  BY DEF Same
<1> QED BY <1>1, <1>2, <1>3, <1>4 DEF Lasting

\* Where an operation that does not fail works.
LEMMA WorksOn ==
  ASSUME NEW op, FirstStep(op, New) # "fail"
  PROVE  /\ Rebuilds(op) => op.t \in DOMAIN New
         /\ op.kind = "add_foreign_key" =>
              /\ op.t \in DOMAIN New /\ op.x \in DOMAIN New[op.t].fks
              /\ New[op.t].fks[op.x].parent \in DOMAIN New
<1>1. CASE op.kind \in {"drop_column", "drop_index"}
  BY <1>1 DEF FirstStep, Rebuilds
<1>2. CASE op.kind = "add_index"
  BY <1>2 DEF FirstStep, Rebuilds
<1>3. CASE op.kind = "add_foreign_key"
  BY <1>3 DEF FirstStep, Rebuilds
<1> QED BY <1>1, <1>2, <1>3 DEF Rebuilds

LEMMA SettledColumn ==
  ASSUME NEW op, op.kind \in {"add_column", "alter_column"}, NEW c, Settles(plan, op, c)
  PROVE  c \in DOMAIN New[op.t].cols
BY DEF Settles, Rebuilds, Named, New

LEMMA LastingStep ==
  ASSUME TypeInv, ProcInv, RebuildInv, Follows(plan), ApplyStep,
         NEW op \in OpsOf(plan), FirstStep(op, New) # "fail", Lasting(op)
  PROVE  Lasting(op)'
<1>0. /\ plan' = plan /\ New' = New /\ Working /\ Succeeds /\ proc.step # "fail" /\ T = Doing.t
      /\ TablesFollow(plan) /\ ColumnsFollow(plan) /\ UniquesFollow(plan) /\ ObjectsFollow(plan)
      /\ Doing \in OpsOf(plan)
  BY ProcAfter, StepKinds DEF New, Succeeds, T, Follows
<1>1. \A t \in DOMAIN New : Here(t) => Here(t)'
  <2>1. proc.step = "drop" => T \notin DOMAIN New
    BY <1>0, StepKinds, FirstStepIs
  <2> QED BY <2>1, StepKeeps
<1>2. ASSUME op.kind = "create_table" PROVE Here(op.t)'
  BY <1>0, <1>1, <1>2, FirstStepIs DEF Lasting
<1>3. ASSUME op.kind = "drop_table" PROVE ~Here(op.t)' \/ op.t \in ignored'
  <2>1. op.t \notin DOMAIN New /\ (~Here(op.t) \/ op.t \in ignored)
    BY <1>0, <1>3, FirstStepIs DEF Lasting
  <2>2. proc.step = "create" => T \in DOMAIN New
    BY <1>0, Declared
  <2>3. CASE ~Here(op.t)
    BY <2>1, <2>2, <2>3, StepKeeps
  <2>4. CASE op.t \in ignored /\ ~(proc.step = "drop" /\ op.t = T)
    BY <2>4 DEF ApplyStep
  <2>5. CASE proc.step = "drop" /\ op.t = T
    BY <2>5, StepSees
  <2> QED BY <2>1, <2>3, <2>4, <2>5
<1>4. ASSUME op.kind = "drop_unique" PROVE \A g \in DOMAIN disk'.uq : g[1] # op.x
  <2>1. \A g \in DOMAIN disk.uq : g[1] # op.x
    BY <1>4 DEF Lasting
  <2>2. CASE proc.step = "backfill"
    <3>1. /\ DOMAIN disk'.uq = DOMAIN disk.uq \cup {p[1] : p \in Found}
          /\ T \in DOMAIN New /\ Doing.x \in DOMAIN UniquesOf(New[T])
      BY <2>2, BackfillIs
    <3>2. \A p \in Found : p[1][1] = Doing.x
      BY DEF Found, KeysIn
    <3>3. op.x # Doing.x
      <4>1. T \in DOMAIN plan["new"] /\ Doing.x \in DOMAIN UniquesOf(plan["new"][T])
        BY <3>1 DEF New
      <4> QED BY <1>0, <1>4, <4>1 DEF UniquesFollow
    <3> QED BY <2>1, <3>1, <3>2, <3>3
  <2>3. CASE proc.step # "backfill"
    <3>1. disk'.uq = disk.uq \/ \E S : disk'.uq = Without(disk.uq, S)
      BY <2>3, GuardsAfter
    <3> QED BY <2>1, <3>1 DEF Without
  <2> QED BY <2>2, <2>3
<1>5. ASSUME op.kind \in {"add_column", "alter_column"}
      PROVE  Here(op.t)' /\ \A c : Settles(plan, op, c) => Has(op.t, c)'
  <2>1. PICK t : t = op.t
    OBVIOUS
  <2>2. t \in DOMAIN New /\ Here(t) /\ Here(t)'
    BY <1>0, <1>1, <1>5, <2>1, FirstStepIs DEF Lasting
  <2>3. ASSUME NEW c, Settles(plan, op, c) PROVE Has(t, c)'
    <3>1. Has(t, c) /\ c \in DOMAIN New[t].cols
      BY <1>5, <2>1, <2>3, SettledColumn DEF Lasting
    <3>2. CASE Same(t)
      BY <1>0, <3>1, <3>2 DEF Same, Has
    <3>3. CASE t = T /\ ~Same(t)
      <4>1. CASE proc.step \in {"addcol", "alter"}
        <5> DEFINE d == IF proc.step = "addcol" THEN AddedColumn ELSE AlteredColumn
        <5>1. ColsOf(t)' = With(ColsOf(t), d, New[t].cols[d])
          BY <3>3, <4>1, StepSees
        <5> HIDE DEF d
        <5> QED BY <1>0, <2>2, <3>1, <5>1 DEF Has, With
      <4>2. CASE proc.step = "droptable"
        <5>1. ColsOf(t)' = New[t].cols
          BY <3>3, <4>2, StepSees
        <5> QED BY <1>0, <2>2, <3>1, <5>1 DEF Has
      <4>3. CASE proc.step \notin {"addcol", "alter", "droptable"}
        BY <1>0, <2>2, <3>3, <4>3, StepSees, FirstStepIs, StepKinds DEF Same
      <4> QED BY <4>1, <4>2, <4>3
    <3> QED BY <3>2, <3>3, OthersSame
  <2> QED BY <2>1, <2>2, <2>3
<1>6. ASSUME Rebuilds(op) PROVE Here(op.t)' /\ ColsOf(op.t)' = New[op.t].cols
  <2>1. PICK t : t = op.t
    OBVIOUS
  <2>2. t \in DOMAIN New /\ Here(t) /\ Here(t)' /\ ColsOf(t) = New[t].cols
    BY <1>1, <1>6, <2>1, WorksOn DEF Lasting
  <2>3. CASE Same(t)
    BY <2>1, <2>2, <2>3 DEF Same
  <2>4. CASE t = T /\ ~Same(t)
    <3>1. CASE proc.step \in {"addcol", "alter"}
      <4> DEFINE d == IF proc.step = "addcol" THEN AddedColumn ELSE AlteredColumn
      <4>1. ColsOf(t)' = With(ColsOf(t), d, New[t].cols[d])
        BY <2>4, <3>1, StepSees
      <4>2. d \in DOMAIN New[t].cols
        BY <1>0, <2>4, <3>1, ColumnIs
      <4> HIDE DEF d
      <4>3. New[t].cols = [c \in DOMAIN New[t].cols |-> New[t].cols[c]]
        BY <2>2, PlanFacts DEF TypeInv
      <4> QED BY <2>1, <2>2, <4>1, <4>2, <4>3 DEF With
    <3>2. CASE proc.step = "droptable"
      BY <2>1, <2>2, <2>4, <3>2, StepSees
    <3>3. CASE proc.step \notin {"addcol", "alter", "droptable"}
      BY <2>2, <2>4, <3>3, StepSees
    <3> QED BY <3>1, <3>2, <3>3
  <2> QED BY <2>3, <2>4, OthersSame
<1>7. ASSUME op.kind = "create_object" PROVE op.x \in disk'.objects
  <2>1. op.x \in disk.objects
    BY <1>7 DEF Lasting
  <2>2. proc.step = "drop_object" => Doing.x # op.x
    BY <1>0, <1>7, StepKinds DEF ObjectsFollow
  <2> QED BY <2>1, <2>2, ObjectsAfter
<1>8. ASSUME op.kind = "add_foreign_key" PROVE Refers(op.t, New[op.t].fks[op.x])'
  <2>1. PICK t, fk : t = op.t /\ fk = New[op.t].fks[op.x]
    OBVIOUS
  <2>2. t \in DOMAIN New /\ fk.parent \in DOMAIN New /\ Refers(t, fk)
    BY <1>8, <2>1, WorksOn DEF Lasting
  <2>3. PICK p, c : p = fk.parent /\ c = fk.col
    OBVIOUS
  <2>4. /\ Here(t) /\ Here(p)
        /\ \A k \in DOMAIN RowsOf(t) : CellAt(t, k, c) \in DOMAIN RowsOf(p) \cup {Null}
    BY <2>2, <2>3 DEF Refers
  <2>5. Here(t)' /\ Here(p)'
    BY <1>1, <2>2, <2>3, <2>4
  <2>6. DOMAIN RowsOf(p) \subseteq DOMAIN RowsOf(p)'
    BY <2>4, <2>5, StepKeeps
  <2>7. ASSUME NEW k \in DOMAIN RowsOf(t)'
        PROVE  CellAt(t, k, c)' \in DOMAIN RowsOf(p)' \cup {Null}
    <3>1. k \in DOMAIN RowsOf(t) /\ CellAt(t, k, c)' \in {CellAt(t, k, c), Null}
      BY <2>5, <2>7, StepKeeps
    <3> QED BY <2>4, <2>6, <3>1
  <2>8. Refers(t, fk)'
    BY <2>3, <2>5, <2>7 DEF Refers
  <2> QED BY <1>0, <2>1, <2>8
<1> QED BY <1>0, <1>2, <1>3, <1>4, <1>5, <1>6, <1>7, <1>8 DEF Lasting

\* The transactions of the new release keep the references,
LEMMA RefersInsert ==
  ASSUME TypeInv, ProcInv, Schema = New, NEW x, NEW y, NEW row, InsertRow(x, y, row),
         NEW t \in DOMAIN New, NEW f \in DOMAIN New[t].fks, Refers(t, New[t].fks[f])
  PROVE  Refers(t, New[t].fks[f])'
<1> DEFINE fk == New[t].fks[f]  p == fk.parent  c == fk.col
<1>0. /\ \A z : (Here(z)' <=> Here(z)) /\ (z # x => Same(z))
      /\ RowsOf(x)' = With(RowsOf(x), y, row) /\ y \notin DOMAIN RowsOf(x)
      /\ New' = New
  BY InsertIs DEF New
<1>1. \A r \in Refs(x, row) : r[2] # Null => r[2] \in DOMAIN RowsOf(r[1])
  BY InsertGuards
<1>2. /\ Here(t) /\ Here(p)
      /\ \A k \in DOMAIN RowsOf(t) : CellAt(t, k, c) \in DOMAIN RowsOf(p) \cup {Null}
  BY DEF Refers
<1>3. DOMAIN RowsOf(p) \subseteq DOMAIN RowsOf(p)'
  BY <1>0, <1>2 DEF Same, With
<1>4. ASSUME NEW k \in DOMAIN RowsOf(t)'
      PROVE  CellAt(t, k, c)' \in DOMAIN RowsOf(p)' \cup {Null}
  <2>1. CASE t = x /\ k = y
    <3>1. CellAt(t, k, c)' = Cell(row, c)
      BY <1>0, <2>1 DEF CellAt, With
    <3>2. <<p, Cell(row, c)>> \in Refs(x, row)
      BY <2>1 DEF Refs
    <3> QED BY <1>1, <1>3, <3>1, <3>2
  <2>2. CASE ~(t = x /\ k = y)
    <3>1. k \in DOMAIN RowsOf(t) /\ RowsOf(t)'[k] = RowsOf(t)[k]
      BY <1>0, <1>2, <1>4, <2>2 DEF Same, With
    <3>2. CellAt(t, k, c)' = CellAt(t, k, c)
      BY <1>0, <3>1 DEF CellAt
    <3> QED BY <1>2, <1>3, <3>1, <3>2
  <2> QED BY <2>1, <2>2
<1> HIDE DEF p, c
<1> QED BY <1>0, <1>2, <1>4 DEF Refers, p, c

LEMMA RefersDelete ==
  ASSUME TypeInv, ProcInv, Schema = New, NEW x, NEW y, DeleteRow(x, y),
         NEW t \in DOMAIN New, NEW f \in DOMAIN New[t].fks, Refers(t, New[t].fks[f])
  PROVE  Refers(t, New[t].fks[f])'
<1> DEFINE fk == New[t].fks[f]  p == fk.parent  c == fk.col
<1>0. /\ \A z : (Here(z)' <=> Here(z)) /\ (z # x => Same(z))
      /\ RowsOf(x)' = Without(RowsOf(x), {y})
      /\ New' = New /\ ~Away
  BY DeleteIs DEF New
<1>1. p = x => \A k \in DOMAIN RowsOf(t) : CellAt(t, k, c) # y
  <2>1. ASSUME p = x PROVE \A k \in DOMAIN disk.tables[t].rows : Cell(disk.tables[t].rows[k], c) # y
    BY <2>1 DEF DeleteRow
  <2> QED BY <1>0, <2>1 DEF RowsOf, CellAt
<1>2. /\ Here(t) /\ Here(p)
      /\ \A k \in DOMAIN RowsOf(t) : CellAt(t, k, c) \in DOMAIN RowsOf(p) \cup {Null}
  BY DEF Refers
<1>3. DOMAIN RowsOf(p)' = IF p = x THEN DOMAIN RowsOf(p) \ {y} ELSE DOMAIN RowsOf(p)
  BY <1>0, <1>2 DEF Same, Without
<1>4. ASSUME NEW k \in DOMAIN RowsOf(t)'
      PROVE  CellAt(t, k, c)' \in DOMAIN RowsOf(p)' \cup {Null}
  <2>1. k \in DOMAIN RowsOf(t) /\ RowsOf(t)'[k] = RowsOf(t)[k]
    BY <1>0, <1>2, <1>4 DEF Same, Without
  <2>2. CellAt(t, k, c)' = CellAt(t, k, c)
    BY <1>0, <2>1 DEF CellAt
  <2> QED BY <1>1, <1>2, <1>3, <2>1, <2>2
<1> HIDE DEF p, c
<1> QED BY <1>0, <1>2, <1>4 DEF Refers, p, c

\* and everything else.
LEMMA LastingWrite ==
  ASSUME TypeInv, ProcInv, RebuildInv, Follows(plan), Write, records # {},
         NEW op \in OpsOf(plan), FirstStep(op, New) # "fail", Lasting(op)
  PROVE  Lasting(op)'
<1>1. PICK x, y : (\E row : InsertRow(x, y, row)) \/ DeleteRow(x, y)
  BY DEF Write
<1>2. /\ proc.phase = "serving" /\ plan' = plan /\ New' = New /\ disk'.objects = disk.objects
      /\ \A t : (Here(t)' <=> Here(t)) /\ (Here(t) => ColsOf(t)' = ColsOf(t))
      /\ x \in DOMAIN Schema
  <2>1. CASE DeleteRow(x, y)
    BY <2>1, DeleteIs DEF New
  <2>2. ASSUME NEW row, InsertRow(x, y, row)
        PROVE  /\ proc.phase = "serving" /\ plan' = plan /\ New' = New /\ disk'.objects = disk.objects
               /\ \A t : (Here(t)' <=> Here(t)) /\ (Here(t) => ColsOf(t)' = ColsOf(t))
               /\ x \in DOMAIN Schema
    BY <2>2, InsertIs DEF New
  <2> QED BY <1>1, <2>1, <2>2
<1>3. Schema = New
  BY <1>2 DEF ProcInv, Schema, New
<1>4. ASSUME op.kind = "drop_unique" PROVE \A g \in DOMAIN disk'.uq : g[1] # op.x
  <2>1. \A g \in DOMAIN disk.uq : g[1] # op.x
    BY <1>4 DEF Lasting
  <2>2. CASE DeleteRow(x, y)
    <3>1. \E S : disk'.uq = Without(disk.uq, S)
      BY <2>2, DeleteIs
    <3> QED BY <2>1, <3>1 DEF Without
  <2>3. ASSUME NEW row, InsertRow(x, y, row) PROVE \A g \in DOMAIN disk'.uq : g[1] # op.x
    <3>1. DOMAIN disk'.uq = Mine(x, row) \cup DOMAIN disk.uq
      <4>1. disk'.uq = [g \in Mine(x, row) \cup DOMAIN disk.uq |->
                          IF g \in Mine(x, row) THEN <<x, y>> ELSE disk.uq[g]]
        BY <2>3, InsertGuards
      <4> QED BY <4>1
    <3>2. \A g \in Mine(x, row) : g[1] \in DOMAIN UniquesOf(plan["new"][x])
      BY <1>3 DEF Mine, New
    <3>3. op.x \notin DOMAIN UniquesOf(plan["new"][x])
      <4>1. x \in DOMAIN plan["new"] /\ UniquesFollow(plan)
        BY <1>2, <1>3 DEF New, Follows
      <4> QED BY <1>4, <4>1 DEF UniquesFollow
    <3> QED BY <2>1, <3>1, <3>2, <3>3
  <2> QED BY <1>1, <2>2, <2>3
<1>5. ASSUME op.kind = "add_foreign_key" PROVE Refers(op.t, New[op.t].fks[op.x])'
  <2>1. /\ op.t \in DOMAIN New /\ op.x \in DOMAIN New[op.t].fks
        /\ Refers(op.t, New[op.t].fks[op.x])
    BY <1>5, WorksOn DEF Lasting
  <2>2. PICK t, f : t \in DOMAIN New /\ f \in DOMAIN New[t].fks /\ t = op.t /\ f = op.x
    BY <2>1
  <2>3. Refers(t, New[t].fks[f])'
    BY <1>1, <1>3, <2>1, <2>2, RefersInsert, RefersDelete
  <2> QED BY <1>2, <2>2, <2>3
<1>6. \A t, c : Has(t, c) => Has(t, c)'
  BY <1>2 DEF Has
<1>7. ignored' = ignored
  BY WriteIs
<1> QED BY <1>2, <1>4, <1>5, <1>6, <1>7 DEF Lasting

\* They begin when an operation has taken its steps.
LEMMA Establish ==
  ASSUME TypeInv, ProcInv, RebuildInv, Follows(plan), TableInv, NamesInv, ApplyStep,
         proc.step \in Until(Doing), StepAfter(proc.step, Doing.kind) \notin Until(Doing)
  PROVE  Lasting(Doing)'
<1> DEFINE op == Doing
<1>0. /\ plan' = plan /\ New' = New /\ Working /\ Succeeds /\ proc.step # "fail" /\ T = op.t
      /\ Target = New[T] /\ op.kind \in Kinds /\ proc.step \in StepsOf(op.kind) \ {"fail", "done"}
      /\ TablesFollow(plan) /\ ColumnsFollow(plan) /\ UniquesFollow(plan) /\ op \in OpsOf(plan)
      /\ Doing' = Doing
  BY ProcAfter, StepKinds, SchemaTarget, WorkingFacts DEF New, Succeeds, T, Follows, Doing, Working
<1>1. PICK t : t = T
  OBVIOUS
<1>2. PICK x : x = op
  OBVIOUS
<1>3. SUFFICES Lasting(x)'
  BY <1>0, <1>2
<1>4. x.t = t /\ x.kind \in Kinds
  BY <1>0, <1>1, <1>2
<1>5. CASE proc.step = "create"
  <2>1. Here(t)'
    BY <1>1, <1>5, StepSees DEF Same
  <2>2. x.kind = "create_table"
    BY <1>0, <1>2, <1>5, StepKinds
  <2> QED BY <1>4, <2>1, <2>2 DEF Lasting, Rebuilds
<1>6. CASE proc.step = "drop"
  <2>1. ~Here(t)'
    BY <1>1, <1>6, StepSees
  <2>2. x.kind = "drop_table"
    BY <1>0, <1>2, <1>6, StepKinds
  <2> QED BY <1>4, <2>1, <2>2 DEF Lasting, Rebuilds
<1>7. CASE proc.step = "dropguards"
  <2>1. x.kind = "drop_unique"
    BY <1>0, <1>2, <1>7, StepKinds
  <2>2. disk'.uq = Without(disk.uq, {g \in DOMAIN disk.uq : disk.uq[g][1] = T /\ g[1] = Doing.x})
    BY <1>7, GuardsAfter
  <2>3. ASSUME NEW g \in DOMAIN disk.uq, g[1] = x.x PROVE disk.uq[g][1] = t
    <3>1. PICK v : v = disk.uq[g][1]
      OBVIOUS
    <3>2. \/ v \in DOMAIN plan["old"] /\ g[1] \in DOMAIN UniquesOf(plan["old"][v])
          \/ v \in DOMAIN plan["new"] /\ g[1] \in DOMAIN UniquesOf(plan["new"][v])
      BY <3>1 DEF NamesInv, Old, New
    <3>3. \A s \in {"old", "new"} : \A y \in DOMAIN plan[s] :
            x.x \in DOMAIN UniquesOf(plan[s][y]) => s = "old" /\ y = x.t
      BY <1>0, <1>2, <2>1 DEF UniquesFollow
    <3> QED BY <1>4, <2>3, <3>1, <3>2, <3>3
  <2>4. \A g \in DOMAIN disk'.uq : g[1] # x.x
    BY <1>1, <1>2, <2>2, <2>3 DEF Without
  <2> QED BY <2>1, <2>4 DEF Lasting, Rebuilds
<1>8. CASE proc.step \in {"addcol", "alter"}
  <2>0. PICK c : c = IF proc.step = "addcol" THEN AddedColumn ELSE AlteredColumn
    OBVIOUS
  <2>1. /\ Here(t)' /\ T \in DOMAIN disk.tables /\ ColsOf(t)' = With(ColsOf(t), c, New[t].cols[c])
        /\ Here(t)
    BY <1>1, <1>8, <2>0, StepSees
  <2>2. /\ x.kind = IF proc.step = "addcol" THEN "add_column" ELSE "alter_column"
    BY <1>0, <1>2, <1>8, StepKinds
  <2>3. \A s \in {"old", "new"} : \A v \in DOMAIN plan[s] : \A d, e \in DOMAIN plan[s][v].cols :
          plan[s][v].cols[d].name = plan[s][v].cols[e].name => d = e
    BY <1>0 DEF ColumnsFollow
  <2>4. /\ t \in DOMAIN New => \A d, e \in Named(New[t].cols, x.x) : d = e
        /\ t \in DOMAIN Old => \A d, e \in Named(Old[t].cols, x.x) : d = e
    BY <2>3 DEF Named, Old, New
  <2>5. c \in DOMAIN New[t].cols /\ t \in DOMAIN New
    BY <1>0, <1>1, <1>8, <2>0, ColumnIs
  <2>6. ASSUME NEW d, Settles(plan, x, d) PROVE d = c
    <3>1. CASE d \in Named(New[t].cols, x.x)
      <4>1. c \in Named(New[t].cols, x.x)
        <5>1. CASE proc.step = "addcol"
          BY <1>0, <1>1, <1>2, <2>0, <5>1, ColumnIs
        <5>2. CASE proc.step = "alter"
          <6>1. AlteredColumn \in AlteredColumns
            BY <1>0, <5>2, ColumnIs
          <6> QED BY <1>0, <1>1, <1>2, <2>0, <3>1, <5>2, <6>1 DEF AlteredColumns
        <5> QED BY <1>8, <5>1, <5>2
      <4> QED BY <2>4, <2>5, <3>1, <4>1
    <3>2. CASE d \notin Named(New[t].cols, x.x)
      <4>1. /\ proc.step = "alter" /\ Named(New[t].cols, x.x) = {}
            /\ t \in DOMAIN Old /\ d \in Named(Old[t].cols, x.x)
        BY <1>4, <1>8, <2>2, <2>6, <3>2 DEF Settles, Rebuilds, New, Old
      <4>2. c \in Named(Now.cols, x.x)
        <5>1. AlteredColumn \in AlteredColumns
          BY <1>0, <4>1, ColumnIs
        <5> QED BY <1>0, <1>1, <1>2, <2>0, <4>1, <5>1 DEF AlteredColumns
      <4>3. Now.cols = ColsOf(t)
        BY <1>1, <4>1 DEF Now, ColsOf, Away
      <4>4. \/ ColsOf(t)[c] = New[t].cols[c]
            \/ c \in DOMAIN Old[t].cols /\ ColsOf(t)[c] = Old[t].cols[c]
        BY <2>1, <4>2, <4>3 DEF TableInv, TableOk, Named
      <4>5. c \in Named(Old[t].cols, x.x)
        BY <2>5, <4>1, <4>2, <4>3, <4>4 DEF Named
      <4> QED BY <2>4, <4>1, <4>5
    <3> QED BY <3>1, <3>2
  <2>7. Has(t, c)'
    BY <1>0, <2>1 DEF Has, With
  <2>8. \A d : Settles(plan, x, d) => Has(t, d)'
    BY <2>6, <2>7
  <2> QED BY <1>0, <1>4, <2>1, <2>2, <2>8 DEF Lasting, Rebuilds
<1>9. CASE proc.step = "create_object"
  <2>1. x.kind = "create_object" /\ x.x \in disk'.objects
    BY <1>0, <1>2, <1>9, StepKinds, ObjectsAfter
  <2> QED BY <2>1 DEF Lasting, Rebuilds
<1>10. CASE proc.step = "checkfk"
  <2>1. x.kind = "add_foreign_key"
    BY <1>0, <1>2, <1>10, StepKinds
  <2>2. PICK fk : fk = New[t].fks[x.x]
    OBVIOUS
  <2>3. PICK p, c : p = fk.parent /\ c = fk.col
    OBVIOUS
  <2>4. Parent = p /\ Wanted = {Cell(disk.tables[t].rows[k], c) : k \in DOMAIN disk.tables[t].rows} \ {Null}
    BY <1>0, <1>1, <1>2, <2>2, <2>3 DEF Parent, Wanted, Now
  <2>5. t \in DOMAIN disk.tables /\ p \in DOMAIN disk.tables /\ Wanted \subseteq DOMAIN disk.tables[p].rows
    BY <1>0, <1>1, <1>10, <2>4 DEF Succeeds, ChecksForeignKey
  <2>6. disk'.tables = disk.tables
    BY <1>10, TablesAfter
  <2>7. ~Away'
    BY <1>0, <1>10, ProcAfter, StepsAfter DEF Away, RebuildSteps
  <2>8. /\ Here(t)' /\ Here(p)' /\ RowsOf(t)' = disk.tables[t].rows /\ RowsOf(p)' = disk.tables[p].rows
    BY <2>5, <2>6, <2>7 DEF Here, RowsOf
  <2>9. Refers(t, fk)'
    BY <2>3, <2>4, <2>5, <2>8 DEF Refers, CellAt
  <2> QED BY <1>0, <1>4, <2>1, <2>2, <2>9 DEF Lasting, Rebuilds
<1>11. CASE proc.step = "droptable"
  <2>1. Here(t)' /\ ColsOf(t)' = New[t].cols
    BY <1>1, <1>11, StepSees
  <2>2. Rebuilds(x)
    BY <1>0, <1>2, <1>11, StepKinds DEF RebuildSteps
  <2> QED BY <1>0, <1>4, <2>1, <2>2 DEF Lasting, Rebuilds
<1>12. CASE proc.step \in {"temp", "filltemp"}
  <2>1. Rebuilds(op)
    BY <1>0, <1>12, StepKinds DEF RebuildSteps
  <2> QED BY <1>0, <1>12, <2>1, StepsAfter DEF Until
<1>13. CASE proc.step = "backfill"
  <2>1. Rebuilds(op) /\ op.kind = "add_index"
    BY <1>0, <1>13 DEF Until, StepsOf, Rebuilds, Kinds, RebuildSteps
  <2>2. StepAfter(proc.step, op.kind) = "temp"
    BY <1>13, <2>1 DEF StepAfter, Rebuild
  <2> QED BY <2>1, <2>2 DEF Until
<1> QED BY <1>5, <1>6, <1>7, <1>8, <1>9, <1>10, <1>11, <1>12, <1>13 DEF Until

LEMMA EffectNext ==
  ASSUME TypeInv, ProcInv, RebuildInv, Follows(plan), TableInv, NamesInv, DeclaredInv, EffectInv,
         [Next]_vars
  PROVE  EffectInv'
<1>0. plan' = plan /\ TablesFollow(plan) /\ ColumnsFollow(plan)
  BY HistoryNext DEF Follows
<1> SUFFICES ASSUME NEW m \in plan.migrations, NEW i \in DOMAIN m.ops, Past(m, i, Until(m.ops[i]))'
             PROVE  Lasting(m.ops[i])'
  BY <1>0 DEF EffectInv
<1> DEFINE op == m.ops[i]
<1>1. op \in OpsOf(plan) /\ op.kind \in Kinds
  BY PlanFacts DEF OpsOf, TypeInv
<1>2. PICK S, x : S = Until(op) /\ x = op
  OBVIOUS
<1>3. Past(m, i, S)'
  BY <1>2 DEF Until, Rebuilds
<1>4. ASSUME Past(m, i, S)
      PROVE  Lasting(x) /\ FirstStep(x, New) # "fail"
  <2>1. Past(m, i, {})
    BY <1>4 DEF Past, At
  <2> QED BY <1>2, <1>4, <2>1 DEF EffectInv, DeclaredInv
<1>5. SUFFICES Lasting(x)'
  BY <1>2
<1>6. CASE ~Rebuilds(x) /\ x.kind \notin {"create_table", "drop_table", "drop_unique", "add_column",
        "alter_column", "create_object", "add_foreign_key"}
  BY <1>6 DEF Lasting, Rebuilds
<1>7. CASE Rebuilds(x) \/ x.kind \in {"create_table", "drop_table", "drop_unique", "add_column",
        "alter_column", "create_object", "add_foreign_key"}
  <2>1. FirstStep(op, New) \in S \cup {"fail"} /\ S \cap {"done", "drop_object"} = {}
    BY <1>0, <1>1, <1>2, <1>7, FirstStepIs DEF Until, Rebuilds
  <2>2. CASE Still
    <3>1. CASE Past(m, i, S)
      <4>1. (\A t : Same(t)) /\ disk' = disk /\ ignored \subseteq ignored'
        BY <2>2, StillSees, HistoryNext
      <4> QED BY <1>0, <1>4, <3>1, <4>1, LastingSame
    <3>2. CASE ~Past(m, i, S)
      <4>1. DropIgnored
        BY <1>2, <1>3, <2>1, <2>2, <3>2, PastStill
      <4>2. m = proc.m /\ i = proc.i /\ proc.step = "drop"
        BY <1>3, <2>1, <3>2, <4>1, PastIgnored
      <4>3. x = Doing /\ Working /\ T \in ignored' /\ T = Doing.t
        BY <1>2, <4>1, <4>2, IgnoredIs DEF Doing, T
      <4>4. x.kind = "drop_table"
        BY <4>2, <4>3, StepKinds
      <4> QED BY <4>3, <4>4 DEF Lasting, Rebuilds
    <3> QED BY <3>1, <3>2
  <2>3. CASE Ends
    <3>1. Past(m, i, S) /\ ~Away
      BY <1>3, <2>3, PastEnds
    <3>2. (\A t : Same(t)) /\ disk'.uq = disk.uq
      BY <2>3, <3>1, EndsSees
    <3>3. disk'.objects = disk.objects /\ ignored' = ignored
      BY <2>3, AbortIs DEF Ends, Crash
    <3> QED BY <1>0, <1>4, <3>1, <3>2, <3>3, LastingSame
  <2>4. CASE Write
    <3>1. Past(m, i, S)
      BY <1>3, <2>4, PastWrite
    <3>2. records # {}
      BY <2>4, <3>1, WriteIs DEF Past
    <3> QED BY <1>1, <1>2, <1>4, <2>4, <3>1, <3>2, LastingWrite
  <2>5. CASE ApplyStep
    <3>1. CASE Past(m, i, S)
      BY <1>1, <1>2, <1>4, <2>5, <3>1, LastingStep
    <3>2. CASE ~Past(m, i, S)
      <4>1. m = proc.m /\ i = proc.i
        BY <1>3, <2>5, <3>2, PastStep
      <4>2. proc.step \in S /\ StepAfter(proc.step, Doing.kind) \notin S
        BY <1>3, <2>5, <3>2, <4>1, PastOwn, PastStep
      <4>3. op = Doing
        BY <4>1 DEF Doing
      <4>4. Lasting(Doing)'
        BY <1>2, <2>5, <4>2, <4>3, Establish
      <4>5. Doing' = Doing
        BY <1>0, <2>5, ProcAfter DEF Doing
      <4> QED BY <1>2, <4>3, <4>4, <4>5
    <3> QED BY <3>1, <3>2
  <2> QED BY <2>2, <2>3, <2>4, <2>5, NextIs
<1> QED BY <1>6, <1>7

-----------------------------------------------------------------------------
(* The inductive invariant. *)

MigrateInv ==
  /\ TypeInv /\ ProcInv /\ RebuildInv
  /\ PresenceInv /\ TableInv
  /\ NamesInv /\ OwnersInv /\ CompleteInv
  /\ OrderInv /\ DeclaredInv /\ CleanInv /\ EffectInv /\ UniqueInv

LEMMA MigrateInit ==
  ASSUME Init
  PROVE  MigrateInv
<1>1. TypeInv /\ ProcInv /\ RebuildInv
  BY InitHolds
<1>2. /\ disk.uq = <<>> /\ disk.rg = {} /\ records = {} /\ tried = "no" /\ proc = Down
      /\ disk.tables = [t \in DOMAIN plan.old |-> Physical(plan.old[t])]
  BY DEF Init
<1>3. \A m, i, S : ~Past(m, i, S)
  BY <1>2 DEF Past, Down
<1>4. ~Away /\ DOMAIN disk.uq = {}
  BY <1>2 DEF Away, Down
<1>5. \A t : (Here(t) <=> t \in DOMAIN Old)
             /\ (Here(t) => DOMAIN RowsOf(t) = {} /\ ColsOf(t) = Old[t].cols)
  BY <1>2, <1>4 DEF Here, RowsOf, ColsOf, Physical, Old
<1>6. PresenceInv
  BY <1>2, <1>4, <1>5 DEF PresenceInv, Guarded
<1>7. TableInv
  BY <1>5 DEF TableInv, TableOk
<1>8. NamesInv /\ OwnersInv /\ CompleteInv
  BY <1>4, <1>5 DEF NamesInv, OwnersInv, CompleteInv, Complete, HasKey
<1>9. OrderInv /\ DeclaredInv /\ CleanInv /\ EffectInv /\ UniqueInv
  BY <1>2, <1>3 DEF OrderInv, DeclaredInv, CleanInv, EffectInv, UniqueInv, Down
<1> QED BY <1>1, <1>6, <1>7, <1>8, <1>9 DEF MigrateInv

LEMMA MigrateNext ==
  ASSUME MigrateInv, Follows(plan), [Next]_vars
  PROVE  MigrateInv' /\ plan' = plan
<1>1. /\ TypeInv /\ ProcInv /\ RebuildInv /\ PresenceInv /\ TableInv /\ NamesInv /\ OwnersInv
      /\ CompleteInv /\ OrderInv /\ DeclaredInv /\ CleanInv /\ EffectInv /\ UniqueInv
  BY DEF MigrateInv
<1>2. TablesFollow(plan) /\ ColumnsFollow(plan) /\ UniquesFollow(plan) /\ VersionsDiffer(plan)
  BY DEF Follows
<1>3. TypeInv' /\ ProcInv' /\ RebuildInv' /\ plan' = plan
  BY <1>1, TypeNext, ProcNext, RebuildNext, HistoryNext
<1>4. PresenceInv' /\ TableInv' /\ NamesInv' /\ OwnersInv'
  BY <1>1, <1>2, PresenceNext, TableNext, NamesNext, OwnersNext
<1>5. CompleteInv' /\ OrderInv' /\ DeclaredInv' /\ CleanInv' /\ EffectInv' /\ UniqueInv'
  BY <1>1, <1>2, CompleteNext, OrderNext, DeclaredNext, CleanNext, EffectNext, UniqueNext
<1> QED BY <1>3, <1>4, <1>5 DEF MigrateInv

\* The strengthening of the properties below holds of every plan that leads
\* from the old schema to the new one: what the operations that are past
\* promised still holds (of a drop whose error was ignored, that it was), each key of a constraint that both releases have, or
\* that was backfilled, has the guard of its row, and a table that guards name
\* is there until an operation finds out that it is not.
THEOREM MigrateInductive ==
  ASSUME \A p \in Plans : Follows(p)
  PROVE  Spec => [](MigrateInv /\ Follows(plan))
<1>1. Init => MigrateInv /\ Follows(plan)
  BY MigrateInit DEF Init
<1>2. ASSUME MigrateInv /\ Follows(plan), [Next]_vars
      PROVE  (MigrateInv /\ Follows(plan))'
  BY <1>2, MigrateNext
<1> QED BY <1>1, <1>2, PTL DEF Spec

-----------------------------------------------------------------------------
(* What holds once everything is recorded. *)

LEMMA AllApplied ==
  ASSUME MigrateInv, Follows(plan), records = Versions
  PROVE  /\ ~Away
         /\ \A m \in plan.migrations : \A i \in DOMAIN m.ops :
              Lasting(m.ops[i]) /\ FirstStep(m.ops[i], New) # "fail"
         /\ \A t : ~Gone(t)
         /\ \A t \in DOMAIN New : t \in DOMAIN disk.tables
<1>1. ASSUME NEW m \in plan.migrations, NEW i \in DOMAIN m.ops
      PROVE  records # {} /\ \A S : Past(m, i, S)
  BY <1>1 DEF Past, Versions
<1>2. ~Away
  <2>1. Away => plan.migrations # {} /\ records = {}
    BY DEF Away, MigrateInv, ProcInv, Attempt
  <2> QED BY <2>1 DEF Versions
<1>3. \A m \in plan.migrations : \A i \in DOMAIN m.ops :
        Lasting(m.ops[i]) /\ FirstStep(m.ops[i], New) # "fail"
  BY <1>1 DEF MigrateInv, EffectInv, DeclaredInv
<1>4. \A t : ~Gone(t)
  BY <1>1 DEF Gone
<1>5. ASSUME NEW t \in DOMAIN New PROVE t \in DOMAIN disk.tables
  <2>1. CASE t \in DOMAIN Old
    BY <1>2, <1>4, <2>1 DEF MigrateInv, PresenceInv, Here
  <2>2. CASE t \notin DOMAIN Old
    <3>1. PICK op \in OpsOf(plan) : op.kind = "create_table" /\ op.t = t
      BY <2>2 DEF Follows, TablesFollow, New, Old
    <3>2. PICK m, i : m \in plan.migrations /\ i \in DOMAIN m.ops /\ m.ops[i] = op
      BY <3>1 DEF OpsOf
    <3>3. Lasting(op)
      BY <1>3, <3>2
    <3> QED BY <1>2, <3>1, <3>3 DEF Lasting, Here
  <2> QED BY <2>1, <2>2
<1> QED BY <1>2, <1>3, <1>4, <1>5

\* The columns of a table that an operation changed are the new ones.
LEMMA ColumnsDone ==
  ASSUME MigrateInv, Follows(plan), records = Versions,
         NEW op \in OpsOf(plan), op.kind \in {"add_column", "alter_column"}
  PROVE  disk.tables[op.t].cols = New[op.t].cols
<1> DEFINE t == op.t  cols == disk.tables[t].cols  new == New[t].cols  old == Old[t].cols
<1>1. t \in DOMAIN New /\ t \in DOMAIN disk.tables /\ cols = ColsOf(t) /\ TableOk(t) /\ Here(t)
  <2>1. t \in DOMAIN New
    BY DEF Follows, ColumnsFollow, New
  <2>2. t \in DOMAIN disk.tables /\ ~Away
    BY <2>1, AllApplied
  <2> QED BY <2>1, <2>2 DEF ColsOf, Here, MigrateInv, TableInv
<1>2. cols = [c \in DOMAIN cols |-> cols[c]] /\ new = [c \in DOMAIN new |-> new[c]]
  BY <1>1, PlanFacts DEF MigrateInv, TypeInv, IsTable
<1>3. CASE t \notin DOMAIN Old
  BY <1>1, <1>3 DEF TableOk
<1>4. ASSUME NEW x \in OpsOf(plan), x.t = t, Rebuilds(x)
      PROVE  cols = new
  <2>1. PICK m, i : m \in plan.migrations /\ i \in DOMAIN m.ops /\ m.ops[i] = x
    BY DEF OpsOf
  <2>2. Lasting(x)
    BY <2>1, AllApplied
  <2> QED BY <1>1, <1>4, <2>2 DEF Lasting
<1>5. ASSUME NEW x \in OpsOf(plan), x.t = t, ~Rebuilds(x), NEW c, Settles(plan, x, c)
      PROVE  c \in DOMAIN cols /\ c \in DOMAIN new /\ cols[c] = new[c]
  <2>1. PICK m, i : m \in plan.migrations /\ i \in DOMAIN m.ops /\ m.ops[i] = x
    BY DEF OpsOf
  <2>2. Lasting(x)
    BY <2>1, AllApplied
  <2>3. x.kind \in {"add_column", "alter_column"}
    BY <1>5 DEF Settles
  <2>4. Has(t, c)
    BY <1>5, <2>2, <2>3 DEF Lasting
  <2>5. c \in DOMAIN new
    BY <1>5, <2>3, SettledColumn
  <2> QED BY <1>1, <2>4, <2>5 DEF Has
<1>6. CASE t \in DOMAIN Old /\ \A x \in OpsOf(plan) : x.t = t => ~Rebuilds(x)
  <2>1. ASSUME NEW c \in DOMAIN old \cup DOMAIN new
        PROVE  \/ c \in DOMAIN old /\ c \in DOMAIN new /\ old[c] = new[c]
               \/ c \in DOMAIN cols /\ c \in DOMAIN new /\ cols[c] = new[c]
    <3>1. \/ c \in DOMAIN old /\ c \in DOMAIN new /\ old[c] = new[c]
          \/ \E x \in OpsOf(plan) : x.t = t /\ Settles(plan, x, c)
      BY <1>6, <2>1 DEF Follows, ColumnsFollow, New, Old
    <3> QED BY <1>5, <1>6, <3>1
  <2>2. /\ \A c \in DOMAIN cols : \/ c \in DOMAIN new /\ cols[c] = new[c]
                                  \/ c \in DOMAIN old /\ cols[c] = old[c]
        /\ DOMAIN old \cap DOMAIN new \subseteq DOMAIN cols
    BY <1>1, <1>6 DEF TableOk
  <2> HIDE DEF cols, new, old
  <2>3. DOMAIN cols = DOMAIN new /\ \A c \in DOMAIN new : cols[c] = new[c]
    BY <2>1, <2>2
  <2>4. cols = new
    BY <1>2, <2>3
  <2> QED BY <2>4 DEF cols, new
<1> QED BY <1>3, <1>4, <1>6

LEMMA AppliedThen ==
  ASSUME MigrateInv, Follows(plan), records = Versions, tried # "mixed",
         NEW m \in plan.migrations, NEW i \in DOMAIN m.ops
  PROVE  Applied(m.ops[i])
<1> DEFINE op == m.ops[i]  t == op.t
<1>1. ~Away /\ Lasting(op) /\ FirstStep(op, New) # "fail" /\ op \in OpsOf(plan)
  BY AllApplied DEF OpsOf
<1>2. \A v : (Here(v) <=> v \in DOMAIN disk.tables) /\ RowsOf(v) = disk.tables[v].rows
             /\ ColsOf(v) = disk.tables[v].cols
  BY <1>1 DEF Here, RowsOf, ColsOf
<1>3. TablesFollow(plan) /\ ColumnsFollow(plan)
  BY DEF Follows
<1> HIDE DEF op
<1>4. op.kind = "create_table" => t \in DOMAIN disk.tables
  BY <1>1, <1>2 DEF Lasting
<1>5. op.kind = "drop_table" => (t \notin DOMAIN disk.tables \/ t \in ignored) /\ Unguarded(t)
  <2>1. op.kind = "drop_table" => ~Guarded(t)
    <3>1. Past(m, i, {"drop", "clean"})
      BY DEF Past, Versions
    <3> QED BY <3>1 DEF MigrateInv, CleanInv, op
  <2> QED BY <1>1, <1>2, <2>1 DEF Lasting, Guarded, Unguarded
<1>6. op.kind = "drop_unique" => \A g \in DOMAIN disk.uq : g[1] # op.x
  BY <1>1 DEF Lasting
<1>7. ASSUME op.kind = "drop_column" PROVE \A c \in DOMAIN Table(t).cols : Table(t).cols[c].name # op.x
  <2>1. Table(t).cols = New[t].cols
    BY <1>1, <1>2, <1>7 DEF Lasting, Rebuilds, Table
  <2>2. ~\E c \in DOMAIN New[t].cols : New[t].cols[c].name = op.x
    BY <1>1, <1>7 DEF FirstStep
  <2> QED BY <2>1, <2>2
<1>8. op.kind \in {"add_column", "alter_column"} => Table(t).cols = plan.new[t].cols
  BY <1>1, ColumnsDone DEF Table, New
<1>9. op.kind = "create_object" => op.x \in disk.objects
  BY <1>1 DEF Lasting
<1>10. ASSUME op.kind = "add_foreign_key" PROVE Orphans(t, plan.new[t].fks[op.x]) = {}
  <2>1. Refers(t, plan.new[t].fks[op.x])
    BY <1>1, <1>10 DEF Lasting, New
  <2> QED BY <1>2, <2>1 DEF Refers, Orphans, Table, CellAt
<1>11. ASSUME AddsUnique(op) PROVE ~Duplicates(t, op.x)
  <2>1. FirstStep(op, New) = "backfill"
    BY <1>1, <1>3, <1>11, FirstStepIs
  <2>2. t \in DOMAIN New /\ op.x \in DOMAIN UniquesOf(New[t])
    <3>1. op.kind \in {"add_unique", "add_index"}
      BY <1>11 DEF AddsUnique
    <3> QED BY <2>1, <3>1 DEF FirstStep
  <2>3. t \in DOMAIN disk.tables
    BY <2>2, AllApplied
  <2>4. Past(m, i, {"backfill"})
    BY DEF Past, Versions
  <2>5. Complete(t, op.x) /\ OwnersInv
    BY <1>11, <2>4 DEF MigrateInv, UniqueInv, op
  <2>6. SUFFICES ASSUME NEW p \in KeysIn(disk, t, op.x, UniquesOf(plan.new[t])[op.x]),
                        NEW q \in KeysIn(disk, t, op.x, UniquesOf(plan.new[t])[op.x]),
                        p[1] = q[1]
                 PROVE  p[2] = q[2]
    BY DEF Duplicates
  <2>7. ASSUME NEW r \in KeysIn(disk, t, op.x, UniquesOf(plan.new[t])[op.x])
        PROVE  HasKey(t, r[2], op.x) /\ r[1] = Key(t, r[2], op.x)
    BY <1>2, <2>2, <2>3 DEF KeysIn, HasKey, Key, CellAt, New
  <2>8. \A k : HasKey(t, k, op.x) => disk.uq[Key(t, k, op.x)] = <<t, k>>
    BY <2>5 DEF Complete, OwnersInv
  <2>9. disk.uq[p[1]] = <<t, p[2]>> /\ disk.uq[q[1]] = <<t, q[2]>>
    BY <2>7, <2>8
  <2> QED BY <2>6, <2>9
<1> QED BY <1>4, <1>5, <1>6, <1>7, <1>8, <1>9, <1>10, <1>11 DEF Applied, op

\* A version on record was applied: everything its migration promises holds,
\* wherever the process crashed, whatever the engine refused and however often
\* it began again.  Of a dropped table that is that it has no guards and,
\* unless the engine refused to drop it, is gone: the runner ignores that
\* error and records the version.  The old release has not served after an attempt that was cut short.
THEOREM RecordsAreApplied ==
  ASSUME \A p \in Plans : Follows(p)
  PROVE  Spec => []RecordedMeansApplied
<1>1. ASSUME MigrateInv, Follows(plan)
      PROVE  RecordedMeansApplied
  <2> SUFFICES ASSUME tried # "mixed", NEW m \in plan.migrations, m.version \in records,
                      NEW i \in DOMAIN m.ops
               PROVE  Applied(m.ops[i])
    BY DEF RecordedMeansApplied
  <2>1. records = Versions
    BY <1>1 DEF MigrateInv, ProcInv
  <2> QED BY <1>1, <2>1, AppliedThen
<1>2. Spec => [](MigrateInv /\ Follows(plan))
  BY MigrateInductive
<1> QED BY <1>1, <1>2, PTL

\* While the new release serves, each key of a row is guarded and no guard
\* names a table that is gone.
THEOREM GuardsAreFollowing ==
  ASSUME \A p \in Plans : Follows(p)
  PROVE  Spec => []GuardsFollowTables
<1>1. ASSUME MigrateInv, Follows(plan)
      PROVE  GuardsFollowTables
  <2> SUFFICES ASSUME Idle, proc.code = "new", tried # "mixed"
               PROVE  /\ \A t \in DOMAIN Schema : \A u \in DOMAIN UniquesOf(Schema[t]) :
                           \A p \in KeysIn(disk, t, u, UniquesOf(Schema[t])[u]) : p[1] \in DOMAIN disk.uq
                      /\ \A g \in DOMAIN disk.uq : disk.uq[g][1] \in DOMAIN disk.tables
                      /\ \A r \in disk.rg : r[1] \in DOMAIN disk.tables
    BY DEF GuardsFollowTables
  <2>1. Schema = New /\ records = Versions /\ proc.phase = "serving"
    BY <1>1 DEF Idle, MigrateInv, ProcInv, Schema, New
  <2>2. ~Away /\ (\A t : ~Gone(t)) /\ \A t \in DOMAIN New : t \in DOMAIN disk.tables
    BY <1>1, <2>1, AllApplied
  <2>3. \A t : Guarded(t) => t \in DOMAIN disk.tables
    BY <1>1, <2>2 DEF MigrateInv, PresenceInv, Here
  <2>4. ASSUME NEW t \in DOMAIN New, NEW u \in DOMAIN UniquesOf(New[t]),
               NEW p \in KeysIn(disk, t, u, UniquesOf(New[t])[u])
        PROVE  p[1] \in DOMAIN disk.uq
    <3>1. Complete(t, u)
      <4>1. t \in DOMAIN Schema /\ u \in DOMAIN UniquesOf(Schema[t])
        BY <2>1
      <4> QED BY <1>1, <2>1, <4>1, Served DEF MigrateInv, Follows
    <3>2. HasKey(t, p[2], u) /\ p[1] = Key(t, p[2], u)
      BY <2>2 DEF KeysIn, HasKey, Key, CellAt, Here, RowsOf
    <3> QED BY <3>1, <3>2 DEF Complete
  <2> QED BY <2>1, <2>3, <2>4 DEF Guarded
<1>2. Spec => [](MigrateInv /\ Follows(plan))
  BY MigrateInductive
<1> QED BY <1>1, <1>2, PTL

\* The tables that an operation works on are there when it runs.
LEMMA NeededHere ==
  ASSUME MigrateInv, Follows(plan), Applicable(plan), Working, Rerunnable, ~Away,
         NEW t \in Needs(plan, Doing)
  PROVE  t \in DOMAIN disk.tables
<1>1. /\ proc.m \in plan.migrations /\ proc.i \in DOMAIN proc.m.ops /\ Doing \in OpsOf(plan)
      /\ proc.phase = "applying" /\ proc.m \notin proc.todo
      /\ proc.todo \subseteq plan.migrations
  BY WorkingFacts, StepKinds DEF MigrateInv, Working, Attempt
<1>2. PICK m, i : m \in plan.migrations /\ i \in DOMAIN m.ops /\ m = proc.m /\ i = proc.i
  BY <1>1
<1>3. m.ops[i] = Doing
  BY <1>2 DEF Doing
<1>4. \/ t \in DOMAIN plan.old \cap DOMAIN plan.new
      \/ \E n \in plan.migrations : \E j \in DOMAIN n.ops :
           /\ n.ops[j].kind = "create_table" /\ n.ops[j].t = t
           /\ n.version < m.version \/ (n = m /\ j < i)
  BY <1>2, <1>3 DEF Applicable
<1>5. CASE t \in DOMAIN plan.old \cap DOMAIN plan.new
  <2>1. Here(t) \/ Gone(t)
    BY <1>5 DEF MigrateInv, PresenceInv, Old, New
  <2>2. ASSUME Gone(t) PROVE FALSE
    <3>1. PICK op \in OpsOf(plan) : op.t = t /\ (op.kind = "drop_table" \/ Rebuilds(op))
      BY <2>2 DEF Gone, OpsOf
    <3>2. ~Rebuilds(op)
      BY DEF Rerunnable, Ops, Rebuilds
    <3> QED BY <1>5, <3>1, <3>2 DEF Follows, TablesFollow
  <2> QED BY <2>1, <2>2 DEF Here
<1>6. ASSUME NEW n \in plan.migrations, NEW j \in DOMAIN n.ops,
             n.ops[j].kind = "create_table", n.ops[j].t = t,
             n.version < m.version \/ (n = m /\ j < i)
      PROVE  t \in DOMAIN disk.tables
  <2>1. n.version \in Nat /\ m.version \in Nat /\ j \in Nat /\ i \in Nat
    BY <1>2, PlanFacts DEF MigrateInv, TypeInv
  <2>2. \A x \in proc.todo : m.version < x.version /\ x.version \in Nat
    BY <1>1, <1>2, PlanFacts DEF MigrateInv, TypeInv, OrderInv
  <2>3. ~Coming(n, j)
    BY <1>1, <1>2, <1>6, <2>1, <2>2 DEF Coming
  <2>4. n # m \/ j # i
    BY <1>6, <2>1
  <2>5. \A S : ~At(n, j, S)
    BY <1>2, <2>4 DEF At
  <2>6. \A S : Past(n, j, S)
    BY <1>1, <2>3, <2>5 DEF Past
  <2>7. Lasting(n.ops[j])
    BY <2>6 DEF MigrateInv, EffectInv
  <2> QED BY <1>6, <2>7 DEF Lasting, Here
<1> QED BY <1>4, <1>5, <1>6

\* What rows violate an operation for.
BadRows(op) ==
  \/ AddsUnique(op) /\ Duplicates(op.t, op.x)
  \/ op.kind = "add_foreign_key" /\ Orphans(op.t, plan.new[op.t].fks[op.x]) # {}
  \/ op.kind = "alter_column" /\ \E k \in DOMAIN Table(op.t).rows :
       ~Storable(plan.new[op.t].cols, Table(op.t).rows[k])

LEMMA BadRowsStay ==
  ASSUME plan' = plan, disk'.tables = disk.tables, NEW op, BadRows(op)
  PROVE  BadRows(op)'
<1>1. \A t, u, c : KeysIn(disk, t, u, c)' = KeysIn(disk, t, u, c)
  BY DEF KeysIn
<1>2. CASE AddsUnique(op) /\ Duplicates(op.t, op.x)
  <2>1. AddsUnique(op)' /\ Duplicates(op.t, op.x)'
    BY <1>1, <1>2 DEF AddsUnique, Duplicates
  <2> QED BY <2>1 DEF BadRows
<1>3. CASE op.kind = "add_foreign_key" /\ Orphans(op.t, plan.new[op.t].fks[op.x]) # {}
  <2>1. Orphans(op.t, plan.new[op.t].fks[op.x])' = Orphans(op.t, plan.new[op.t].fks[op.x])
    BY DEF Orphans, Table
  <2> QED BY <1>3, <2>1 DEF BadRows
<1>4. CASE op.kind = "alter_column" /\ \E k \in DOMAIN Table(op.t).rows :
             ~Storable(plan.new[op.t].cols, Table(op.t).rows[k])
  BY <1>4 DEF BadRows, Table
<1> QED BY <1>2, <1>3, <1>4 DEF BadRows

LEMMA FailsForRows ==
  ASSUME MigrateInv, Follows(plan), Applicable(plan), Working, ~Succeeds, Rerunnable
  PROVE  BadRows(Doing)
<1> DEFINE op == Doing
<1>0. /\ TypeInv /\ ProcInv /\ RebuildInv
      /\ proc.m \in plan.migrations /\ proc.i \in DOMAIN proc.m.ops /\ op \in OpsOf(plan) /\ op.t = T
      /\ op.kind \in Kinds /\ proc.step \in StepsOf(op.kind) /\ Target = New[T]
      /\ FirstStep(op, New) = "fail" <=> proc.step = "fail"
      /\ proc.phase = "applying"
  BY WorkingFacts, StepKinds, SchemaTarget DEF MigrateInv, T, Working
<1>1. op.kind \notin {"add_column", "create_object", "drop_column", "add_index", "drop_index"}
  BY <1>0 DEF Rerunnable, Ops
<1>2. op.kind \in {"add_unique", "add_foreign_key", "alter_column"} => FirstStep(op, New) # "fail"
  <2>1. PICK m, i : m \in plan.migrations /\ i \in DOMAIN m.ops /\ m = proc.m /\ i = proc.i
    BY <1>0
  <2> QED BY <2>1 DEF Applicable, Doing, New
<1>3. proc.step # "fail"
  BY <1>0, <1>1, <1>2 DEF StepsOf, Kinds
<1>4. \/ proc.step = "alter" /\ op.kind = "alter_column" /\ ~AltersColumn
      \/ proc.step = "backfill" /\ op.kind = "add_unique" /\ ~Backfills
      \/ proc.step = "checkfk" /\ op.kind = "add_foreign_key" /\ ~ChecksForeignKey
  BY <1>0, <1>1, <1>3 DEF Succeeds, StepsOf, Kinds
<1>5. ~Away
  BY <1>4 DEF Away
<1>6. T \in DOMAIN New
  BY <1>0, <1>3, <1>4, Declared
<1>7. \A t \in Needs(plan, op) : t \in DOMAIN disk.tables
  BY <1>5, NeededHere
<1>8. T \in DOMAIN disk.tables /\ Now = disk.tables[T]
  BY <1>0, <1>4, <1>7 DEF Needs, Now
<1>9. CASE proc.step = "backfill" /\ op.kind = "add_unique" /\ ~Backfills
  <2>1. PICK p \in Found, q \in Found : p[1] = q[1] /\ p[2] # q[2]
    BY <1>8, <1>9 DEF Backfills
  <2>2. Found = KeysIn(disk, op.t, op.x, UniquesOf(plan.new[op.t])[op.x])
    BY <1>0 DEF Found, New
  <2> QED BY <1>9, <2>1, <2>2 DEF BadRows, AddsUnique, Duplicates
<1>10. CASE proc.step = "checkfk" /\ op.kind = "add_foreign_key" /\ ~ChecksForeignKey
  <2>1. Parent = New[T].fks[op.x].parent
    BY <1>0 DEF Parent
  <2>2. Parent \in DOMAIN disk.tables
    BY <1>0, <1>7, <1>10, <2>1 DEF Needs, New
  <2>3. PICK v \in Wanted : v \notin DOMAIN disk.tables[Parent].rows
    BY <1>8, <1>10, <2>2 DEF ChecksForeignKey
  <2>4. PICK k \in DOMAIN Now.rows : v = Cell(Now.rows[k], New[T].fks[op.x].col) /\ v # Null
    BY <1>0, <2>3 DEF Wanted
  <2>5. k \in Orphans(op.t, plan.new[op.t].fks[op.x])
    BY <1>0, <1>8, <2>1, <2>3, <2>4 DEF Orphans, Table, New
  <2> QED BY <1>10, <2>5 DEF BadRows
<1>11. CASE proc.step = "alter" /\ op.kind = "alter_column" /\ ~AltersColumn
  <2>0. TableOk(T) /\ ColsOf(T) = Now.cols /\ RowsOf(T) = Now.rows
    BY <1>5, <1>8 DEF MigrateInv, TableInv, Here, ColsOf, RowsOf
  <2>1. Named(New[T].cols, op.x) # {}
    BY <1>0, <1>11 DEF Rerunnable, Ops, Named, New
  <2>2. AlteredColumns = Named(New[T].cols, op.x)
    BY <1>0, <2>1 DEF AlteredColumns
  <2>3. PICK c : c = AlteredColumn /\ c \in Named(New[T].cols, op.x) /\ c \in DOMAIN New[T].cols
    BY <2>1, <2>2 DEF AlteredColumn, Named
  <2>4. c \in DOMAIN Now.cols
    <3>1. CASE T \notin DOMAIN Old
      BY <2>0, <2>3, <3>1 DEF TableOk
    <3>2. CASE T \in DOMAIN Old
      <4>1. PICK m, i : m \in plan.migrations /\ i \in DOMAIN m.ops /\ m = proc.m /\ i = proc.i
        BY <1>0
      <4>2. Named(New[T].cols, op.x) \subseteq DOMAIN Old[T].cols
        BY <1>0, <1>11, <3>2, <4>1 DEF Applicable, Doing, New, Old
      <4> QED BY <1>6, <2>0, <2>3, <3>2, <4>2 DEF TableOk
    <3> QED BY <3>1, <3>2
  <2>5. ~ColumnFits(AlteredColumn)
    BY <1>8, <1>11, <2>2, <2>3, <2>4 DEF AltersColumn
  <2>6. PICK k \in DOMAIN Now.rows : ~Storable(WithColumn(AlteredColumn), Now.rows[k])
    BY <2>5 DEF ColumnFits
  <2>7. WithColumn(AlteredColumn) = With(Now.cols, c, New[T].cols[c])
    BY <1>0, <2>3 DEF WithColumn
  <2>8. Storable(Now.cols, Now.rows[k])
    BY <2>0 DEF TableOk
  <2>9. New[T].cols[c].required /\ Cell(Now.rows[k], c) = Null
    BY <2>6, <2>7, <2>8 DEF Storable, With
  <2>10. ~Storable(New[T].cols, Now.rows[k])
    BY <2>3, <2>9 DEF Storable
  <2> QED BY <1>0, <1>8, <1>11, <2>10 DEF BadRows, Table, New
<1> QED BY <1>4, <1>9, <1>10, <1>11

\* A migration that only uses operations that may run again fails, however
\* often it was cut short before, only because the rows violate what it adds.
\* The operations are applicable: they name what the new schema declares, and
\* work on tables that are there.
THEOREM FailuresAreTheRows ==
  ASSUME \A p \in Plans : Follows(p) /\ Applicable(p)
  PROVE  Spec => []OnlyBadRowsFail
<1> DEFINE Inv == MigrateInv /\ Follows(plan) /\ Applicable(plan) /\ OnlyBadRowsFail
<1>1. Init => Inv
  BY MigrateInit DEF Init, OnlyBadRowsFail, Down
<1>2. ASSUME Inv, [Next]_vars
      PROVE  Inv'
  <2>1. MigrateInv' /\ plan' = plan
    BY <1>2, MigrateNext
  <2>2. TypeInv /\ ProcInv /\ RebuildInv
    BY <1>2 DEF MigrateInv
  <2>3. CASE StepFails
    <3>1. Working /\ ~Succeeds /\ disk'.tables = disk.tables
      BY <2>2, <2>3, AbortIs DEF StepFails
    <3>2. Rerunnable' <=> Rerunnable
      BY <2>1 DEF Rerunnable, Ops
    <3>3. ASSUME Rerunnable PROVE \E op \in OpsOf(plan) : BadRows(op)
      BY <1>2, <2>2, <3>1, <3>3, FailsForRows, StepKinds
    <3>4. ASSUME NEW op, BadRows(op) PROVE BadRows(op)'
      BY <2>1, <3>1, <3>4, BadRowsStay
    <3>5. Rerunnable' => \E op \in OpsOf(plan) : BadRows(op)'
      BY <3>2, <3>3, <3>4
    <3> QED BY <1>2, <2>1, <3>5 DEF OnlyBadRowsFail, BadRows, Ops
  <2>4. CASE UNCHANGED vars
    <3>1. proc' = proc /\ disk' = disk
      BY <2>4 DEF vars
    <3>2. Rerunnable' <=> Rerunnable
      BY <2>1 DEF Rerunnable, Ops
    <3>3. (\E op \in OpsOf(plan) : BadRows(op)) => \E op \in OpsOf(plan) : BadRows(op)'
      BY <2>1, <3>1, BadRowsStay
    <3> QED BY <1>2, <2>1, <3>1, <3>2, <3>3 DEF OnlyBadRowsFail, BadRows, Ops
  <2>5. ASSUME proc'.phase # "failed" PROVE OnlyBadRowsFail'
    BY <2>5 DEF OnlyBadRowsFail
  <2>6. CASE ApplyStep \/ Write \/ StepRefused \/ Crash
    <3>1. proc'.phase # "failed"
      <4>1. CASE StepRefused
        BY <4>1 DEF StepRefused, Abort, Down
      <4>2. CASE ApplyStep
        BY <2>2, <4>2, ProcAfter
      <4>3. CASE Write
        BY <2>2, <4>3, WriteIs
      <4>4. CASE Crash
        BY <4>4 DEF Crash, Down
      <4> QED BY <2>6, <4>1, <4>2, <4>3, <4>4
    <3> QED BY <1>2, <2>1, <2>5, <3>1
  <2>7. CASE Quiet
    <3>1. proc'.phase # "failed"
      <4>1. ASSUME NEW code, Open(code) PROVE proc'.phase # "failed"
        BY <4>1 DEF Open, Down
      <4>2. CASE Migrate \/ NextMigration \/ NextOperation
        BY <2>2, <4>2 DEF Migrate, NextMigration, NextOperation, TypeInv, ProcType
      <4>3. CASE Record \/ Persist
        BY <2>2, <4>3 DEF Record, Persist, TypeInv, ProcType
      <4>4. CASE Close \/ Crash
        BY <4>4 DEF Close, Crash, Down
      <4>5. CASE DropIgnored
        BY <2>2, <4>5, IgnoredIs
      <4> QED BY <2>7, <4>1, <4>2, <4>3, <4>4, <4>5 DEF Quiet
    <3> QED BY <1>2, <2>1, <2>5, <3>1
  <2> QED BY <1>2, <2>3, <2>4, <2>6, <2>7 DEF Next, Quiet
<1> QED BY <1>1, <1>2, PTL DEF Spec
=============================================================================
