------------------------------- MODULE KitGuards -------------------------------
(***************************************************************************)
(* Why the guards work: inductive invariants of module KitTxn that imply    *)
(* NoDuplicateKeys, GuardsMatchRows and NoDanglingReference.  They hold of  *)
(* transactions that write each row at most once and do not upsert;         *)
(* README.md tells of the traces that show what happens otherwise.          *)
(*                                                                         *)
(* TLC checks the invariants; KitGuardsProofs proves them.                  *)
(***************************************************************************)
EXTENDS KitTxn

\* Two unique constraints of one table have different names.
DistinctNames ==
  \A u, w \in Uniques : u.table = w.table /\ u.name = w.name => u = w

WritesOnce == Revisit = FALSE /\ "upsert" \notin Ops

-----------------------------------------------------------------------------
(* Unique keys: every key of a row is guarded.                              *)

UniqueKeys == {GuardOf(u, v) : u \in Uniques, v \in Ids}

\* The row r at x owns, in the tables s, the guard of each of its keys.
OwnsItsKeys(s, x, r) ==
  \A u \in UniquesOf(x[1]) : r[u.col] # Null => s[GuardOf(u, r[u.col])] = x

CompleteIn(s) ==
  \A x \in RowIds : s[RowKey(x)] # NoRow => OwnsItsKeys(s, x, s[RowKey(x)])

Written(L, x) == L.staged[RowKey(x)] # Untouched

\* The snapshot has complete guards, and still agrees with the store on every
\* key that no other transaction has committed since.
SnapshotCurrent(L) ==
  /\ CompleteIn(L.snap)
  /\ \A k \in Keys \ L.dirty : L.snap[k] = store[k]

\* What is written in the engine is shown by the replay.
WritesShown(L) == \A x \in RowIds : Written(L, x) => L.view[x] # Untouched

\* A guard is taken from its owner only when the owner is written.
GuardsLost(L) ==
  \A k \in UniqueKeys, x \in RowIds :
    L.snap[k] = x /\ L.staged[k] \notin {Untouched, x} => Written(L, x)

\* A key of a written row is guarded by what the transaction staged, or it is
\* a key the row already had and the guard was left alone.
GuardsStaged(L) ==
  \A x \in RowIds : L.staged[RowKey(x)] \notin {Untouched, NoRow} =>
    \A u \in UniquesOf(x[1]) :
      LET v == L.staged[RowKey(x)][u.col]
          k == GuardOf(u, v)
      IN  v # Null => \/ L.staged[k] = x
                      \/ /\ L.staged[k] = Untouched
                         /\ L.snap[RowKey(x)] # NoRow
                         /\ L.snap[RowKey(x)][u.col] = v

\* A staged guard is reserved in memory, or the row owned the key before.
GuardsReserved(L) ==
  \A k \in UniqueKeys, x \in RowIds :
    L.staged[k] = x => L.reserved[k] = x \/ L.snap[k] = x

\* Only rows the transaction has written reserve keys.
ReservedByWriters(L) ==
  \A k \in UniqueKeys, x \in RowIds : L.reserved[k] = x => L.view[x] # Untouched

GuardsOf(L) == /\ WritesShown(L)
               /\ GuardsLost(L)
               /\ GuardsStaged(L)
               /\ GuardsReserved(L)
               /\ ReservedByWriters(L)

\* Committed guards are complete, and so is what a transaction that can still
\* commit has staged, relative to its snapshot (txn.rs, "Unique constraints").
UniquenessInv ==
  /\ CompleteIn(store)
  /\ \A c \in Txns : txn[c].status = "active" =>
       /\ SnapshotCurrent(txn[c])
       /\ ~Conflicts(txn[c]) => GuardsOf(txn[c])

-----------------------------------------------------------------------------
(* No guard is left behind, and composite keys are guarded as well.         *)

HasRow(s, x) == s[RowKey(x)] \notin {NoRow, Untouched}

\* The guards the row r at x owns.
RowKeys(x, r) == KeysFor(x, r, NoRow) \cup PkGuardOf(x)

\* In the tables s every guard belongs to a row that needs it, and every row
\* with a composite key has the guard of that key.
ExactIn(s) ==
  /\ \A k \in GuardKeys, x \in RowIds :
       s[k] = x => s[RowKey(x)] # NoRow /\ k \in RowKeys(x, s[RowKey(x)])
  /\ \A x \in RowIds :
       s[RowKey(x)] # NoRow /\ Composite(x[1]) => s[PkGuard(x)] = x

\* A guard that was committed since the snapshot came with a write of its row.
GuardsTouch(s, L) ==
  \A k \in GuardKeys, x \in RowIds : s[k] = x => L.snap[k] = x \/ RowKey(x) \in L.dirty

\* The rows update_where has left were there when it selected them.
TodoThere(L) ==
  L.stmt.kind = "update_where" =>
    \A x \in DOMAIN L.stmt.todo : L.view[x] = Untouched => L.snap[RowKey(x)] # NoRow

\* A staged guard belongs to a staged row that needs it; a guard that a written
\* row had is replaced, or the new row needs it too.
StagedGuardsExact(L) ==
  \A k \in GuardKeys, x \in RowIds :
    \/ L.staged[k] = x
    \/ L.staged[k] = Untouched /\ L.snap[k] = x /\ Written(L, x)
    => HasRow(L.staged, x) /\ k \in RowKeys(x, L.staged[RowKey(x)])

\* A staged row has the guard of its composite key, or had it before; the guard
\* goes only with the row.
CompositesGuarded(L) ==
  \A x \in RowIds :
    /\ HasRow(L.staged, x) /\ Composite(x[1]) =>
         \/ L.staged[PkGuard(x)] = x
         \/ L.staged[PkGuard(x)] = Untouched /\ L.snap[RowKey(x)] # NoRow
    /\ L.staged[PkGuard(x)] = NoRow => Written(L, x)

\* A row the transaction shows is written; it was inserted if and only if it
\* was not there before.
MadeExact(L) ==
  \A x \in RowIds : /\ L.view[x] \in AllRows => /\ Written(L, x)
                                                /\ x \in L.made <=> L.snap[RowKey(x)] = NoRow
                    /\ x \in L.made => L.view[x] # Untouched

StagedExact(L) == StagedGuardsExact(L) /\ CompositesGuarded(L) /\ MadeExact(L)

\* What holds of an active transaction L while the store is s.
Exactly(s, L) == /\ ExactIn(L.snap)
                 /\ GuardsTouch(s, L)
                 /\ TodoThere(L)
                 /\ ~Conflicts(L) => StagedExact(L)

\* Guards and rows correspond exactly in the store, in every snapshot, and will
\* in what a transaction that can still commit leaves (txn.rs, the rows of
\* __kit_unique_keys).
ExactInv ==
  /\ ExactIn(store)
  /\ \A c \in Txns : txn[c].status = "active" => Exactly(store, txn[c])

-----------------------------------------------------------------------------
(* References: a parent delete and a child write that overlap never both    *)
(* commit.                                                                  *)

\* The foreign keys the row guards protect.  A schema outside these conditions
\* has dangling references: SelfFkCascade.cfg shows the first condition,
\* FastUpdateFk.cfg the third and CascadeRace.cfg the fourth.
PlainReferences ==
  \* delete_row skips the planned rows of the deleted row's own table.
  /\ \A f \in FKs : f.child # f.parent
  \* find_children decodes parent keys with the deleted row's columns.
  /\ \A f \in FKs : Arity[f.child] = Arity[f.parent]
  \* update_fast checks no foreign key.
  /\ \A f \in FKs : ~FastUpdate(f.child)
  \* The row guards of rows that a cascade deletes are not touched.
  /\ \A f, g \in FKs : f.action = "cascade" => g.parent # f.child
  \* One set-null update overwrites another of the same row, or brings back a
  \* row that a cascade deletes.
  /\ \A f, g \in FKs : /\ f.child = g.child /\ f.parent = g.parent
                       /\ f.action = "set_null" /\ g.action # "restrict"
                       => f = g

-----------------------------------------------------------------------------
\* In the tables s, or among the staged rows s, x refers to y by f.
Refers(s, f, x, y) == /\ HasRow(s, x)
                      /\ f.child = x[1] /\ f.parent = y[1]
                      /\ s[RowKey(x)][f.col] = y[2]

RefersIn(s) ==
  \A f \in FKs, x, y \in RowIds : Refers(s, f, x, y) => s[RowKey(y)] # NoRow

Referenced(y) == \E f \in FKs : f.parent = y[1]

-----------------------------------------------------------------------------
(* What holds of an active transaction L while the store is s.              *)

\* The snapshot differs from the store only in keys others have committed.
SnapshotAgrees(s, L) == \A k \in Keys \ L.dirty : L.snap[k] = s[k]

\* A reference or the loss of a parent that was committed since the snapshot
\* came with a write of the parent's row guard.
ReferencesTouch(s, L) ==
  \A f \in FKs, x, y \in RowIds :
    Refers(s, f, x, y) => Refers(L.snap, f, x, y) \/ RowGuard(y) \in L.dirty

LossesTouch(s, L) ==
  \A y \in RowIds :
    Referenced(y) /\ L.snap[RowKey(y)] # NoRow /\ s[RowKey(y)] = NoRow
      => RowGuard(y) \in L.dirty

\* The replay shows exactly what is written in the engine.
ReplayIsExact(L) == \A x \in RowIds : L.staged[RowKey(x)] = L.view[x]

\* A deleted parent has its row guard touched, and every row of the snapshot
\* that refers to it is written.
DeletesCover(L) ==
  \A y \in RowIds : Referenced(y) /\ L.staged[RowKey(y)] = NoRow =>
    /\ L.staged[RowGuard(y)] # Untouched
    /\ \A f \in FKs, x \in RowIds : Refers(L.snap, f, x, y) => Written(L, x)

\* The row guard of y is touched, and y will be there if L commits now.
ParentHeld(s, L, y) == /\ L.staged[RowGuard(y)] # Untouched
                       /\ L.staged[RowKey(y)] # NoRow
                       /\ Written(L, y) \/ s[RowKey(y)] # NoRow

\* A reference of a staged row is to a row held, or is one the row already had
\* to a row that is not deleted.
ReferencesHeld(s, L) ==
  \A f \in FKs, x, y \in RowIds : Refers(L.staged, f, x, y) =>
    \/ ParentHeld(s, L, y)
    \/ Refers(L.snap, f, x, y) /\ L.staged[RowKey(y)] # NoRow

\* The parents the batch cache of insert_many remembers are held.
FoundHeld(s, L) == \A y \in L.stmt.found : Referenced(y) /\ ParentHeld(s, L, y)

StagedWell(s, L) ==
  ReplayIsExact(L) /\ DeletesCover(L) /\ ReferencesHeld(s, L) /\ FoundHeld(s, L)

OnlyInsertsFind(L) == L.stmt.kind # "insert_many" => L.stmt.found = {}

Standing(s, L) == /\ SnapshotAgrees(s, L)
                  /\ ReferencesTouch(s, L)
                  /\ LossesTouch(s, L)
                  /\ OnlyInsertsFind(L)
                  /\ ~Conflicts(L) => StagedWell(s, L)

\* Committed references are intact, and so will be those of a transaction that
\* can still commit, whatever others commit before (txn.rs, "Foreign keys").
ReferencesInv ==
  /\ RefersIn(store)
  /\ \A c \in Txns : txn[c].status = "active" => Standing(store, txn[c])

-----------------------------------------------------------------------------
\* What makes the guards sufficient, exact and safe for references, as one
\* invariant: it is inductive where each of its consequences alone is not.
GuardsInv == UniquenessInv /\ ExactInv /\ ReferencesInv
=============================================================================
