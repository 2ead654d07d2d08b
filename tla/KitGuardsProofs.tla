---------------------------- MODULE KitGuardsProofs ----------------------------
(***************************************************************************)
(* For every schema and number of transactions, when transactions write     *)
(* each row once and do not upsert: no two committed rows share a unique    *)
(* key, the rows of __kit_unique_keys are exactly the guards rows need, and *)
(* no committed row refers to a row that is not there (of a schema that     *)
(* PlainReferences describes).                                             *)
(*                                                                         *)
(* The first half is about KitTxn alone: types and keys.                    *)
(*                                                                         *)
(* SafeEffect says what of an operation's effect uniqueness needs; it is    *)
(* proved of each operation, and StageSafe shows that staging a safe effect *)
(* keeps the invariant of the transaction.  The commit then turns the       *)
(* invariant of the transaction into complete guards in the store.          *)
(* ExactEffect and StageExact do the same for the exactness of the guards,  *)
(* and CarefulEffect and StageCareful, which keeps what StagedWell says of  *)
(* the transaction, for the references.                                    *)
(***************************************************************************)
EXTENDS KitGuards, TLAPS

-----------------------------------------------------------------------------
(* Keys.                                                                    *)

\* The four kinds of keys and what is stored under them.
LEMMA KeyKinds ==
  /\ \A x \in RowIds : /\ RowKey(x) \in Keys
                       /\ RowGuard(x) \in Keys
                       /\ PkGuard(x) \in GuardKeys
                       /\ Stored(RowKey(x)) = RowsOf(x[1]) \cup {NoRow}
                       /\ Stored(RowGuard(x)) = RowIds \cup {NoRow}
  /\ \A k \in GuardKeys : /\ k \in Keys
                          /\ k[1] \notin {"row", "rg"}
                          /\ Stored(k) = RowIds \cup {NoRow}
  /\ \A k \in Keys : \/ \E x \in RowIds : k = RowKey(x)
                     \/ \E x \in RowIds : k = RowGuard(x)
                     \/ k \in GuardKeys
<1>1. \A k \in GuardKeys : k \in Keys /\ k[1] \notin {"row", "rg"}
  BY DEF Keys, GuardKeys, PkGuard, GuardOf
<1>2. \A x \in RowIds : /\ RowKey(x) \in Keys
                        /\ RowGuard(x) \in Keys
                        /\ PkGuard(x) \in GuardKeys
  BY DEF Keys, GuardKeys
<1>3. \A x \in RowIds : /\ Stored(RowKey(x)) = RowsOf(x[1]) \cup {NoRow}
                        /\ Stored(RowGuard(x)) = RowIds \cup {NoRow}
  BY DEF Stored, RowKey, RowGuard
<1>4. \A k \in GuardKeys : Stored(k) = RowIds \cup {NoRow}
  BY <1>1 DEF Stored
<1>5. \A k \in Keys : \/ \E x \in RowIds : k = RowKey(x)
                      \/ \E x \in RowIds : k = RowGuard(x)
                      \/ k \in GuardKeys
  BY DEF Keys
<1> QED BY <1>1, <1>2, <1>3, <1>4, <1>5

\* The keys a valid row needs, and those it gives up, are guards.
LEMMA KeysAreGuards ==
  ASSUME NEW x \in RowIds, NEW r \in RowsOf(x[1]),
         NEW old \in RowsOf(x[1]) \cup {NoRow}
  PROVE  /\ KeysFor(x, r, old) \subseteq GuardKeys
         /\ StaleKeys(x, r, old) \subseteq GuardKeys
         /\ PkGuardOf(x) \subseteq GuardKeys
<1>1. \A u \in UniquesOf(x[1]) : u \in Uniques /\ u.col \in ColsOf[x[1]]
  BY KitSchemaAssumption DEF UniquesOf, SchemaAssumption
<1>2. \A u \in UniquesOf(x[1]) : r[u.col] \in Ids \cup {Null}
  BY <1>1 DEF RowsOf
<1>3. old # NoRow => \A u \in UniquesOf(x[1]) : old[u.col] \in Ids \cup {Null}
  BY <1>1 DEF RowsOf
<1>4. KeysFor(x, r, old) \subseteq GuardKeys
  BY <1>1, <1>2 DEF KeysFor, Changed, GuardKeys
<1>5. StaleKeys(x, r, old) \subseteq GuardKeys
  BY <1>1, <1>3 DEF StaleKeys, GuardKeys
<1>6. PkGuardOf(x) \subseteq GuardKeys
  BY KeyKinds DEF PkGuardOf
<1> QED BY <1>4, <1>5, <1>6

-----------------------------------------------------------------------------
(* What an operation stages has the types of the state it is staged in.     *)

\* Puts are rows of their tables, guards are owned by rows.
TypedEffect(e) ==
  /\ DOMAIN e.puts \subseteq RowIds
  /\ \A x \in DOMAIN e.puts : e.puts[x] \in RowsOf(x[1])
  /\ DOMAIN e.shown \subseteq RowIds
  /\ \A x \in DOMAIN e.shown : e.shown[x] \in RowsOf(x[1])
  /\ e.gone \subseteq RowIds
  /\ DOMAIN e.reserve \subseteq GuardKeys
  /\ \A k \in DOMAIN e.reserve : e.reserve[k] \in RowIds
  /\ e.touch \subseteq RowIds
  /\ e.made \subseteq RowIds

\* The engine puts of a typed effect are typed.
LEMMA EnginePutsTyped ==
  ASSUME NEW e, TypedEffect(e)
  PROVE  /\ DOMAIN EnginePuts(e) \subseteq Keys
         /\ \A k \in DOMAIN EnginePuts(e) : EnginePuts(e)[k] \in Stored(k) \ {NoRow}
<1> DEFINE D == {RowKey(x) : x \in DOMAIN e.puts} \cup DOMAIN e.reserve
                  \cup {RowGuard(x) : x \in e.touch}
<1>1. DOMAIN EnginePuts(e) = D
  BY DEF EnginePuts
<1>2. D \subseteq Keys
  BY KeyKinds DEF TypedEffect
<1>3. ASSUME NEW k \in D
      PROVE  EnginePuts(e)[k] \in Stored(k) \ {NoRow}
  <2>1. CASE \E x \in DOMAIN e.puts : k = RowKey(x)
    <3>1. PICK x \in DOMAIN e.puts : k = RowKey(x)
      BY <2>1
    <3>2. EnginePuts(e)[k] = e.puts[x]
      BY <3>1 DEF EnginePuts, RowKey
    <3>3. e.puts[x] \in RowsOf(x[1]) /\ x \in RowIds
      BY DEF TypedEffect
    <3>4. RowsOf(x[1]) \subseteq AllRows
      BY <3>3 DEF RowIds, AllRows
    <3> QED BY <3>1, <3>2, <3>3, <3>4, KeyKinds, KitSchemaAssumption DEF SchemaAssumption
  <2>2. CASE \E x \in e.touch : k = RowGuard(x)
    <3>1. PICK x \in e.touch : k = RowGuard(x)
      BY <2>2
    <3>2. EnginePuts(e)[k] = x
      BY <3>1 DEF EnginePuts, RowGuard
    <3> QED BY <3>1, <3>2, KeyKinds, KitSchemaAssumption DEF TypedEffect, SchemaAssumption
  <2>3. CASE k \in DOMAIN e.reserve
    <3>1. k \in GuardKeys
      BY <2>3 DEF TypedEffect
    <3>2. EnginePuts(e)[k] = e.reserve[k]
      BY <2>3, <3>1, KeyKinds DEF EnginePuts
    <3> QED BY <2>3, <3>1, <3>2, KeyKinds, KitSchemaAssumption DEF TypedEffect, SchemaAssumption
  <2> QED BY <2>1, <2>2, <2>3
<1> QED BY <1>1, <1>2, <1>3

\* Staging a typed effect keeps a transaction typed, and changes nothing of
\* it but what it staged, showed, reserved and inserted.
LEMMA StageTyped ==
  ASSUME NEW L \in Transactions, TypedTxn(L), NEW e, TypedEffect(e)
  PROVE  LET S == Stage(L, e)
         IN  /\ S \in Transactions
             /\ TypedTxn(S)
             /\ S.stmt = L.stmt /\ S.ops = L.ops
<1> DEFINE S == Stage(L, e)
           deletes == {RowKey(x) : x \in e.gone} \cup e.release
<1>1. S.staged = StageWrites(L.staged, EnginePuts(e), deletes)
  BY DEF Stage, Transactions
<1>2. /\ S.staged \in [Keys -> Values \cup {Untouched}]
      /\ WellTyped(S.staged, {Untouched})
  <2>1. DOMAIN L.staged = Keys /\ L.staged \in [Keys -> Values \cup {Untouched}]
    BY DEF Transactions
  <2>2. \A k \in Keys : S.staged[k] \in Stored(k) \cup {Untouched}
    BY <1>1, <2>1, EnginePutsTyped DEF StageWrites, TypedTxn, WellTyped, Stored
  <2>3. \A k \in Keys : Stored(k) \subseteq Values
    BY KeyKinds DEF Values, RowIds, AllRows
  <2> QED BY <1>1, <2>1, <2>2, <2>3 DEF StageWrites, WellTyped
<1>3. /\ S.view \in [RowIds -> AllRows \cup {NoRow, Untouched}]
      /\ \A x \in RowIds : S.view[x] \in RowsOf(x[1]) \cup {NoRow, Untouched}
  <2>1. S.view = [x \in RowIds |-> IF x \in e.gone THEN NoRow
                                   ELSE IF x \in DOMAIN e.shown THEN e.shown[x]
                                   ELSE L.view[x]]
    BY DEF Stage, Transactions
  <2>2. \A x \in RowIds : S.view[x] \in RowsOf(x[1]) \cup {NoRow, Untouched}
    BY <2>1 DEF TypedEffect, TypedTxn
  <2> QED BY <2>1, <2>2 DEF AllRows, RowIds
<1>4. S.reserved \in [GuardKeys -> RowIds \cup {NoRow}]
  BY DEF Stage, Transactions, TypedEffect
<1>5. S.made \subseteq RowIds
  BY DEF Stage, Transactions, TypedEffect
<1>6. /\ S.status = L.status /\ S.attempt = L.attempt /\ S.ops = L.ops
      /\ S.snap = L.snap /\ S.behind = L.behind /\ S.dirty = L.dirty
      /\ S.stmt = L.stmt
  BY DEF Stage, Transactions
<1>7. S \in Transactions
  <2> DEFINE L1 == [L EXCEPT !.staged = S.staged]
             L2 == [L1 EXCEPT !.view = S.view]
             L3 == [L2 EXCEPT !.reserved = S.reserved]
  <2>1. L1 \in Transactions
    BY <1>2 DEF Transactions
  <2>2. L2 \in Transactions
    BY <1>3, <2>1 DEF Transactions
  <2>3. L3 \in Transactions
    BY <1>4, <2>2 DEF Transactions
  <2>4. [L3 EXCEPT !.made = S.made] \in Transactions
    BY <1>5, <2>3 DEF Transactions
  <2>5. S = [L3 EXCEPT !.made = S.made]
    BY DEF Stage, Transactions
  <2> QED BY <2>4, <2>5
<1> QED BY <1>2, <1>3, <1>6, <1>7 DEF TypedTxn

\* What the Kit reads of a row is a row of its table.
LEMMA ReadsTyped ==
  ASSUME TypeOK, NEW c \in Txns, NEW x \in RowIds
  PROVE  /\ Visible(txn[c], x) \in RowsOf(x[1]) \cup {NoRow}
         /\ ReadByPk(txn[c], x) \in RowsOf(x[1]) \cup {NoRow}
<1>1. txn[c] \in Transactions /\ TypedTxn(txn[c])
  BY DEF TypeOK
<1>2. /\ txn[c].snap[RowKey(x)] \in RowsOf(x[1]) \cup {NoRow}
      /\ store[RowKey(x)] \in RowsOf(x[1]) \cup {NoRow}
  BY <1>1, KeyKinds DEF TypeOK, TypedTxn, WellTyped
<1>3. Visible(txn[c], x) \in RowsOf(x[1]) \cup {NoRow}
  BY <1>1, <1>2 DEF Visible, TypedTxn
<1> QED BY <1>2, <1>3 DEF ReadByPk

\* No row is the absent row.
LEMMA RowsAreNotNoRow ==
  ASSUME NEW x \in RowIds, NEW r \in RowsOf(x[1])
  PROVE  r \in AllRows /\ r # NoRow /\ r # Untouched /\ x # NoRow /\ x # Untouched
<1>1. r \in AllRows
  BY DEF RowIds, AllRows
<1> QED BY <1>1, KitSchemaAssumption, KitTxnAssumption DEF SchemaAssumption

\* The parents a row refers to are rows of tables.
LEMMA ParentsAreRows ==
  ASSUME NEW x \in RowIds, NEW r \in RowsOf(x[1])
  PROVE  ParentsOf(x, r) \subseteq RowIds
<1>1. \A f \in FKsOf(x[1]) : f.parent \in Tables /\ f.col \in ColsOf[x[1]]
  BY KitSchemaAssumption DEF FKsOf, SchemaAssumption
<1>2. \A f \in FKsOf(x[1]) : r[f.col] \in Ids \cup {Null}
  BY <1>1 DEF RowsOf
<1> QED BY <1>1, <1>2 DEF ParentsOf, RowIds

\* The effects of the operations are typed.
LEMMA WriteRowTyped ==
  ASSUME NEW L, NEW x \in RowIds, NEW r \in RowsOf(x[1]),
         NEW old \in RowsOf(x[1]) \cup {NoRow}
  PROVE  TypedEffect(WriteRow(L, x, r, old))
<1> DEFINE e == WriteRow(L, x, r, old)
<1>1. /\ e.puts = [y \in {x} |-> r] /\ e.shown = [y \in {x} |-> r]
      /\ e.reserve = [k \in KeysFor(x, r, old) |-> x]
      /\ e.gone = {} /\ e.touch = ParentsOf(x, r) /\ e.made = {}
  BY DEF WriteRow, NoEffect
<1> QED BY <1>1, KeysAreGuards, ParentsAreRows DEF TypedEffect

LEMMA InsertRowTyped ==
  ASSUME NEW L, NEW x \in RowIds, NEW r \in RowsOf(x[1])
  PROVE  TypedEffect(InsertRow(L, x, r))
<1> DEFINE e == InsertRow(L, x, r)
           w == WriteRow(L, x, r, NoRow)
<1>1. /\ e.puts = w.puts /\ e.shown = w.shown /\ e.gone = w.gone /\ e.touch = w.touch
      /\ e.reserve = [k \in KeysFor(x, r, NoRow) \cup PkGuardOf(x) |-> x]
      /\ e.made = {x}
  BY DEF InsertRow, WriteRow, NoEffect
<1>2. TypedEffect(w)
  BY WriteRowTyped
<1> QED BY <1>1, <1>2, KeysAreGuards DEF TypedEffect

\* A plain put of a row, as on the fast path of update.
LEMMA PutTyped ==
  ASSUME NEW x \in RowIds, NEW r \in RowsOf(x[1])
  PROVE  TypedEffect([NoEffect EXCEPT !.puts = [y \in {x} |-> r],
                                      !.shown = [y \in {x} |-> r]])
BY DEF TypedEffect, NoEffect, Nothing

LEMMA GoneTyped ==
  ASSUME NEW x \in RowIds
  PROVE  TypedEffect([NoEffect EXCEPT !.gone = {x}])
BY DEF TypedEffect, NoEffect, Nothing

LEMMA TruncateTyped ==
  ASSUME NEW L, NEW t \in Tables
  PROVE  TypedEffect(TruncateTable(L, t))
<1> DEFINE e == TruncateTable(L, t)
<1>1. /\ e.puts = Nothing /\ e.shown = Nothing /\ e.reserve = Nothing
      /\ e.gone = {x \in RowIds : x[1] = t} /\ e.touch = {} /\ e.made = {}
  BY DEF TruncateTable, NoEffect
<1> QED BY <1>1 DEF TypedEffect, Nothing

\* The references a plan follows lead from rows of the database to rows.
LEMMA ReferencesAreRows ==
  ASSUME NEW db, NEW h \in References(db)
  PROVE  /\ h[1] \in FKs /\ h[3] \in RowIds /\ h[3][1] = h[1].child
         /\ db[h[3]] # NoRow
BY DEF References

LEMMA DeleteRowTyped ==
  ASSUME TypeOK, NEW c \in Txns, NEW x \in RowIds,
         NEW pick \in Picks(RefsFound(txn[c], x), x)
  PROVE  TypedEffect(DeleteRow(txn[c], x, RefsFound(txn[c], x), pick))
<1> DEFINE L     == txn[c]
           refs  == RefsFound(L, x)
           cut   == DOMAIN pick
           kept  == [y \in cut |-> Nulled(L, pick[y], y)]
           keys(y) == KeysFor(y, kept[y], NoRow) \cup PkGuardOf(y)
           guard == UNION {keys(y) : y \in cut}
           owner == [k \in guard |-> CHOOSE y \in cut : k \in keys(y)]
           gone  == {x} \cup {y \in Reach(refs, x) : y[1] # x[1]}
           e     == DeleteRow(L, x, refs, pick)
<1>1. \A h \in refs : /\ h[1] \in FKs /\ h[3] \in RowIds /\ h[3][1] = h[1].child
                      /\ Visible(L, h[3]) # NoRow
  BY ReferencesAreRows DEF RefsFound
<1>2. /\ cut = {h[3] : h \in Cut(refs, x)}
      /\ \A y \in cut : \E h \in Cut(refs, x) : h[1] = pick[y] /\ h[3] = y
  BY DEF Picks
<1>3. \A y \in cut : /\ y \in RowIds /\ pick[y] \in FKs /\ pick[y].child = y[1]
                     /\ Visible(L, y) # NoRow
  BY <1>1, <1>2 DEF Cut, By
<1>4. \A y \in cut : Nulled(L, pick[y], y) \in RowsOf(y[1])
  <2> SUFFICES ASSUME NEW y \in cut
               PROVE  Nulled(L, pick[y], y) \in RowsOf(y[1])
    OBVIOUS
  <2>1. Visible(L, y) \in RowsOf(y[1])
    BY <1>3, ReadsTyped
  <2>2. pick[y].col \in ColsOf[y[1]]
    BY <1>3, KitSchemaAssumption DEF SchemaAssumption
  <2> QED BY <2>1, <2>2 DEF Nulled, RowsOf
<1>5. \A y \in cut : keys(y) \subseteq GuardKeys
  BY <1>3, <1>4, KeysAreGuards
<1>6. DOMAIN owner \subseteq GuardKeys /\ \A k \in DOMAIN owner : owner[k] \in RowIds
  BY <1>3, <1>5
<1>7. gone \subseteq RowIds
  BY <1>1 DEF Reach, By
<1>8. /\ e.puts = kept /\ e.shown = kept /\ e.gone = gone /\ e.reserve = owner
      /\ e.touch = {x} /\ e.made = {}
  BY DEF DeleteRow, NoEffect, TouchedByDelete
<1> QED BY <1>3, <1>4, <1>6, <1>7, <1>8 DEF TypedEffect

-----------------------------------------------------------------------------
(* Type correctness.                                                        *)

\* A statement is typed when the rows it has left are.
TypedStatement(stmt) ==
  /\ stmt \in Statements
  /\ \A x \in DOMAIN stmt.todo : stmt.todo[x] \in RowsOf(x[1])

\* The inductive invariant: TypeOK, and the operation a statement belongs to
\* is not yet counted.
TypeInv == /\ TypeOK
           /\ \A c \in Txns : txn[c].stmt # NoStatement => txn[c].ops < MaxOps

LEMMA NoStatementTyped == TypedStatement(NoStatement)
<1>1. Nothing \in [{} -> AllRows]
  BY DEF Nothing
<1>2. NoStatement \in Statements
  BY <1>1 DEF NoStatement, Statements
<1> QED BY <1>2 DEF TypedStatement, NoStatement, Nothing

\* A transaction that begins is typed.
LEMMA FreshTyped ==
  ASSUME NEW s \in [Keys -> Values], WellTyped(s, {}), NEW n \in 0..MaxRetries
  PROVE  /\ Fresh(s, n) \in Transactions
         /\ TypedTxn(Fresh(s, n))
         /\ Fresh(s, n).stmt = NoStatement
<1>1. 0 \in 0..MaxOps /\ 0 \in 0..MaxBehind
  BY KitTxnAssumption
<1>2. Fresh(s, n) \in Transactions
  BY <1>1, NoStatementTyped DEF Fresh, Transactions, TypedStatement
<1>3. TypedTxn(Fresh(s, n))
  BY NoStatementTyped DEF Fresh, TypedTxn, WellTyped, TypedStatement
<1> QED BY <1>2, <1>3 DEF Fresh

LEMMA IdleTyped ==
  /\ NoStore \in [Keys -> Values] /\ WellTyped(NoStore, {})
  /\ Idle \in Transactions /\ TypedTxn(Idle) /\ Idle.stmt = NoStatement
<1>1. NoStore \in [Keys -> Values] /\ WellTyped(NoStore, {})
  BY DEF NoStore, Values, WellTyped, Stored
<1>2. 0 \in 0..MaxRetries
  BY KitTxnAssumption
<1> DEFINE F == Fresh(NoStore, 0)
<1>3. F \in Transactions /\ TypedTxn(F) /\ F.stmt = NoStatement
  BY <1>1, <1>2, FreshTyped
<1>4. Idle \in Transactions
  BY <1>3 DEF Idle, Transactions
<1>5. /\ Idle.snap = F.snap /\ Idle.staged = F.staged /\ Idle.view = F.view
      /\ Idle.stmt = F.stmt
  BY <1>3 DEF Idle, Transactions
<1> QED BY <1>1, <1>3, <1>4, <1>5 DEF TypedTxn

\* A step that stages a typed effect keeps the types.
LEMMA PerformTyped ==
  ASSUME TypeInv, NEW c \in Txns, NEW e, TypedEffect(e),
         NEW stmt, TypedStatement(stmt), txn[c].ops < MaxOps,
         Perform(c, e, stmt)
  PROVE  TypeInv'
<1> DEFINE S == Stage(txn[c], e)
           n == IF stmt = NoStatement THEN S.ops + 1 ELSE S.ops
           T == [[S EXCEPT !.ops = n] EXCEPT !.stmt = stmt]
<1>1. txn[c] \in Transactions /\ TypedTxn(txn[c])
  BY DEF TypeInv, TypeOK
<1>2. S \in Transactions /\ TypedTxn(S) /\ S.ops = txn[c].ops
  BY <1>1, StageTyped
<1>3. txn' = [txn EXCEPT ![c] = T] /\ store' = store
  <2>1. Done(txn[c], e, stmt) = T
    BY <1>2 DEF Done, Transactions
  <2> QED BY <2>1 DEF Perform
<1>4. n \in 0..MaxOps /\ (stmt # NoStatement => n < MaxOps)
  BY <1>2, KitTxnAssumption DEF Transactions
<1>5. [S EXCEPT !.ops = n] \in Transactions
  BY <1>2, <1>4 DEF Transactions
<1>6. T \in Transactions
  BY <1>5 DEF Transactions, TypedStatement
<1>7. /\ T.snap = S.snap /\ T.staged = S.staged /\ T.view = S.view
      /\ T.stmt = stmt /\ T.ops = n
  BY <1>2 DEF Transactions
<1>8. TypedTxn(T)
  BY <1>2, <1>7 DEF TypedTxn, TypedStatement
<1>9. txn'[c] = T /\ \A d \in Txns \ {c} : txn'[d] = txn[d]
  BY <1>3 DEF TypeInv, TypeOK
<1>10. txn' \in [Txns -> Transactions]
  BY <1>3, <1>6 DEF TypeInv, TypeOK
<1> QED BY <1>3, <1>4, <1>7, <1>8, <1>9, <1>10 DEF TypeInv, TypeOK, WellTyped

\* The statement left when a row is done is typed.
LEMMA RestTyped ==
  ASSUME TypeOK, NEW c \in Txns, NEW x \in DOMAIN txn[c].stmt.todo,
         NEW found \in SUBSET RowIds
  PROVE  TypedStatement(Rest(txn[c], x, found))
<1> DEFINE L    == txn[c]
           left == [y \in DOMAIN L.stmt.todo \ {x} |-> L.stmt.todo[y]]
<1>1. L.stmt \in Statements /\ \A y \in DOMAIN L.stmt.todo : L.stmt.todo[y] \in RowsOf(y[1])
  BY DEF TypeOK, Transactions, TypedTxn
<1>2. DOMAIN L.stmt.todo \subseteq RowIds
  BY <1>1 DEF Statements
<1>3. left \in [DOMAIN L.stmt.todo \ {x} -> AllRows]
  BY <1>1, <1>2 DEF RowIds, AllRows
<1>4. left \in UNION {[S -> AllRows] : S \in SUBSET RowIds}
  BY <1>2, <1>3
<1>5. CASE DOMAIN L.stmt.todo = {x}
  BY <1>5, NoStatementTyped DEF Rest
<1>6. CASE DOMAIN L.stmt.todo # {x}
  <2> DEFINE rest == [L.stmt EXCEPT !.todo = left, !.found = L.stmt.found \cup found]
  <2>1. Rest(L, x, found) = rest
    BY <1>6 DEF Rest
  <2>2. rest \in Statements
    BY <1>1, <1>4 DEF Statements
  <2>3. rest.todo = left
    BY <1>1 DEF Statements
  <2> QED BY <1>1, <2>1, <2>2, <2>3 DEF TypedStatement
<1> QED BY <1>5, <1>6

\* A statement that starts with rows of its table is typed.
LEMMA StartTyped ==
  ASSUME TypeInv, NEW c \in Txns, NEW kind \in {"insert_many", "update_where", "delete_where"},
         NEW t \in Tables, NEW S \in SUBSET {x \in RowIds : x[1] = t},
         NEW todo \in [S -> RowsOf(t)], StartStatement(c, kind, todo)
  PROVE  TypeInv'
<1> DEFINE stmt == [kind |-> kind, todo |-> todo, found |-> {}]
<1>1. txn' = [txn EXCEPT ![c] = [txn[c] EXCEPT !.stmt = stmt]] /\ store' = store
  BY DEF StartStatement
<1>2. txn[c] \in Transactions /\ TypedTxn(txn[c]) /\ txn[c].ops < MaxOps
  BY DEF TypeInv, TypeOK, StartStatement, Running
<1>3. todo \in [S -> AllRows] /\ S \subseteq RowIds
  BY DEF AllRows
<1>4. stmt \in Statements
  BY <1>3 DEF Statements
<1>5. [txn[c] EXCEPT !.stmt = stmt] \in Transactions
  BY <1>2, <1>4 DEF Transactions
<1>6. TypedTxn([txn[c] EXCEPT !.stmt = stmt]) /\ [txn[c] EXCEPT !.stmt = stmt].ops = txn[c].ops
  BY <1>2 DEF TypedTxn, Transactions
<1>7. txn' \in [Txns -> Transactions]
  BY <1>1, <1>5 DEF TypeInv, TypeOK
<1> QED BY <1>1, <1>2, <1>5, <1>6, <1>7 DEF TypeInv, TypeOK, WellTyped

\* An operation of one row keeps the types.
LEMMA OperationTyped ==
  ASSUME TypeInv, NEW c \in Txns, NEW x \in RowIds, NEW r \in RowsOf(x[1]),
         \/ Insert(c, x, r)
         \/ Update(c, x, r)
         \/ UpdateFast(c, x, r)
         \/ UpsertAbsent(c, x, r)
  PROVE  TypeInv'
<1> USE NoStatementTyped
<1> DEFINE L   == txn[c]
           old == ReadByPk(L, x)
<1>1. old \in RowsOf(x[1]) \cup {NoRow}
  BY ReadsTyped DEF TypeInv
<1>2. CASE Insert(c, x, r)
  BY <1>2, InsertRowTyped, PerformTyped DEF Insert, Running
<1>3. CASE Update(c, x, r)
  BY <1>1, <1>3, WriteRowTyped, PerformTyped DEF Update, Running
<1>4. CASE UpdateFast(c, x, r)
  BY <1>4, PutTyped, PerformTyped DEF UpdateFast, Running
<1>5. CASE UpsertAbsent(c, x, r)
  BY <1>5, InsertRowTyped, PerformTyped DEF UpsertAbsent, Running
<1> QED BY <1>2, <1>3, <1>4, <1>5

LEMMA PatchedTyped ==
  ASSUME NEW x \in RowIds, NEW r \in RowsOf(x[1]),
         NEW S \in SUBSET ColsOf[x[1]], NEW patch \in [S -> Ids \cup {Null}]
  PROVE  Patched(r, patch) \in RowsOf(x[1])
BY DEF Patched, RowsOf

LEMMA UpsertExistingTyped ==
  ASSUME TypeInv, NEW c \in Txns, NEW x \in RowIds, NEW r \in RowsOf(x[1]),
         NEW S \in SUBSET ColsOf[x[1]], NEW patch \in [S -> Ids \cup {Null}],
         UpsertExisting(c, x, r, patch)
  PROVE  TypeInv'
<1> DEFINE L      == txn[c]
           old    == ReadByPk(L, x)
           merged == Patched(r, patch)
           w      == WriteRow(L, x, merged, old)
           put    == [y \in {x} |-> Patched(old, patch)]
           e      == [w EXCEPT !.puts = put]
<1>1. old \in RowsOf(x[1])
  BY ReadsTyped DEF TypeInv, UpsertExisting
<1>2. merged \in RowsOf(x[1]) /\ Patched(old, patch) \in RowsOf(x[1])
  BY <1>1, PatchedTyped
<1>3. TypedEffect(w)
  BY <1>1, <1>2, WriteRowTyped
<1>4. /\ e.puts = put /\ e.shown = w.shown /\ e.gone = w.gone /\ e.touch = w.touch
      /\ e.reserve = w.reserve /\ e.made = w.made
  BY DEF WriteRow, NoEffect
<1>5. TypedEffect(e)
  BY <1>2, <1>3, <1>4 DEF TypedEffect
<1> QED BY <1>5, NoStatementTyped, PerformTyped DEF UpsertExisting, Running

LEMMA RemovalTyped ==
  ASSUME TypeInv, NEW c \in Txns, NEW x \in RowIds, Delete(c, x) \/ DeleteFast(c, x)
  PROVE  TypeInv'
<1>1. CASE Delete(c, x)
  <2>1. PICK pick \in Picks(RefsFound(txn[c], x), x) :
          Perform(c, DeleteRow(txn[c], x, RefsFound(txn[c], x), pick), NoStatement)
    BY <1>1 DEF Delete
  <2>2. txn[c].ops < MaxOps
    BY <1>1 DEF Delete, Running
  <2> QED BY <2>1, <2>2, DeleteRowTyped, NoStatementTyped, PerformTyped DEF TypeInv
<1>2. CASE DeleteFast(c, x)
  BY <1>2, GoneTyped, NoStatementTyped, PerformTyped DEF DeleteFast, Running
<1> QED BY <1>1, <1>2

LEMMA TruncateKeepsTypes ==
  ASSUME TypeInv, NEW c \in Txns, NEW t \in Tables, Truncate(c, t)
  PROVE  TypeInv'
BY TruncateTyped, NoStatementTyped, PerformTyped DEF Truncate, Running

\* The start of a statement keeps the types.
LEMMA StartKeepsTypes ==
  ASSUME TypeInv, NEW c \in Txns, NEW t \in Tables,
         \/ StartInsertMany(c, t)
         \/ StartUpdateWhere(c, t)
         \/ StartDeleteWhere(c, t)
  PROVE  TypeInv'
<1> DEFINE OfTable == {x \in RowIds : x[1] = t}
<1>1. \A x \in Selected(txn[c], t) : x \in OfTable /\ Visible(txn[c], x) \in RowsOf(t)
  BY ReadsTyped, KitTxnAssumption DEF TypeInv, Selected
<1>2. CASE StartInsertMany(c, t)
  <2>1. PICK S \in SUBSET {x \in Targets : x[1] = t} :
          \E todo \in [S -> RowsOf(t)] : StartStatement(c, "insert_many", todo)
    BY <1>2 DEF StartInsertMany
  <2>2. S \subseteq OfTable
    BY KitTxnAssumption
  <2> QED BY <2>1, <2>2, StartTyped
<1>3. CASE StartUpdateWhere(c, t)
  <2>1. PICK S \in SUBSET Selected(txn[c], t), a \in ColsOf[t], v \in Ids \cup {Null} :
          StartStatement(c, "update_where", [x \in S |-> [Visible(txn[c], x) EXCEPT ![a] = v]])
    BY <1>3 DEF StartUpdateWhere
  <2> DEFINE todo == [x \in S |-> [Visible(txn[c], x) EXCEPT ![a] = v]]
  <2>2. S \subseteq OfTable
    BY <1>1
  <2>3. todo \in [S -> RowsOf(t)]
    <3> SUFFICES ASSUME NEW x \in S
                 PROVE  [Visible(txn[c], x) EXCEPT ![a] = v] \in RowsOf(t)
      OBVIOUS
    <3>1. Visible(txn[c], x) \in RowsOf(t)
      BY <1>1
    <3> QED BY <3>1 DEF RowsOf
  <2> QED BY <2>1, <2>2, <2>3, StartTyped
<1>4. CASE StartDeleteWhere(c, t)
  <2>1. PICK S \in SUBSET Selected(txn[c], t) :
          StartStatement(c, "delete_where", [x \in S |-> Visible(txn[c], x)])
    BY <1>4 DEF StartDeleteWhere
  <2>2. S \subseteq OfTable /\ [x \in S |-> Visible(txn[c], x)] \in [S -> RowsOf(t)]
    BY <1>1
  <2> QED BY <2>1, <2>2, StartTyped
<1> QED BY <1>2, <1>3, <1>4

\* One row of a statement keeps the types.
LEMMA RowOfStatementTyped ==
  ASSUME TypeInv, NEW c \in Txns, NEW x \in RowIds,
         \/ InsertManyRow(c, x)
         \/ UpdateWhereRow(c, x)
         \/ DeleteWhereRow(c, x)
  PROVE  TypeInv'
<1> DEFINE L == txn[c]
           r == L.stmt.todo[x]
<1>1. x \in DOMAIN L.stmt.todo /\ L.stmt.kind # "none"
  BY DEF InsertManyRow, UpdateWhereRow, DeleteWhereRow, InStatement
<1>2. L.stmt # NoStatement
  BY <1>1 DEF NoStatement
<1>3. L.ops < MaxOps /\ r \in RowsOf(x[1])
  BY <1>1, <1>2 DEF TypeInv, TypeOK, TypedTxn
<1>4. Visible(L, x) \in RowsOf(x[1]) \cup {NoRow}
  BY ReadsTyped DEF TypeInv
<1>5. \A found \in SUBSET RowIds : TypedStatement(Rest(L, x, found))
  BY <1>1, RestTyped DEF TypeInv
<1>6. CASE InsertManyRow(c, x)
  <2>1. ParentsOf(x, r) \subseteq RowIds
    BY <1>3, ParentsAreRows
  <2>2. TypedEffect(InsertRow(L, x, r))
    BY <1>3, InsertRowTyped
  <2> QED BY <1>3, <1>5, <1>6, <2>1, <2>2, PerformTyped DEF InsertManyRow
<1>7. CASE UpdateWhereRow(c, x)
  <2>1. TypedEffect(WriteRow(L, x, r, Visible(L, x)))
    BY <1>3, <1>4, WriteRowTyped
  <2> QED BY <1>3, <1>5, <1>7, <2>1, PerformTyped DEF UpdateWhereRow
<1>8. CASE DeleteWhereRow(c, x)
  <2>1. PICK pick \in Picks(RefsFound(L, x), x) :
          Perform(c, DeleteRow(L, x, RefsFound(L, x), pick), Rest(L, x, {}))
    BY <1>8 DEF DeleteWhereRow
  <2>2. TypedEffect(DeleteRow(L, x, RefsFound(L, x), pick))
    BY DeleteRowTyped DEF TypeInv
  <2> QED BY <1>3, <1>5, <2>1, <2>2, PerformTyped
<1> QED BY <1>6, <1>7, <1>8

\* The store a commit leaves is typed.
LEMMA InstallTyped ==
  ASSUME TypeOK, NEW c \in Txns
  PROVE  LET s == Install(store, txn[c].staged)
         IN  s \in [Keys -> Values] /\ WellTyped(s, {})
<1> DEFINE s == Install(store, txn[c].staged)
<1>1. txn[c] \in Transactions /\ TypedTxn(txn[c])
  BY DEF TypeOK
<1>2. DOMAIN s = Keys /\ s = [k \in Keys |-> s[k]]
  BY DEF Install, TypeOK
<1>3. \A k \in Keys : s[k] = IF txn[c].staged[k] = Untouched THEN store[k] ELSE txn[c].staged[k]
  BY DEF Install, TypeOK
<1>4. \A k \in Keys : s[k] \in Stored(k) /\ s[k] \in Values
  BY <1>1, <1>3 DEF TypeOK, TypedTxn, WellTyped, Transactions
<1> QED BY <1>2, <1>4 DEF WellTyped

\* The others of a commit only learn that there was one.
LEMMA BehindTyped ==
  ASSUME NEW L \in Transactions, TypedTxn(L), NEW W \in SUBSET Keys, L.behind < MaxBehind
  PROVE  LET M == [L EXCEPT !.behind = @ + 1, !.dirty = @ \cup W]
         IN  M \in Transactions /\ TypedTxn(M) /\ M.stmt = L.stmt /\ M.ops = L.ops
<1> DEFINE n == L.behind + 1
           d == L.dirty \cup W
           B == [L EXCEPT !.behind = n]
           M == [B EXCEPT !.dirty = d]
<1>1. n \in 0..MaxBehind /\ d \subseteq Keys
  BY KitTxnAssumption DEF Transactions
<1>2. B \in Transactions
  BY <1>1 DEF Transactions
<1>3. M \in Transactions
  BY <1>1, <1>2 DEF Transactions
<1>4. /\ M.snap = L.snap /\ M.staged = L.staged /\ M.view = L.view
      /\ M.stmt = L.stmt /\ M.ops = L.ops
  BY DEF Transactions
<1>5. [L EXCEPT !.behind = @ + 1, !.dirty = @ \cup W] = M
  BY DEF Transactions
<1> QED BY <1>3, <1>4, <1>5 DEF TypedTxn

LEMMA CommitTyped ==
  ASSUME TypeInv, NEW c \in Txns, Commit(c)
  PROVE  TypeInv'
<1> DEFINE W == WriteSet(txn[c].staged)
<1>1. store' \in [Keys -> Values] /\ WellTyped(store', {})
  BY InstallTyped DEF TypeInv, Commit
<1>2. W \in SUBSET Keys
  BY DEF WriteSet, TypeInv, TypeOK, Transactions
<1>3. ASSUME NEW d \in Txns
      PROVE  /\ txn'[d] \in Transactions /\ TypedTxn(txn'[d])
             /\ txn'[d].stmt # NoStatement => txn'[d].ops < MaxOps
  <2>1. /\ txn[d] \in Transactions /\ TypedTxn(txn[d])
        /\ txn[d].stmt # NoStatement => txn[d].ops < MaxOps
    BY DEF TypeInv, TypeOK
  <2>2. CASE d = c
    BY <2>2, IdleTyped DEF Commit
  <2>3. CASE d # c /\ txn[d].status = "active"
    <3> DEFINE M == [txn[d] EXCEPT !.behind = @ + 1, !.dirty = @ \cup W]
    <3>1. txn'[d] = M
      BY <2>3 DEF Commit
    <3>2. txn[d].behind < MaxBehind
      BY <2>3 DEF Commit
    <3>3. M \in Transactions /\ TypedTxn(M) /\ M.stmt = txn[d].stmt /\ M.ops = txn[d].ops
      BY <1>2, <2>1, <3>2, BehindTyped
    <3> HIDE DEF M
    <3> QED BY <2>1, <3>1, <3>3
  <2>4. CASE d # c /\ txn[d].status # "active"
    BY <2>1, <2>4 DEF Commit
  <2> QED BY <2>2, <2>3, <2>4
<1>4. txn' = [d \in Txns |-> txn'[d]]
  BY DEF Commit
<1>5. txn' \in [Txns -> Transactions]
  BY <1>3, <1>4
<1> QED BY <1>1, <1>3, <1>5 DEF TypeInv, TypeOK, WellTyped

\* A transaction that begins, begins again or ends is typed.
LEMMA AttemptTyped ==
  ASSUME TypeInv, NEW c \in Txns,
         Begin(c) \/ Conflict(c) \/ Rollback(c) \/ RollbackRetry(c)
  PROVE  TypeInv'
<1> DEFINE L == txn[c]
           Next1 == Fresh(store, L.attempt + 1)
           First == Fresh(store, 0)
<1>1. L \in Transactions
  BY DEF TypeInv, TypeOK
<1>2. First \in Transactions /\ TypedTxn(First) /\ First.stmt = NoStatement
  BY KitTxnAssumption, FreshTyped DEF TypeInv, TypeOK
<1>3. RetriesLeft(L) => Next1 \in Transactions /\ TypedTxn(Next1) /\ Next1.stmt = NoStatement
  <2>1. RetriesLeft(L) => L.attempt + 1 \in 0..MaxRetries
    BY <1>1, KitTxnAssumption DEF RetriesLeft, Transactions
  <2> QED BY <2>1, FreshTyped DEF TypeInv, TypeOK
<1>4. PICK M : /\ txn' = [txn EXCEPT ![c] = M]
               /\ M \in Transactions /\ TypedTxn(M) /\ M.stmt = NoStatement
  BY <1>2, <1>3, IdleTyped DEF Begin, Conflict, Rollback, RollbackRetry, NextAttempt
<1>5. store' = store
  BY DEF Begin, Conflict, Rollback, RollbackRetry
<1>6. txn' \in [Txns -> Transactions]
  BY <1>4 DEF TypeInv, TypeOK
<1>7. \A d \in Txns : TypedTxn(txn'[d]) /\ (txn'[d].stmt # NoStatement => txn'[d].ops < MaxOps)
  BY <1>4 DEF TypeInv, TypeOK
<1> QED BY <1>5, <1>6, <1>7 DEF TypeInv, TypeOK, WellTyped

LEMMA InitTyped == Init => TypeInv
BY IdleTyped DEF Init, TypeInv, TypeOK

LEMMA NextTyped ==
  ASSUME TypeInv, [Next]_vars
  PROVE  TypeInv'
<1>1. CASE UNCHANGED vars
  BY <1>1 DEF vars, TypeInv, TypeOK, WellTyped
<1>2. ASSUME NEW c \in Txns, Begin(c) \/ Finish(c)
      PROVE  TypeInv'
  BY <1>2, AttemptTyped, CommitTyped DEF Finish
<1>3. ASSUME NEW c \in Txns, Operation(c)
      PROVE  TypeInv'
  <2>1. \A x \in Targets : x \in RowIds
    BY KitTxnAssumption
  <2>2. CASE \E x \in Targets : \E r \in RowsOf(x[1]) :
               Insert(c, x, r) \/ Update(c, x, r) \/ UpdateFast(c, x, r) \/ UpsertAbsent(c, x, r)
    BY <2>1, <2>2, OperationTyped
  <2>3. CASE \E x \in Targets : \E r \in RowsOf(x[1]) :
               \E S \in SUBSET ColsOf[x[1]] : \E patch \in [S -> Ids \cup {Null}] :
                 UpsertExisting(c, x, r, patch)
    BY <2>1, <2>3, UpsertExistingTyped
  <2>4. CASE \E x \in Targets : Delete(c, x) \/ DeleteFast(c, x)
    BY <2>1, <2>4, RemovalTyped
  <2>5. CASE \E x \in Targets : InsertManyRow(c, x) \/ UpdateWhereRow(c, x) \/ DeleteWhereRow(c, x)
    BY <2>1, <2>5, RowOfStatementTyped
  <2>6. CASE \E t \in Tables : Truncate(c, t)
    BY <2>6, TruncateKeepsTypes
  <2>7. CASE \E t \in Tables :
               StartInsertMany(c, t) \/ StartUpdateWhere(c, t) \/ StartDeleteWhere(c, t)
    BY <2>7, StartKeepsTypes
  <2> QED BY <1>3, <2>2, <2>3, <2>4, <2>5, <2>6, <2>7 DEF Operation
<1> QED BY <1>1, <1>2, <1>3 DEF Next

\* Whatever the schema, the workload and the number of callers, every key of
\* the store, of every snapshot and of every staging holds a row of its kind,
\* and so does every row a statement has yet to write (txn.rs, all of it).
THEOREM TypeCorrect == Spec => []TypeOK
<1>1. Init => TypeInv
  BY InitTyped
<1>2. TypeInv /\ [Next]_vars => TypeInv'
  BY NextTyped
<1>3. TypeInv => TypeOK
  BY DEF TypeInv
<1> QED BY <1>1, <1>2, <1>3, PTL DEF Spec


-----------------------------------------------------------------------------
(* Keys, and what staging does to each kind.                                *)

LEMMA UniqueKeyFacts ==
  /\ UniqueKeys \subseteq GuardKeys
  /\ \A k \in UniqueKeys, x \in RowIds : k # RowKey(x) /\ k # RowGuard(x)
  /\ \A k \in GuardKeys, x \in RowIds : k # RowKey(x) /\ k # RowGuard(x)
  /\ \A x, y \in RowIds : RowKey(x) = RowKey(y) => x = y
  /\ \A x, y \in RowIds : RowKey(x) # RowGuard(y)
BY DEF UniqueKeys, GuardKeys, GuardOf, PkGuard, RowKey, RowGuard

\* A key of a row is a unique key, and determines the value and the name.
LEMMA KeysOfRows ==
  /\ \A x \in RowIds : \A r \in RowsOf(x[1]) : \A u \in UniquesOf(x[1]) :
       r[u.col] # Null => GuardOf(u, r[u.col]) \in UniqueKeys
  /\ \A u, w, v1, v2 : GuardOf(u, v1) = GuardOf(w, v2) => u.name = w.name /\ v1 = v2
  /\ \A x \in RowIds : \A k \in PkGuardOf(x) : k \notin UniqueKeys
<1>1. ASSUME NEW x \in RowIds, NEW r \in RowsOf(x[1]), NEW u \in UniquesOf(x[1]),
             r[u.col] # Null
      PROVE  GuardOf(u, r[u.col]) \in UniqueKeys
  <2>1. u \in Uniques /\ u.col \in ColsOf[x[1]]
    BY KitSchemaAssumption DEF UniquesOf, SchemaAssumption
  <2>2. r[u.col] \in Ids
    BY <1>1, <2>1 DEF RowsOf
  <2> QED BY <2>1, <2>2 DEF UniqueKeys
<1>2. \A u, w, v1, v2 : GuardOf(u, v1) = GuardOf(w, v2) => u.name = w.name /\ v1 = v2
  BY DEF GuardOf
<1>3. \A x \in RowIds : \A k \in PkGuardOf(x) : k \notin UniqueKeys
  BY DEF PkGuardOf, PkGuard, UniqueKeys, GuardOf
<1> QED BY <1>1, <1>2, <1>3

\* What is staged stays staged: the rows an effect puts are written, and a
\* transaction that cannot commit does not become one that can.
LEMMA StagedGrows ==
  ASSUME NEW L \in Transactions, NEW e, TypedEffect(e)
  PROVE  LET S == Stage(L, e)
         IN  /\ WriteSet(L.staged) \subseteq WriteSet(S.staged)
             /\ \A x \in DOMAIN e.puts : RowKey(x) \in WriteSet(S.staged)
             /\ S.snap = L.snap /\ S.dirty = L.dirty /\ S.status = L.status
<1> DEFINE S == Stage(L, e)
           deletes == {RowKey(x) : x \in e.gone} \cup e.release
<1>1. /\ S.staged = StageWrites(L.staged, EnginePuts(e), deletes)
      /\ S.snap = L.snap /\ S.dirty = L.dirty /\ S.status = L.status
  BY DEF Stage, Transactions
<1>2. \A k \in Keys : Untouched \notin Stored(k)
  BY KitTxnAssumption
     DEF Stored, RowIds, AllRows, Keys, RowKey, RowGuard, GuardKeys, PkGuard, GuardOf
<1>3. \A k \in DOMAIN EnginePuts(e) : k \in Keys /\ EnginePuts(e)[k] # Untouched
  BY <1>2, EnginePutsTyped
<1>4. DOMAIN L.staged = Keys /\ NoRow # Untouched
  BY KitTxnAssumption DEF Transactions
<1>5. \A x \in DOMAIN e.puts : RowKey(x) \in DOMAIN EnginePuts(e)
  BY DEF EnginePuts
<1> QED BY <1>1, <1>3, <1>4, <1>5 DEF StageWrites, WriteSet

\* What staging does to rows and row guards.
LEMMA StageRows ==
  ASSUME NEW L \in Transactions, NEW e, TypedEffect(e),
         \A y \in RowIds : RowKey(y) \notin e.release
  PROVE  LET S == Stage(L, e)
         IN  /\ \A y \in RowIds :
                  /\ S.staged[RowKey(y)] =
                       IF y \in DOMAIN e.puts THEN e.puts[y]
                       ELSE IF y \in e.gone /\ L.staged[RowKey(y)] = Untouched THEN NoRow
                       ELSE L.staged[RowKey(y)]
                  /\ S.view[y] = IF y \in e.gone THEN NoRow
                                 ELSE IF y \in DOMAIN e.shown THEN e.shown[y]
                                 ELSE L.view[y]
                  /\ y \in e.touch => S.staged[RowGuard(y)] # Untouched
             /\ \A k \in Keys : L.staged[k] # Untouched => S.staged[k] # Untouched
             /\ S.snap = L.snap /\ S.dirty = L.dirty
<1> DEFINE S == Stage(L, e)
           deletes == {RowKey(x) : x \in e.gone} \cup e.release
           puts == EnginePuts(e)
<1>1. /\ S.staged = StageWrites(L.staged, puts, deletes)
      /\ S.snap = L.snap /\ S.dirty = L.dirty
  BY DEF Stage, Transactions
<1>2. /\ DOMAIN L.staged = Keys
      /\ \A k \in Keys : S.staged[k] = IF k \in DOMAIN puts THEN puts[k]
                                        ELSE IF k \in deletes /\ L.staged[k] = Untouched THEN NoRow
                                        ELSE L.staged[k]
  BY <1>1 DEF StageWrites, Transactions
<1>3. ASSUME NEW y \in RowIds
      PROVE  S.staged[RowKey(y)] =
               IF y \in DOMAIN e.puts THEN e.puts[y]
               ELSE IF y \in e.gone /\ L.staged[RowKey(y)] = Untouched THEN NoRow
               ELSE L.staged[RowKey(y)]
  <2>1. RowKey(y) \in Keys
    BY KeyKinds
  <2>2. RowKey(y) \in DOMAIN puts <=> y \in DOMAIN e.puts
    BY UniqueKeyFacts DEF EnginePuts, TypedEffect
  <2>3. y \in DOMAIN e.puts => puts[RowKey(y)] = e.puts[y]
    BY DEF EnginePuts, RowKey
  <2>4. RowKey(y) \in deletes <=> y \in e.gone
    BY UniqueKeyFacts DEF TypedEffect
  <2> QED BY <1>2, <2>1, <2>2, <2>3, <2>4
<1>4. ASSUME NEW y \in RowIds
      PROVE  S.view[y] = IF y \in e.gone THEN NoRow
                         ELSE IF y \in DOMAIN e.shown THEN e.shown[y]
                         ELSE L.view[y]
  BY DEF Stage, Transactions
<1>5. ASSUME NEW y \in RowIds, y \in e.touch
      PROVE  S.staged[RowGuard(y)] # Untouched
  <2>1. RowGuard(y) \in DOMAIN puts /\ puts[RowGuard(y)] = y
    BY <1>5 DEF EnginePuts, RowGuard
  <2> QED BY <1>2, <2>1, KeyKinds, KitTxnAssumption
<1>6. \A k \in Keys : L.staged[k] # Untouched => S.staged[k] # Untouched
  <2> HIDE DEF S
  <2> QED BY <1>1, StagedGrows, <1>2 DEF WriteSet, S, StageWrites
<1> QED BY <1>1, <1>3, <1>4, <1>5, <1>6

\* What staging does to every guard and to the rows inserted.
LEMMA StageGuards ==
  ASSUME NEW L \in Transactions, NEW e, TypedEffect(e)
  PROVE  LET S == Stage(L, e)
         IN  /\ \A k \in GuardKeys : S.staged[k] =
                   IF k \in DOMAIN e.reserve THEN e.reserve[k]
                   ELSE IF k \in e.release /\ L.staged[k] = Untouched THEN NoRow
                   ELSE L.staged[k]
             /\ \A y \in RowIds : S.view[y] =
                   IF y \in e.gone THEN NoRow
                   ELSE IF y \in DOMAIN e.shown THEN e.shown[y]
                   ELSE L.view[y]
             /\ S.made = L.made \cup e.made /\ S.snap = L.snap
<1> DEFINE S == Stage(L, e)
           deletes == {RowKey(x) : x \in e.gone} \cup e.release
           puts == EnginePuts(e)
<1>1. /\ S.staged = StageWrites(L.staged, puts, deletes)
      /\ S.made = L.made \cup e.made /\ S.snap = L.snap
  BY DEF Stage, Transactions
<1>2. \A k \in Keys : S.staged[k] = IF k \in DOMAIN puts THEN puts[k]
                                    ELSE IF k \in deletes /\ L.staged[k] = Untouched THEN NoRow
                                    ELSE L.staged[k]
  BY <1>1 DEF StageWrites, Transactions
<1>3. ASSUME NEW k \in GuardKeys
      PROVE  S.staged[k] =
               IF k \in DOMAIN e.reserve THEN e.reserve[k]
               ELSE IF k \in e.release /\ L.staged[k] = Untouched THEN NoRow
               ELSE L.staged[k]
  <2>1. k \in Keys /\ k[1] \notin {"row", "rg"}
    BY KeyKinds
  <2>2. k \in DOMAIN puts <=> k \in DOMAIN e.reserve
    BY UniqueKeyFacts DEF EnginePuts, TypedEffect
  <2>3. k \in DOMAIN e.reserve => puts[k] = e.reserve[k]
    BY <2>1 DEF EnginePuts
  <2>4. k \in deletes <=> k \in e.release
    BY UniqueKeyFacts DEF TypedEffect
  <2> QED BY <1>2, <2>1, <2>2, <2>3, <2>4
<1>4. \A y \in RowIds : S.view[y] = IF y \in e.gone THEN NoRow
                                    ELSE IF y \in DOMAIN e.shown THEN e.shown[y]
                                    ELSE L.view[y]
  BY DEF Stage, Transactions
<1> QED BY <1>1, <1>3, <1>4

\* The rows an effect writes.
RowsOfEffect(e) == DOMAIN e.shown \cup e.gone

\* The part of an effect that the unique keys depend on: the rows it writes
\* are new to the transaction; it reserves a key only for a row it writes and
\* that no other row owns; it gives up only guards of rows it writes; every
\* key of a row it puts is reserved, or was owned by that row and is left alone.
SafeEffect(L, e) ==
  /\ DOMAIN e.puts = DOMAIN e.shown
  /\ \A y \in RowsOfEffect(e) : L.view[y] = Untouched
  /\ \A y \in RowIds : RowKey(y) \notin e.release
  /\ \A k \in UniqueKeys : k \in DOMAIN e.reserve =>
       /\ e.reserve[k] \in DOMAIN e.puts
       /\ L.snap[k] \in {NoRow, e.reserve[k]}
       /\ L.reserved[k] \in {NoRow, e.reserve[k]} \/ L.snap[k] = e.reserve[k]
       /\ k \in e.forget => L.snap[k] = e.reserve[k]
  /\ \A k \in UniqueKeys : k \in e.release => L.snap[k] \in RowsOfEffect(e)
  /\ \A k \in UniqueKeys : k \in e.forget =>
       L.reserved[k] \in RowsOfEffect(e) \/ L.snap[k] \in RowsOfEffect(e)
  /\ \A y \in DOMAIN e.puts : \A u \in UniquesOf(y[1]) :
       LET v == e.puts[y][u.col]
           k == GuardOf(u, v)
       IN  v # Null => \/ k \in DOMAIN e.reserve /\ e.reserve[k] = y
                       \/ /\ k \notin DOMAIN e.reserve /\ k \notin e.release
                          /\ L.snap[RowKey(y)] # NoRow
                          /\ L.snap[RowKey(y)][u.col] = v

\* What staging a safe effect does to the keys of rows, to unique keys, to the
\* replay and to the reservations.
LEMMA StageFacts ==
  ASSUME NEW L \in Transactions, NEW e, TypedEffect(e), SafeEffect(L, e)
  PROVE  LET S == Stage(L, e)
         IN  /\ \A y \in RowIds : S.staged[RowKey(y)] =
                   IF y \in DOMAIN e.puts THEN e.puts[y]
                   ELSE IF y \in e.gone /\ L.staged[RowKey(y)] = Untouched THEN NoRow
                   ELSE L.staged[RowKey(y)]
             /\ \A k \in UniqueKeys : S.staged[k] =
                   IF k \in DOMAIN e.reserve THEN e.reserve[k]
                   ELSE IF k \in e.release /\ L.staged[k] = Untouched THEN NoRow
                   ELSE L.staged[k]
             /\ \A y \in RowIds : S.view[y] =
                   IF y \in e.gone THEN NoRow
                   ELSE IF y \in DOMAIN e.shown THEN e.shown[y]
                   ELSE L.view[y]
             /\ \A k \in UniqueKeys : S.reserved[k] =
                   IF k \in e.forget THEN NoRow
                   ELSE IF k \in DOMAIN e.reserve THEN e.reserve[k]
                   ELSE L.reserved[k]
             /\ S.snap = L.snap /\ S.dirty = L.dirty /\ S.status = L.status
<1> DEFINE S == Stage(L, e)
<1>1. \A y \in RowIds : RowKey(y) \notin e.release
  BY DEF SafeEffect
<1>2. /\ \A y \in RowIds : S.staged[RowKey(y)] =
           IF y \in DOMAIN e.puts THEN e.puts[y]
           ELSE IF y \in e.gone /\ L.staged[RowKey(y)] = Untouched THEN NoRow
           ELSE L.staged[RowKey(y)]
      /\ \A y \in RowIds : S.view[y] =
           IF y \in e.gone THEN NoRow
           ELSE IF y \in DOMAIN e.shown THEN e.shown[y]
           ELSE L.view[y]
      /\ S.snap = L.snap /\ S.dirty = L.dirty
  BY <1>1, StageRows
<1>3. \A k \in UniqueKeys : S.staged[k] =
         IF k \in DOMAIN e.reserve THEN e.reserve[k]
         ELSE IF k \in e.release /\ L.staged[k] = Untouched THEN NoRow
         ELSE L.staged[k]
  BY StageGuards, UniqueKeyFacts
<1>4. \A k \in UniqueKeys : S.reserved[k] = IF k \in e.forget THEN NoRow
                                            ELSE IF k \in DOMAIN e.reserve THEN e.reserve[k]
                                            ELSE L.reserved[k]
  BY UniqueKeyFacts DEF Stage, Transactions
<1>5. S.status = L.status
  BY DEF Stage, Transactions
<1> QED BY <1>2, <1>3, <1>4, <1>5

-----------------------------------------------------------------------------
(* Staging a safe effect keeps the invariant of the transaction.            *)

LEMMA StageSafe ==
  ASSUME NEW L \in Transactions, TypedTxn(L), CompleteIn(L.snap), GuardsOf(L),
         NEW e, TypedEffect(e), SafeEffect(L, e)
  PROVE  GuardsOf(Stage(L, e))
<1> DEFINE S == Stage(L, e)
           R == RowsOfEffect(e)
<1>1. \A y \in R : y \in RowIds /\ ~Written(L, y)
  BY DEF RowsOfEffect, TypedEffect, SafeEffect, GuardsOf, WritesShown
<1>2. /\ \A y \in RowIds : y # NoRow /\ y # Untouched
      /\ \A y \in DOMAIN e.puts : y \in RowIds /\ e.puts[y] # Untouched
  BY RowsAreNotNoRow, KitSchemaAssumption, KitTxnAssumption DEF SchemaAssumption, TypedEffect
<1>3. \A y \in RowIds : S.staged[RowKey(y)] =
         IF y \in DOMAIN e.puts THEN e.puts[y]
         ELSE IF y \in e.gone /\ L.staged[RowKey(y)] = Untouched THEN NoRow
         ELSE L.staged[RowKey(y)]
  BY StageFacts
<1>4. \A k \in UniqueKeys : S.staged[k] =
         IF k \in DOMAIN e.reserve THEN e.reserve[k]
         ELSE IF k \in e.release /\ L.staged[k] = Untouched THEN NoRow
         ELSE L.staged[k]
  BY StageFacts
<1>5. \A y \in RowIds : S.view[y] = IF y \in e.gone THEN NoRow
                                    ELSE IF y \in DOMAIN e.shown THEN e.shown[y]
                                    ELSE L.view[y]
  BY StageFacts
<1>6. \A k \in UniqueKeys : S.reserved[k] = IF k \in e.forget THEN NoRow
                                            ELSE IF k \in DOMAIN e.reserve THEN e.reserve[k]
                                            ELSE L.reserved[k]
  BY StageFacts
<1>7. S.snap = L.snap
  BY StageFacts
<1> DEFINE Safe == /\ DOMAIN e.puts = DOMAIN e.shown
                   /\ R = DOMAIN e.puts \cup e.gone
<1>8. Safe
  BY DEF SafeEffect, RowsOfEffect
<1>9. NoRow # Untouched
  BY KitTxnAssumption
<1>10. /\ \A y \in R : Written(S, y) /\ S.view[y] # Untouched
       /\ \A y \in RowIds : Written(L, y) => Written(S, y)
       /\ \A y \in RowIds \ R : S.staged[RowKey(y)] = L.staged[RowKey(y)] /\ S.view[y] = L.view[y]
  <2>1. \A y \in DOMAIN e.shown : e.shown[y] # Untouched
    BY RowsAreNotNoRow DEF TypedEffect
  <2> HIDE DEF S
  <2> QED BY <1>1, <1>2, <1>3, <1>5, <1>8, <1>9, <2>1 DEF Written
<1> HIDE DEF S
<1>11. WritesShown(S)
  BY <1>10 DEF GuardsOf, WritesShown, Written
<1>12. GuardsLost(S)
  <2> SUFFICES ASSUME NEW k \in UniqueKeys, NEW x \in RowIds,
                      L.snap[k] = x, S.staged[k] \notin {Untouched, x}
               PROVE  Written(S, x)
    BY <1>7 DEF GuardsLost
  <2>1. CASE k \in DOMAIN e.reserve
    BY <1>2, <1>4, <2>1 DEF SafeEffect
  <2>2. CASE k \notin DOMAIN e.reserve /\ k \in e.release
    BY <1>10, <2>2 DEF SafeEffect
  <2>3. CASE k \notin DOMAIN e.reserve /\ k \notin e.release
    BY <1>4, <1>10, <2>3 DEF GuardsOf, GuardsLost
  <2> QED BY <2>1, <2>2, <2>3
<1>13. GuardsReserved(S)
  <2> SUFFICES ASSUME NEW k \in UniqueKeys, NEW x \in RowIds, S.staged[k] = x
               PROVE  S.reserved[k] = x \/ L.snap[k] = x
    BY <1>7 DEF GuardsReserved
  <2>1. CASE k \in DOMAIN e.reserve
    BY <1>4, <1>6, <2>1 DEF SafeEffect
  <2>2. CASE k \notin DOMAIN e.reserve
    <3>1. L.staged[k] = x
      BY <1>2, <1>4, <2>2
    <3>2. L.reserved[k] = x \/ L.snap[k] = x
      BY <3>1 DEF GuardsOf, GuardsReserved
    <3>3. ASSUME k \in e.forget, L.reserved[k] = x, L.snap[k] # x
          PROVE  FALSE
      <4>1. CASE L.reserved[k] \in R
        BY <3>3, <4>1 DEF SafeEffect, GuardsOf, ReservedByWriters
      <4>2. CASE L.snap[k] \in R
        <5>1. Written(L, L.snap[k])
          BY <1>1, <1>2, <3>1, <3>3, <4>2 DEF GuardsOf, GuardsLost
        <5> QED BY <1>1, <4>2, <5>1
      <4> QED BY <3>3, <4>1, <4>2 DEF SafeEffect
    <3> QED BY <1>6, <2>2, <3>2, <3>3
  <2> QED BY <2>1, <2>2
<1>14. ReservedByWriters(S)
  <2> SUFFICES ASSUME NEW k \in UniqueKeys, NEW x \in RowIds, S.reserved[k] = x
               PROVE  S.view[x] # Untouched
    BY DEF ReservedByWriters
  <2>1. CASE k \in DOMAIN e.reserve /\ k \notin e.forget
    BY <1>6, <1>8, <1>10, <2>1 DEF SafeEffect
  <2>2. CASE k \notin DOMAIN e.reserve /\ k \notin e.forget
    BY <1>6, <1>10, <2>2 DEF GuardsOf, ReservedByWriters
  <2> QED BY <1>2, <1>6, <2>1, <2>2
<1>15. GuardsStaged(S)
  <2> SUFFICES ASSUME NEW x \in RowIds, S.staged[RowKey(x)] \notin {Untouched, NoRow},
                      NEW u \in UniquesOf(x[1]), S.staged[RowKey(x)][u.col] # Null
               PROVE  LET v == S.staged[RowKey(x)][u.col]
                          k == GuardOf(u, v)
                      IN  \/ S.staged[k] = x
                          \/ /\ S.staged[k] = Untouched
                             /\ L.snap[RowKey(x)] # NoRow
                             /\ L.snap[RowKey(x)][u.col] = v
    BY <1>7 DEF GuardsStaged
  <2> DEFINE v == S.staged[RowKey(x)][u.col]
             k == GuardOf(u, v)
             Had == L.snap[RowKey(x)] # NoRow /\ L.snap[RowKey(x)][u.col] = v
  <2>1. CASE x \in DOMAIN e.puts
    <3>1. v = e.puts[x][u.col] /\ e.puts[x] \in RowsOf(x[1])
      BY <1>3, <2>1 DEF TypedEffect
    <3>2. k \in UniqueKeys
      BY <3>1, KeysOfRows
    <3>3. \/ k \in DOMAIN e.reserve /\ e.reserve[k] = x
          \/ k \notin DOMAIN e.reserve /\ k \notin e.release /\ Had
      BY <2>1, <3>1 DEF SafeEffect
    <3>4. CASE k \in DOMAIN e.reserve /\ e.reserve[k] = x
      BY <1>4, <3>2, <3>4
    <3>5. CASE k \notin DOMAIN e.reserve /\ k \notin e.release /\ Had
      <4>1. L.snap[k] = x
        BY <3>5 DEF CompleteIn, OwnsItsKeys
      <4>2. S.staged[k] = L.staged[k]
        BY <1>4, <3>2, <3>5
      <4>3. L.staged[k] \in {Untouched, x}
        BY <1>1, <1>8, <2>1, <3>2, <4>1 DEF GuardsOf, GuardsLost
      <4> QED BY <3>5, <4>2, <4>3
    <3> QED BY <3>3, <3>4, <3>5
  <2>2. CASE x \notin DOMAIN e.puts
    <3>1. x \notin R
      BY <1>1, <1>3, <1>8, <2>2 DEF Written
    <3>2. S.staged[RowKey(x)] = L.staged[RowKey(x)]
      BY <1>10, <3>1
    <3>3. L.staged[k] = x \/ (L.staged[k] = Untouched /\ Had)
      BY <3>2 DEF GuardsOf, GuardsStaged
    <3>4. k \in UniqueKeys
      <4>1. L.staged[RowKey(x)] \in RowsOf(x[1])
        BY <3>2, KeyKinds DEF TypedTxn, WellTyped
      <4> QED BY <3>2, <4>1, KeysOfRows
    <3>5. CASE L.staged[k] = x
      <4>1. ASSUME k \in DOMAIN e.reserve
            PROVE  FALSE
        <5> DEFINE z == e.reserve[k]
        <5>1. z \in R /\ z # x
          BY <1>8, <3>1, <3>4, <4>1 DEF SafeEffect
        <5>2. L.snap[k] = z
          BY <1>2, <3>4, <3>5, <4>1, <5>1 DEF SafeEffect, GuardsOf, GuardsReserved
        <5>3. Written(L, z)
          BY <1>1, <1>2, <3>4, <3>5, <5>1, <5>2 DEF GuardsOf, GuardsLost
        <5> QED BY <1>1, <5>1, <5>3
      <4> QED BY <1>2, <1>4, <3>4, <3>5, <4>1
    <3>6. CASE L.staged[k] = Untouched /\ Had
      <4>1. L.snap[k] = x
        BY <3>6 DEF CompleteIn, OwnsItsKeys
      <4>2. k \notin e.release
        BY <3>1, <3>4, <4>1 DEF SafeEffect
      <4>3. k \in DOMAIN e.reserve => e.reserve[k] = x
        BY <1>2, <3>4, <4>1 DEF SafeEffect
      <4> QED BY <1>4, <3>4, <3>6, <4>2, <4>3
    <3> QED BY <3>3, <3>5, <3>6
  <2> QED BY <2>1, <2>2
<1> QED BY <1>11, <1>12, <1>13, <1>14, <1>15 DEF GuardsOf, S

-----------------------------------------------------------------------------
(* The effects of the operations are safe.                                  *)

\* The keys a row needs are guards of its non-null values, all of them when
\* there is no row before it; those it gives up are guards the old row owned.
LEMMA KeysForFacts ==
  ASSUME NEW s, CompleteIn(s), DistinctNames, NEW x \in RowIds,
         NEW r \in RowsOf(x[1]), NEW old \in RowsOf(x[1]) \cup {NoRow},
         old = NoRow \/ old = s[RowKey(x)]
  PROVE  /\ \A k \in StaleKeys(x, r, old) : s[k] = x
         /\ \A u \in UniquesOf(x[1]) : r[u.col] # Null =>
              \/ GuardOf(u, r[u.col]) \in KeysFor(x, r, old)
              \/ /\ GuardOf(u, r[u.col]) \notin StaleKeys(x, r, old)
                 /\ s[RowKey(x)] # NoRow /\ s[RowKey(x)][u.col] = r[u.col]
<1>1. \A k \in StaleKeys(x, r, old) : s[k] = x
  BY DEF StaleKeys, CompleteIn, OwnsItsKeys
<1>2. ASSUME NEW u \in UniquesOf(x[1]), r[u.col] # Null,
             GuardOf(u, r[u.col]) \notin KeysFor(x, r, old)
      PROVE  /\ GuardOf(u, r[u.col]) \notin StaleKeys(x, r, old)
             /\ s[RowKey(x)] # NoRow /\ s[RowKey(x)][u.col] = r[u.col]
  <2>1. old # NoRow /\ old[u.col] = r[u.col]
    BY <1>2 DEF KeysFor, Changed
  <2>2. ASSUME NEW w \in UniquesOf(x[1]), old[w.col] # r[w.col],
               GuardOf(u, r[u.col]) = GuardOf(w, old[w.col])
        PROVE  FALSE
    <3>1. u = w
      BY <2>2, KeysOfRows DEF DistinctNames, UniquesOf
    <3> QED BY <2>1, <2>2, <3>1
  <2> QED BY <2>1, <2>2 DEF StaleKeys
<1> QED BY <1>1, <1>2

LEMMA WriteRowSafe ==
  ASSUME NEW L \in Transactions, CompleteIn(L.snap), DistinctNames,
         NEW x \in RowIds, NEW r \in RowsOf(x[1]),
         NEW old \in RowsOf(x[1]) \cup {NoRow},
         old = NoRow \/ old = L.snap[RowKey(x)],
         L.view[x] = Untouched, KeysFree(L, x, r, old)
  PROVE  SafeEffect(L, WriteRow(L, x, r, old))
<1> DEFINE e == WriteRow(L, x, r, old)
           need == KeysFor(x, r, old)
           stale == StaleKeys(x, r, old)
<1>1. /\ e.puts = [y \in {x} |-> r] /\ e.shown = [y \in {x} |-> r] /\ e.gone = {}
      /\ e.reserve = [k \in need |-> x] /\ e.forget = stale
      /\ e.release = {k \in stale : L.snap[k] # NoRow}
  BY DEF WriteRow, NoEffect
<1>2. need \subseteq GuardKeys /\ stale \subseteq GuardKeys
  BY KeysAreGuards
<1>3. \A k \in stale : L.snap[k] = x
  BY KeysForFacts
<1>4. \A u \in UniquesOf(x[1]) : r[u.col] # Null =>
         \/ GuardOf(u, r[u.col]) \in need
         \/ /\ GuardOf(u, r[u.col]) \notin stale
            /\ L.snap[RowKey(x)] # NoRow /\ L.snap[RowKey(x)][u.col] = r[u.col]
  BY KeysForFacts
<1>5. \A k \in need : L.snap[k] \in {NoRow, x} /\ L.reserved[k] \in {NoRow, x}
  BY DEF KeysFree
<1>6. \A y \in RowIds : RowKey(y) \notin e.release
  BY <1>1, <1>2, UniqueKeyFacts
<1>7. \A y \in DOMAIN e.puts : \A u \in UniquesOf(y[1]) :
        e.puts[y][u.col] # Null =>
          LET k == GuardOf(u, e.puts[y][u.col])
          IN  \/ k \in DOMAIN e.reserve /\ e.reserve[k] = y
              \/ /\ k \notin DOMAIN e.reserve /\ k \notin e.release
                 /\ L.snap[RowKey(y)] # NoRow
                 /\ L.snap[RowKey(y)][u.col] = e.puts[y][u.col]
  BY <1>1, <1>4
<1>8. SafeEffect(L, e)
  <2> HIDE DEF e
  <2> QED BY <1>1, <1>3, <1>5, <1>6, <1>7 DEF SafeEffect, RowsOfEffect
<1> QED BY <1>8

\* An insert also reserves the guard of a composite key, which is no unique key.
LEMMA InsertRowSafe ==
  ASSUME NEW L \in Transactions, CompleteIn(L.snap), DistinctNames,
         NEW x \in RowIds, NEW r \in RowsOf(x[1]),
         L.view[x] = Untouched, KeysFree(L, x, r, NoRow)
  PROVE  SafeEffect(L, InsertRow(L, x, r))
<1> DEFINE w == WriteRow(L, x, r, NoRow)
           e == InsertRow(L, x, r)
<1>1. SafeEffect(L, w)
  BY WriteRowSafe
<1>2. /\ e.puts = w.puts /\ e.shown = w.shown /\ e.gone = w.gone
      /\ e.forget = w.forget /\ e.release = w.release
      /\ w.reserve = [k \in KeysFor(x, r, NoRow) |-> x]
      /\ e.reserve = [k \in KeysFor(x, r, NoRow) \cup PkGuardOf(x) |-> x]
  BY DEF InsertRow, WriteRow, NoEffect
<1>3. \A k \in UniqueKeys : /\ k \in DOMAIN e.reserve <=> k \in DOMAIN w.reserve
                            /\ k \in DOMAIN w.reserve => e.reserve[k] = w.reserve[k]
  BY <1>2, KeysOfRows
<1>4. \A y \in DOMAIN e.puts : \A u \in UniquesOf(y[1]) :
        e.puts[y][u.col] # Null => GuardOf(u, e.puts[y][u.col]) \in UniqueKeys
  BY KeysOfRows DEF InsertRow, WriteRow, NoEffect
<1>5. SafeEffect(L, e)
  <2> HIDE DEF w, e
  <2> QED BY <1>1, <1>2, <1>3, <1>4 DEF SafeEffect, RowsOfEffect
<1> QED BY <1>5

\* The fast paths serve tables without unique constraints.
LEMMA FastSafe ==
  ASSUME NEW L, NEW x \in RowIds, NEW r, L.view[x] = Untouched, UniquesOf(x[1]) = {}
  PROVE  /\ SafeEffect(L, [NoEffect EXCEPT !.puts = [y \in {x} |-> r],
                                           !.shown = [y \in {x} |-> r]])
         /\ SafeEffect(L, [NoEffect EXCEPT !.gone = {x}])
BY DEF SafeEffect, RowsOfEffect, NoEffect, Nothing

LEMMA TruncateSafe ==
  ASSUME NEW L \in Transactions, NEW t \in Tables, ~HasStaged(L, t)
  PROVE  SafeEffect(L, TruncateTable(L, t))
<1> DEFINE e == TruncateTable(L, t)
           gone == {x \in RowIds : x[1] = t}
<1>1. /\ e.puts = Nothing /\ e.shown = Nothing /\ e.reserve = Nothing /\ e.gone = gone
      /\ e.release = CommittedGuards(L, gone)
                       \cup {RowGuard(x) : x \in {y \in gone : L.snap[RowGuard(y)] # NoRow}}
      /\ e.forget = Reservations(L, gone)
  BY DEF TruncateTable, NoEffect
<1>2. \A x \in gone : L.view[x] = Untouched
  BY DEF HasStaged, RowIds
<1>3. \A k \in UniqueKeys : k \in e.release => L.snap[k] \in gone
  BY <1>1, UniqueKeyFacts DEF CommittedGuards
<1>4. \A y \in RowIds : RowKey(y) \notin e.release
  BY <1>1, UniqueKeyFacts DEF CommittedGuards
<1> QED BY <1>1, <1>2, <1>3, <1>4 DEF SafeEffect, RowsOfEffect, Reservations, Nothing

LEMMA DeleteRowSafe ==
  ASSUME TypeOK, NEW c \in Txns, CompleteIn(txn[c].snap), NEW x \in RowIds,
         NEW pick \in Picks(RefsFound(txn[c], x), x),
         \A y \in RowsOfEffect(DeleteRow(txn[c], x, RefsFound(txn[c], x), pick)) :
           txn[c].view[y] = Untouched
  PROVE  SafeEffect(txn[c], DeleteRow(txn[c], x, RefsFound(txn[c], x), pick))
<1> DEFINE L     == txn[c]
           refs  == RefsFound(L, x)
           cut   == DOMAIN pick
           kept  == [y \in cut |-> Nulled(L, pick[y], y)]
           keys(y) == KeysFor(y, kept[y], NoRow) \cup PkGuardOf(y)
           guard == UNION {keys(y) : y \in cut}
           owner == [k \in guard |-> CHOOSE y \in cut : k \in keys(y)]
           gone  == {x} \cup {y \in Reach(refs, x) : y[1] # x[1]}
           e     == DeleteRow(L, x, refs, pick)
<1>1. /\ e.puts = kept /\ e.shown = kept /\ e.gone = gone /\ e.reserve = owner
      /\ e.release = CommittedGuards(L, cut \cup gone)
      /\ e.forget = (Reservations(L, cut \cup gone) \ guard) \cup {k \in guard : owner[k] \in gone}
  BY DEF DeleteRow, NoEffect
<1>2. RowsOfEffect(e) = cut \cup gone
  BY <1>1 DEF RowsOfEffect
<1>3. \A h \in refs : /\ h[1] \in FKs /\ h[3] \in RowIds /\ h[3][1] = h[1].child
                      /\ Visible(L, h[3]) # NoRow
  BY ReferencesAreRows DEF RefsFound
<1>4. ASSUME NEW y \in cut
      PROVE  /\ y \in RowIds /\ L.snap[RowKey(y)] \in RowsOf(y[1]) /\ L.snap[RowKey(y)] # NoRow
             /\ kept[y] = [L.snap[RowKey(y)] EXCEPT ![pick[y].col] = Null]
  <2>1. \E h \in Cut(refs, x) : h[1] = pick[y] /\ h[3] = y
    BY DEF Picks
  <2>2. y \in RowIds /\ Visible(L, y) # NoRow
    BY <1>3, <2>1 DEF Cut, By
  <2>3. L.view[y] = Untouched
    BY <1>2
  <2>4. Visible(L, y) = L.snap[RowKey(y)]
    BY <2>3 DEF Visible
  <2> QED BY <2>2, <2>4, ReadsTyped DEF Nulled
<1>5. ASSUME NEW y \in cut, NEW k \in KeysFor(y, kept[y], NoRow)
      PROVE  L.snap[k] = y
  <2>1. PICK u \in UniquesOf(y[1]) : kept[y][u.col] # Null /\ k = GuardOf(u, kept[y][u.col])
    BY DEF KeysFor, Changed
  <2>2. u.col \in ColsOf[y[1]]
    BY KitSchemaAssumption DEF UniquesOf, SchemaAssumption
  <2>3. kept[y][u.col] = L.snap[RowKey(y)][u.col]
    BY <1>4, <2>1, <2>2 DEF RowsOf
  <2> QED BY <1>4, <2>1, <2>3 DEF CompleteIn, OwnsItsKeys
<1>6. ASSUME NEW k \in UniqueKeys, k \in guard
      PROVE  owner[k] \in cut /\ L.snap[k] = owner[k]
  <2>1. owner[k] \in cut /\ k \in keys(owner[k])
    BY <1>6
  <2>2. owner[k] \in RowIds
    BY <1>4, <2>1
  <2>3. k \in KeysFor(owner[k], kept[owner[k]], NoRow)
    BY <2>1, <2>2, KeysOfRows
  <2> QED BY <1>5, <2>1, <2>3
<1>7. ASSUME NEW y \in cut, NEW u \in UniquesOf(y[1]), kept[y][u.col] # Null
      PROVE  GuardOf(u, kept[y][u.col]) \in guard /\ owner[GuardOf(u, kept[y][u.col])] = y
  <2> DEFINE k == GuardOf(u, kept[y][u.col])
  <2>1. k \in KeysFor(y, kept[y], NoRow)
    BY <1>7 DEF KeysFor, Changed
  <2>2. kept[y] \in RowsOf(y[1])
    <3> DEFINE r == L.snap[RowKey(y)]
    <3>1. r \in [ColsOf[y[1]] -> Ids \cup {Null}] /\ kept[y] = [r EXCEPT ![pick[y].col] = Null]
      BY <1>4 DEF RowsOf
    <3> HIDE DEF r, kept
    <3> QED BY <3>1 DEF RowsOf
  <2>3. k \in UniqueKeys
    BY <1>4, <1>7, <2>2, KeysOfRows
  <2>4. L.snap[k] = y
    BY <1>5, <2>1
  <2> QED BY <1>6, <2>1, <2>3, <2>4
<1>8. \A y \in RowIds : RowKey(y) \notin e.release
  BY <1>1, UniqueKeyFacts DEF CommittedGuards
<1>9. \A k \in e.release : L.snap[k] \in cut \cup gone
  BY <1>1 DEF CommittedGuards
<1>10. \A k \in UniqueKeys : k \in e.forget =>
         L.reserved[k] \in cut \cup gone \/ (k \in guard /\ L.snap[k] \in cut \cup gone)
  BY <1>1, <1>6 DEF Reservations
<1>11. DOMAIN owner = guard /\ DOMAIN kept = cut
  OBVIOUS
<1>12. \A y \in cut \cup gone : L.view[y] = Untouched
  BY <1>2
<1>13. SafeEffect(L, e)
  <2> HIDE DEF e, owner, kept, guard, gone, L
  <2>1. DOMAIN e.puts = DOMAIN e.shown /\ \A y \in RowsOfEffect(e) : L.view[y] = Untouched
    BY <1>1, <1>2, <1>12
  <2>2. \A k \in UniqueKeys : k \in DOMAIN e.reserve =>
          e.reserve[k] \in DOMAIN e.puts /\ L.snap[k] = e.reserve[k]
    BY <1>1, <1>6, <1>11
  <2>3. \A k \in UniqueKeys : k \in e.release => L.snap[k] \in RowsOfEffect(e)
    BY <1>2, <1>9
  <2>4. \A k \in UniqueKeys : k \in e.forget =>
          L.reserved[k] \in RowsOfEffect(e) \/ L.snap[k] \in RowsOfEffect(e)
    BY <1>2, <1>10
  <2>5. \A y \in DOMAIN e.puts : \A u \in UniquesOf(y[1]) :
          e.puts[y][u.col] # Null => /\ GuardOf(u, e.puts[y][u.col]) \in DOMAIN e.reserve
                                     /\ e.reserve[GuardOf(u, e.puts[y][u.col])] = y
    BY <1>1, <1>7, <1>11
  <2> QED BY <1>8, <2>1, <2>2, <2>3, <2>4, <2>5 DEF SafeEffect
<1> QED BY <1>13

-----------------------------------------------------------------------------
(* Steps of one transaction.                                                *)

UniqueInv == TypeInv /\ UniquenessInv

\* The invariant says nothing new of a transaction that keeps what the
\* invariant speaks of.
LEMMA GuardsOfSame ==
  ASSUME NEW L, NEW M, GuardsOf(L), M.staged = L.staged, M.view = L.view,
         M.snap = L.snap, M.reserved = L.reserved
  PROVE  GuardsOf(M)
BY DEF GuardsOf, WritesShown, GuardsLost, GuardsStaged, GuardsReserved,
       ReservedByWriters, Written

\* An operation whose effect is safe, if the transaction can still commit,
\* keeps the invariant.
LEMMA PerformSafe ==
  ASSUME UniqueInv, NEW c \in Txns, txn[c].status = "active",
         NEW e, TypedEffect(e), NEW stmt, Perform(c, e, stmt),
         ~Conflicts(Stage(txn[c], e)) => SafeEffect(txn[c], e)
  PROVE  UniquenessInv'
<1> DEFINE L == txn[c]
           S == Stage(L, e)
           T == Done(L, e, stmt)
<1>1. L \in Transactions /\ TypedTxn(L) /\ SnapshotCurrent(L) /\ (~Conflicts(L) => GuardsOf(L))
  BY DEF UniqueInv, TypeInv, TypeOK, UniquenessInv
<1>2. S \in Transactions
  BY <1>1, StageTyped
<1>3. /\ T.staged = S.staged /\ T.view = S.view /\ T.snap = S.snap
      /\ T.reserved = S.reserved /\ T.dirty = S.dirty
  BY <1>2 DEF Done, Transactions
<1>4. S.snap = L.snap /\ S.dirty = L.dirty
  BY <1>1, StagedGrows
<1>5. Conflicts(L) => Conflicts(S)
  BY <1>1, <1>4, StagedGrows DEF Conflicts
<1>6. ~Conflicts(S) => GuardsOf(S)
  BY <1>1, <1>5, StageSafe DEF SnapshotCurrent
<1>7. ~Conflicts(T) => GuardsOf(T)
  <2> HIDE DEF S, T
  <2> QED BY <1>3, <1>6, GuardsOfSame DEF Conflicts
<1>8. SnapshotCurrent(T)
  <2> HIDE DEF S, T
  <2> QED BY <1>1, <1>3, <1>4 DEF SnapshotCurrent
<1>9. store' = store /\ txn'[c] = T /\ \A d \in Txns \ {c} : txn'[d] = txn[d]
  BY DEF Perform, UniqueInv, TypeInv, TypeOK
<1> HIDE DEF S, T
<1>10. ASSUME NEW d \in Txns, txn'[d].status = "active"
       PROVE  SnapshotCurrent(txn[d])' /\ (~Conflicts(txn'[d]) => GuardsOf(txn'[d]))
  <2>1. CASE d = c
    BY <1>7, <1>8, <1>9, <2>1 DEF SnapshotCurrent
  <2>2. CASE d # c
    BY <1>9, <1>10, <2>2 DEF UniqueInv, UniquenessInv, SnapshotCurrent
  <2> QED BY <2>1, <2>2
<1>11. CompleteIn(store)'
  BY <1>9 DEF UniqueInv, UniquenessInv, CompleteIn, OwnsItsKeys
<1> QED BY <1>10, <1>11 DEF UniquenessInv, Conflicts, GuardsOf

\* A row the transaction has not written: what the Kit reads of it is the
\* snapshot, or the transaction can no longer commit once it writes the row.
LEMMA OldRow ==
  ASSUME UniqueInv, NEW c \in Txns, txn[c].status = "active",
         NEW x \in RowIds, txn[c].view[x] = Untouched
  PROVE  /\ Visible(txn[c], x) = txn[c].snap[RowKey(x)]
         /\ \/ RowKey(x) \in txn[c].dirty
            \/ ReadByPk(txn[c], x) = txn[c].snap[RowKey(x)]
<1>1. SnapshotCurrent(txn[c]) /\ RowKey(x) \in Keys
  BY KeyKinds DEF UniqueInv, UniquenessInv
<1> QED BY <1>1 DEF Visible, ReadByPk, SnapshotCurrent

\* insert and one row of insert_many.
LEMMA InsertKeepsKeys ==
  ASSUME UniqueInv, DistinctNames, Revisit = FALSE,
         NEW c \in Txns, NEW x \in RowIds, NEW r \in RowsOf(x[1]), NEW stmt,
         txn[c].status = "active", KeysFree(txn[c], x, r, NoRow),
         Perform(c, InsertRow(txn[c], x, r), stmt)
  PROVE  UniquenessInv'
<1> DEFINE e == InsertRow(txn[c], x, r)
<1>1. TypedEffect(e)
  BY InsertRowTyped
<1>2. DOMAIN e.shown = {x}
  BY DEF InsertRow, WriteRow, NoEffect
<1>3. txn[c].view[x] = Untouched
  BY <1>2 DEF Perform, MayWrite
<1>4. SafeEffect(txn[c], e)
  BY <1>3, InsertRowSafe DEF UniqueInv, TypeInv, TypeOK, UniquenessInv, SnapshotCurrent
<1> QED BY <1>1, <1>4, PerformSafe

\* update and one row of update_where.
LEMMA UpdateKeepsKeys ==
  ASSUME UniqueInv, DistinctNames, Revisit = FALSE,
         NEW c \in Txns, NEW x \in RowIds, NEW r \in RowsOf(x[1]), NEW stmt,
         txn[c].status = "active",
         NEW old \in {ReadByPk(txn[c], x), Visible(txn[c], x)},
         KeysFree(txn[c], x, r, old),
         Perform(c, WriteRow(txn[c], x, r, old), stmt)
  PROVE  UniquenessInv'
<1> DEFINE L == txn[c]
           e == WriteRow(L, x, r, old)
<1>1. old \in RowsOf(x[1]) \cup {NoRow}
  BY ReadsTyped DEF UniqueInv, TypeInv
<1>2. TypedEffect(e) /\ DOMAIN e.shown = {x} /\ DOMAIN e.puts = {x}
  BY <1>1, WriteRowTyped DEF WriteRow, NoEffect
<1>3. L.view[x] = Untouched
  BY <1>2 DEF Perform, MayWrite
<1>4. L \in Transactions /\ CompleteIn(L.snap)
  BY DEF UniqueInv, TypeInv, TypeOK, UniquenessInv, SnapshotCurrent
<1>5. ASSUME ~Conflicts(Stage(L, e))
      PROVE  SafeEffect(L, e)
  <2>1. RowKey(x) \notin L.dirty
    <3> HIDE DEF e
    <3> QED BY <1>2, <1>4, <1>5, StagedGrows DEF Conflicts
  <2>2. old = L.snap[RowKey(x)]
    BY <1>3, <2>1, OldRow
  <2> QED BY <1>1, <1>3, <1>4, <2>2, WriteRowSafe
<1> QED BY <1>2, <1>5, PerformSafe

\* The fast paths.
LEMMA FastKeepsKeys ==
  ASSUME UniqueInv, Revisit = FALSE, NEW c \in Txns, NEW x \in RowIds,
         \/ \E r \in RowsOf(x[1]) : UpdateFast(c, x, r)
         \/ DeleteFast(c, x)
  PROVE  UniquenessInv'
<1>1. txn[c].status = "active" /\ UniquesOf(x[1]) = {}
  BY DEF UpdateFast, DeleteFast, Running, FastUpdate, FastDelete
<1>2. ASSUME NEW r \in RowsOf(x[1]), UpdateFast(c, x, r)
      PROVE  UniquenessInv'
  <2> DEFINE e == [NoEffect EXCEPT !.puts = [y \in {x} |-> r], !.shown = [y \in {x} |-> r]]
  <2>1. Perform(c, e, NoStatement) /\ DOMAIN e.shown = {x}
    BY <1>2 DEF UpdateFast, NoEffect
  <2>2. txn[c].view[x] = Untouched
    BY <2>1 DEF Perform, MayWrite
  <2>3. TypedEffect(e) /\ SafeEffect(txn[c], e)
    BY <1>1, <2>2, PutTyped, FastSafe
  <2> QED BY <1>1, <2>1, <2>3, PerformSafe
<1>3. ASSUME DeleteFast(c, x)
      PROVE  UniquenessInv'
  <2> DEFINE e == [NoEffect EXCEPT !.gone = {x}]
  <2>1. Perform(c, e, NoStatement) /\ e.gone = {x}
    BY <1>3 DEF DeleteFast, NoEffect
  <2>2. txn[c].view[x] = Untouched
    BY <2>1 DEF Perform, MayWrite
  <2>3. TypedEffect(e) /\ SafeEffect(txn[c], e)
    BY <1>1, <2>2, GoneTyped, FastSafe
  <2> QED BY <1>1, <2>1, <2>3, PerformSafe
<1> QED BY <1>2, <1>3

\* delete and one row of delete_where.
LEMMA DeleteKeepsKeys ==
  ASSUME UniqueInv, Revisit = FALSE, NEW c \in Txns, NEW x \in RowIds, NEW stmt,
         txn[c].status = "active", NEW pick \in Picks(RefsFound(txn[c], x), x),
         Perform(c, DeleteRow(txn[c], x, RefsFound(txn[c], x), pick), stmt)
  PROVE  UniquenessInv'
<1> DEFINE e == DeleteRow(txn[c], x, RefsFound(txn[c], x), pick)
<1>1. TypeOK /\ CompleteIn(txn[c].snap)
  BY DEF UniqueInv, TypeInv, UniquenessInv, SnapshotCurrent
<1>2. \A y \in RowsOfEffect(e) : txn[c].view[y] = Untouched
  BY DEF Perform, MayWrite, RowsOfEffect
<1>3. TypedEffect(e) /\ SafeEffect(txn[c], e)
  BY <1>1, <1>2, DeleteRowTyped, DeleteRowSafe
<1> QED BY <1>3, PerformSafe

LEMMA TruncateKeepsKeys ==
  ASSUME UniqueInv, NEW c \in Txns, NEW t \in Tables, Truncate(c, t)
  PROVE  UniquenessInv'
<1> DEFINE e == TruncateTable(txn[c], t)
<1>1. /\ txn[c].status = "active" /\ Perform(c, e, NoStatement)
      /\ TypedEffect(e) /\ SafeEffect(txn[c], e)
  BY TruncateTyped, TruncateSafe DEF Truncate, Running, UniqueInv, TypeInv, TypeOK
<1> QED BY <1>1, PerformSafe

\* The start of a statement stages nothing.
LEMMA StartKeepsKeys ==
  ASSUME UniqueInv, NEW c \in Txns, NEW kind, NEW todo, StartStatement(c, kind, todo)
  PROVE  UniquenessInv'
<1> DEFINE L == txn[c]
           T == [L EXCEPT !.stmt = [kind |-> kind, todo |-> todo, found |-> {}]]
<1>1. L \in Transactions /\ L.status = "active"
  BY DEF UniqueInv, TypeInv, TypeOK, StartStatement, Running
<1>2. /\ T.staged = L.staged /\ T.view = L.view /\ T.snap = L.snap
      /\ T.reserved = L.reserved /\ T.dirty = L.dirty
  BY <1>1 DEF Transactions
<1>3. store' = store /\ txn'[c] = T /\ \A d \in Txns \ {c} : txn'[d] = txn[d]
  BY DEF StartStatement, UniqueInv, TypeInv, TypeOK
<1> HIDE DEF T
<1>4. ~Conflicts(T) => GuardsOf(T)
  BY <1>1, <1>2, GuardsOfSame DEF Conflicts, UniqueInv, UniquenessInv
<1>5. ASSUME NEW d \in Txns, txn'[d].status = "active"
      PROVE  SnapshotCurrent(txn[d])' /\ (~Conflicts(txn'[d]) => GuardsOf(txn'[d]))
  BY <1>1, <1>2, <1>3, <1>4, <1>5 DEF UniqueInv, UniquenessInv, SnapshotCurrent
<1> QED BY <1>3, <1>5 DEF UniqueInv, UniquenessInv, CompleteIn, OwnsItsKeys, Conflicts, GuardsOf

-----------------------------------------------------------------------------
(* The end of a transaction.                                                *)

\* A transaction that can commit leaves complete guards.
LEMMA InstallComplete ==
  ASSUME UniqueInv, NEW c \in Txns, txn[c].status = "active", ~Conflicts(txn[c])
  PROVE  CompleteIn(Install(store, txn[c].staged))
<1> DEFINE L == txn[c]
           s == Install(store, L.staged)
<1>1. L \in Transactions /\ TypedTxn(L) /\ SnapshotCurrent(L) /\ GuardsOf(L) /\ CompleteIn(store)
  BY DEF UniqueInv, UniquenessInv, TypeInv, TypeOK
<1>2. \A k \in Keys : s[k] = IF L.staged[k] = Untouched THEN store[k] ELSE L.staged[k]
  BY DEF Install, UniqueInv, TypeInv, TypeOK
<1>3. \A k \in Keys : L.staged[k] # Untouched => L.snap[k] = store[k]
  BY <1>1 DEF SnapshotCurrent, Conflicts, WriteSet, Transactions
<1> SUFFICES ASSUME NEW x \in RowIds, s[RowKey(x)] # NoRow,
                    NEW u \in UniquesOf(x[1]), s[RowKey(x)][u.col] # Null
             PROVE  s[GuardOf(u, s[RowKey(x)][u.col])] = x
  BY DEF CompleteIn, OwnsItsKeys
<1> DEFINE r == s[RowKey(x)]
           k == GuardOf(u, r[u.col])
<1>4. RowKey(x) \in Keys
  BY KeyKinds
<1>5. k \in UniqueKeys /\ k \in Keys
  <2>1. r \in RowsOf(x[1])
    BY <1>1, <1>2, KeyKinds DEF UniqueInv, TypeInv, TypeOK, TypedTxn, WellTyped
  <2> QED BY <2>1, KeysOfRows, UniqueKeyFacts, KeyKinds
<1>6. CASE ~Written(L, x)
  <2>1. r = store[RowKey(x)]
    BY <1>2, <1>4, <1>6 DEF Written
  <2>2. store[k] = x
    BY <1>1, <2>1 DEF CompleteIn, OwnsItsKeys
  <2>3. L.staged[k] \in {Untouched, x}
    BY <1>1, <1>3, <1>5, <1>6, <2>2 DEF GuardsOf, GuardsLost
  <2> QED BY <1>2, <1>5, <2>2, <2>3
<1>7. CASE Written(L, x)
  <2>1. r = L.staged[RowKey(x)] /\ L.snap[RowKey(x)] = store[RowKey(x)]
    BY <1>2, <1>3, <1>4, <1>7 DEF Written
  <2>2. \/ L.staged[k] = x
        \/ L.staged[k] = Untouched /\ store[RowKey(x)] # NoRow /\ store[RowKey(x)][u.col] = r[u.col]
    BY <1>1, <1>7, <2>1 DEF GuardsOf, GuardsStaged, Written
  <2>3. CASE L.staged[k] = x
    BY <1>2, <1>5, <2>3, RowsAreNotNoRow, KitTxnAssumption
  <2>4. CASE /\ L.staged[k] = Untouched
             /\ store[RowKey(x)] # NoRow /\ store[RowKey(x)][u.col] = r[u.col]
    BY <1>1, <1>2, <1>5, <2>4 DEF CompleteIn, OwnsItsKeys
  <2> QED BY <2>2, <2>3, <2>4
<1> QED BY <1>6, <1>7

LEMMA CommitKeepsKeys ==
  ASSUME UniqueInv, NEW c \in Txns, Commit(c)
  PROVE  UniquenessInv'
<1> DEFINE W == WriteSet(txn[c].staged)
<1>1. /\ store' = Install(store, txn[c].staged) /\ CompleteIn(store')
      /\ \A k \in Keys : k \notin W => store'[k] = store[k]
  BY InstallComplete DEF Commit, Install, WriteSet, UniqueInv, TypeInv, TypeOK, Transactions
<1>2. ASSUME NEW d \in Txns, txn'[d].status = "active"
      PROVE  SnapshotCurrent(txn[d])' /\ (~Conflicts(txn'[d]) => GuardsOf(txn'[d]))
  <2>1. d # c /\ txn[d].status = "active"
    <3>1. Idle.status = "idle"
      BY IdleTyped, FreshTyped DEF Idle, Fresh
    <3> QED BY <1>2, <3>1 DEF Commit
  <2> DEFINE M == [txn[d] EXCEPT !.behind = @ + 1, !.dirty = @ \cup W]
  <2>2. txn'[d] = M
    BY <2>1 DEF Commit
  <2>3. txn[d] \in Transactions
    BY DEF UniqueInv, TypeInv, TypeOK
  <2>4. /\ M.staged = txn[d].staged /\ M.view = txn[d].view /\ M.snap = txn[d].snap
        /\ M.reserved = txn[d].reserved /\ M.dirty = txn[d].dirty \cup W
    BY <2>3 DEF Transactions
  <2>5. SnapshotCurrent(txn[d]) /\ (~Conflicts(txn[d]) => GuardsOf(txn[d]))
    BY <2>1 DEF UniqueInv, UniquenessInv
  <2> HIDE DEF M, W
  <2>6. ~Conflicts(M) => GuardsOf(M)
    BY <2>4, <2>5, GuardsOfSame DEF Conflicts
  <2> QED BY <1>1, <2>2, <2>4, <2>5, <2>6 DEF SnapshotCurrent
<1> QED BY <1>1, <1>2 DEF UniquenessInv, CompleteIn, OwnsItsKeys, Conflicts, GuardsOf

\* A transaction that has just begun has staged nothing.
LEMMA FreshKeepsKeys ==
  ASSUME UniqueInv, NEW n
  PROVE  LET F == Fresh(store, n)
         IN  CompleteIn(F.snap) /\ F.snap = store /\ GuardsOf(F)
<1> DEFINE F == Fresh(store, n)
<1>1. /\ F.snap = store
      /\ \A k \in Keys : F.staged[k] = Untouched
      /\ \A k \in GuardKeys : F.reserved[k] = NoRow
  BY DEF Fresh
<1>2. \A x \in RowIds : ~Written(F, x)
  BY <1>1, KeyKinds DEF Written
<1>3. \A k \in UniqueKeys : F.staged[k] = Untouched /\ F.reserved[k] = NoRow
  BY <1>1, UniqueKeyFacts, KeyKinds
<1>4. \A x \in RowIds : x # NoRow /\ x # Untouched
  BY KitSchemaAssumption, KitTxnAssumption DEF SchemaAssumption
<1> HIDE DEF F
<1>5. GuardsOf(F)
  BY <1>2, <1>3, <1>4 DEF GuardsOf, WritesShown, GuardsLost, GuardsStaged,
                          GuardsReserved, ReservedByWriters, Written
<1>6. CompleteIn(store)
  BY DEF UniqueInv, UniquenessInv
<1> QED BY <1>1, <1>5, <1>6 DEF F

LEMMA AttemptKeepsKeys ==
  ASSUME UniqueInv, NEW c \in Txns,
         Begin(c) \/ Conflict(c) \/ Rollback(c) \/ RollbackRetry(c)
  PROVE  UniquenessInv'
<1>1. Idle.status = "idle"
  BY IdleTyped, FreshTyped DEF Idle, Fresh
<1>2. PICK M : /\ txn' = [txn EXCEPT ![c] = M]
               /\ M = Idle \/ \E n : M = Fresh(store, n)
  BY DEF Begin, Conflict, Rollback, RollbackRetry
<1>3. store' = store /\ txn'[c] = M /\ \A d \in Txns \ {c} : txn'[d] = txn[d]
  BY <1>2 DEF Begin, Conflict, Rollback, RollbackRetry, UniqueInv, TypeInv, TypeOK
<1>4. M.status = "active" => CompleteIn(M.snap) /\ M.snap = store /\ GuardsOf(M)
  BY <1>1, <1>2, FreshKeepsKeys
<1>5. ASSUME NEW d \in Txns, txn'[d].status = "active"
      PROVE  SnapshotCurrent(txn[d])' /\ (~Conflicts(txn'[d]) => GuardsOf(txn'[d]))
  BY <1>3, <1>4, <1>5 DEF UniqueInv, UniquenessInv, SnapshotCurrent
<1> QED BY <1>3, <1>5 DEF UniqueInv, UniquenessInv, CompleteIn, OwnsItsKeys, Conflicts, GuardsOf

-----------------------------------------------------------------------------
(* The theorem.                                                             *)

LEMMA InitUnique == Init => UniqueInv
<1> SUFFICES ASSUME Init
             PROVE  UniqueInv
  OBVIOUS
<1>1. Idle.status = "idle"
  BY IdleTyped, FreshTyped DEF Idle, Fresh
<1>2. CompleteIn(store)
  BY KeyKinds DEF Init, NoStore, CompleteIn
<1> QED BY <1>1, <1>2, InitTyped DEF Init, UniqueInv, UniquenessInv

LEMMA NextUnique ==
  ASSUME UniqueInv, DistinctNames, WritesOnce, [Next]_vars
  PROVE  UniqueInv'
<1>1. TypeInv'
  BY NextTyped DEF UniqueInv
<1>2. Revisit = FALSE /\ Targets \subseteq RowIds
  BY KitTxnAssumption DEF WritesOnce
<1>3. CASE UNCHANGED vars
  BY <1>1, <1>3 DEF vars, UniqueInv, UniquenessInv, SnapshotCurrent, CompleteIn,
                    OwnsItsKeys, Conflicts, GuardsOf
<1>4. ASSUME NEW c \in Txns, Begin(c) \/ Finish(c)
      PROVE  UniquenessInv'
  BY <1>4, AttemptKeepsKeys, CommitKeepsKeys DEF Finish
<1>5. ASSUME NEW c \in Txns, Operation(c)
      PROVE  UniquenessInv'
  <2>1. ASSUME NEW x \in RowIds, NEW r \in RowsOf(x[1]),
               Insert(c, x, r) \/ Update(c, x, r) \/ UpdateFast(c, x, r)
        PROVE  UniquenessInv'
    <3>1. CASE Insert(c, x, r)
      BY <1>2, <3>1, InsertKeepsKeys DEF Insert, Running
    <3>2. CASE Update(c, x, r)
      BY <1>2, <3>2, UpdateKeepsKeys DEF Update, Running
    <3>3. CASE UpdateFast(c, x, r)
      BY <1>2, <3>3, FastKeepsKeys
    <3> QED BY <2>1, <3>1, <3>2, <3>3
  <2>2. ASSUME NEW x \in RowIds, Delete(c, x) \/ DeleteFast(c, x)
        PROVE  UniquenessInv'
    BY <1>2, <2>2, DeleteKeepsKeys, FastKeepsKeys DEF Delete, Running
  <2>3. ASSUME NEW x \in RowIds,
               InsertManyRow(c, x) \/ UpdateWhereRow(c, x) \/ DeleteWhereRow(c, x)
        PROVE  UniquenessInv'
    <3>1. /\ x \in DOMAIN txn[c].stmt.todo /\ txn[c].status = "active"
          /\ txn[c].stmt.todo[x] \in RowsOf(x[1])
      BY <2>3 DEF InsertManyRow, UpdateWhereRow, DeleteWhereRow, InStatement,
                  UniqueInv, TypeInv, TypeOK, TypedTxn
    <3>2. CASE InsertManyRow(c, x)
      BY <1>2, <3>1, <3>2, InsertKeepsKeys DEF InsertManyRow
    <3>3. CASE UpdateWhereRow(c, x)
      BY <1>2, <3>1, <3>3, UpdateKeepsKeys DEF UpdateWhereRow
    <3>4. CASE DeleteWhereRow(c, x)
      BY <1>2, <3>1, <3>4, DeleteKeepsKeys DEF DeleteWhereRow
    <3> QED BY <2>3, <3>2, <3>3, <3>4
  <2>4. ASSUME NEW t \in Tables, \/ Truncate(c, t) \/ StartInsertMany(c, t)
                                 \/ StartUpdateWhere(c, t) \/ StartDeleteWhere(c, t)
        PROVE  UniquenessInv'
    BY <2>4, TruncateKeepsKeys, StartKeepsKeys
       DEF StartInsertMany, StartUpdateWhere, StartDeleteWhere
  <2>5. \A x, r, patch : ~UpsertAbsent(c, x, r) /\ ~UpsertExisting(c, x, r, patch)
    BY DEF UpsertAbsent, UpsertExisting, Running, WritesOnce
  <2> QED BY <1>2, <1>5, <2>1, <2>2, <2>3, <2>4, <2>5 DEF Operation
<1> QED BY <1>1, <1>3, <1>4, <1>5 DEF Next, UniqueInv

\* Complete guards have one owner each.
LEMMA CompleteIsUnique ==
  ASSUME TypeOK, CompleteIn(store)
  PROVE  NoDuplicateKeys
<1> SUFFICES ASSUME NEW u \in Uniques, NEW i \in Ids, NEW j \in Ids, NEW v \in Ids,
                    Holds(Committed, u, i, v), Holds(Committed, u, j, v)
             PROVE  i = j
  BY DEF NoDuplicateKeys, KeysUnique
<1>1. u.table \in Tables /\ v # Null
  BY KitSchemaAssumption DEF SchemaAssumption
<1>2. ASSUME NEW n \in Ids, Holds(Committed, u, n, v)
      PROVE  store[GuardOf(u, v)] = <<u.table, n>>
  <2> DEFINE x == <<u.table, n>>
  <2>1. x \in RowIds /\ x[1] = u.table /\ u \in UniquesOf(x[1])
    BY <1>1 DEF RowIds, UniquesOf
  <2>2. store[RowKey(x)] # NoRow /\ store[RowKey(x)][u.col] = v
    BY <1>2, <2>1 DEF Holds, Committed
  <2> QED BY <1>1, <2>1, <2>2 DEF CompleteIn, OwnsItsKeys
<1> QED BY <1>2

\* Whatever transactions are interleaved, no two committed rows of a table
\* share a unique value, if the constraints of a table have distinct names and
\* each transaction writes a row at most once and does not upsert (txn.rs,
\* check_unique_constraints and the __kit_unique_keys rows written with a row).
THEOREM KeysStayUnique ==
  ASSUME DistinctNames, WritesOnce
  PROVE  Spec => []NoDuplicateKeys
<1>1. Init => UniqueInv
  BY InitUnique
<1>2. UniqueInv /\ [Next]_vars => UniqueInv'
  BY NextUnique
<1>3. UniqueInv => NoDuplicateKeys
  BY CompleteIsUnique DEF UniqueInv, UniquenessInv, TypeInv
<1> QED BY <1>1, <1>2, <1>3, PTL DEF Spec

\* Under the same conditions the guards are complete at every moment, in the
\* store and in what every transaction that can still commit has staged.
THEOREM GuardsStayComplete ==
  ASSUME DistinctNames, WritesOnce
  PROVE  Spec => []UniquenessInv
<1>1. Init => UniqueInv
  BY InitUnique
<1>2. UniqueInv /\ [Next]_vars => UniqueInv'
  BY NextUnique
<1>3. UniqueInv => UniquenessInv
  BY DEF UniqueInv
<1> QED BY <1>1, <1>2, <1>3, PTL DEF Spec

-----------------------------------------------------------------------------
(* No guard is left behind, and composite keys are guarded as well.         *)

\* The key of a composite primary key is a guard of that row alone.
LEMMA RowKeysFacts ==
  /\ \A x \in RowIds : PkGuard(x) \in GuardKeys
  /\ \A x, z \in RowIds : \A r : PkGuard(x) \in RowKeys(z, r) => z = x
  /\ \A x \in RowIds : \A r : Composite(x[1]) => PkGuard(x) \in RowKeys(x, r)
<1>1. \A x, z \in RowIds : \A r : PkGuard(x) \notin KeysFor(z, r, NoRow)
  BY DEF KeysFor, PkGuard, GuardOf
<1>2. \A x, z \in RowIds : PkGuard(x) \in PkGuardOf(z) => z = x
  BY DEF PkGuardOf, PkGuard
<1> QED BY <1>1, <1>2, KeyKinds DEF RowKeys, PkGuardOf

\* The part of an effect the exactness of the guards depends on: it reserves
\* guards only for rows it puts that need them; it gives up only guards of rows
\* it writes; it keeps a guard of such a row only if the new row needs it too;
\* a row it puts with a composite key has the guard of that key, or gets it;
\* the rows it puts are inserted if and only if the snapshot has none there.
ExactEffect(L, e) ==
  /\ DOMAIN e.puts = DOMAIN e.shown
  /\ \A y \in RowsOfEffect(e) : L.view[y] = Untouched
  /\ \A y \in RowIds : RowKey(y) \notin e.release
  /\ \A k \in GuardKeys : k \in DOMAIN e.reserve =>
       e.reserve[k] \in DOMAIN e.puts /\ k \in RowKeys(e.reserve[k], e.puts[e.reserve[k]])
  /\ \A k \in GuardKeys : k \in e.release => L.snap[k] \in RowsOfEffect(e)
  /\ \A k \in GuardKeys : \A y \in RowsOfEffect(e) :
       L.snap[k] = y /\ k \notin DOMAIN e.reserve /\ k \notin e.release
         => y \in DOMAIN e.puts /\ k \in RowKeys(y, e.puts[y])
  /\ \A y \in DOMAIN e.puts : Composite(y[1]) =>
       \/ PkGuard(y) \in DOMAIN e.reserve
       \/ L.snap[RowKey(y)] # NoRow /\ PkGuard(y) \notin e.release
  /\ e.made \subseteq DOMAIN e.puts
  /\ \A y \in DOMAIN e.puts : y \in e.made <=> L.snap[RowKey(y)] = NoRow

\* What staging does to rows: those an effect does not write stay as they are.
LEMMA StageRowsOf ==
  ASSUME NEW L \in Transactions, NEW e, TypedEffect(e), ExactEffect(L, e), WritesShown(L)
  PROVE  LET S == Stage(L, e)
         IN  /\ \A y \in RowsOfEffect(e) :
                  y \in RowIds /\ ~Written(L, y) /\ Written(S, y) /\ S.view[y] # Untouched
             /\ \A y \in DOMAIN e.puts : /\ y \in RowsOfEffect(e)
                                         /\ S.staged[RowKey(y)] = e.puts[y]
                                         /\ HasRow(S.staged, y)
             /\ \A y \in RowsOfEffect(e) \ DOMAIN e.puts :
                  y \in e.gone /\ S.staged[RowKey(y)] = NoRow
             /\ \A y \in RowIds \ RowsOfEffect(e) :
                  S.staged[RowKey(y)] = L.staged[RowKey(y)] /\ S.view[y] = L.view[y]
<1> DEFINE S == Stage(L, e)
<1>1. \A y \in RowIds : RowKey(y) \notin e.release
  BY DEF ExactEffect
<1>2. \A y \in RowIds : S.staged[RowKey(y)] =
         IF y \in DOMAIN e.puts THEN e.puts[y]
         ELSE IF y \in e.gone /\ L.staged[RowKey(y)] = Untouched THEN NoRow
         ELSE L.staged[RowKey(y)]
  BY <1>1, StageRows
<1>3. \A y \in RowIds : S.view[y] = IF y \in e.gone THEN NoRow
                                    ELSE IF y \in DOMAIN e.shown THEN e.shown[y]
                                    ELSE L.view[y]
  BY StageGuards
<1>4. RowsOfEffect(e) = DOMAIN e.puts \cup e.gone /\ RowsOfEffect(e) \subseteq RowIds
  BY DEF RowsOfEffect, ExactEffect, TypedEffect
<1>5. \A y \in RowsOfEffect(e) : L.staged[RowKey(y)] = Untouched
  BY <1>4 DEF ExactEffect, WritesShown, Written
<1>6. /\ \A y \in DOMAIN e.puts : e.puts[y] \notin {NoRow, Untouched}
      /\ \A y \in DOMAIN e.shown : e.shown[y] # Untouched
      /\ NoRow # Untouched
  BY RowsAreNotNoRow, KitTxnAssumption DEF TypedEffect
<1>7. DOMAIN e.puts = DOMAIN e.shown
  BY DEF ExactEffect
<1> HIDE DEF S
<1>8. \A y \in RowsOfEffect(e) :
        y \in RowIds /\ ~Written(L, y) /\ Written(S, y) /\ S.view[y] # Untouched
  BY <1>2, <1>3, <1>4, <1>5, <1>6, <1>7 DEF Written
<1>9. \A y \in DOMAIN e.puts : /\ y \in RowsOfEffect(e)
                                /\ S.staged[RowKey(y)] = e.puts[y]
                                /\ HasRow(S.staged, y)
  BY <1>2, <1>4, <1>6 DEF HasRow
<1>10. \A y \in RowsOfEffect(e) \ DOMAIN e.puts : y \in e.gone /\ S.staged[RowKey(y)] = NoRow
  BY <1>2, <1>4, <1>5
<1>11. \A y \in RowIds \ RowsOfEffect(e) :
         S.staged[RowKey(y)] = L.staged[RowKey(y)] /\ S.view[y] = L.view[y]
  BY <1>2, <1>3, <1>4, <1>7
<1> QED BY <1>8, <1>9, <1>10, <1>11 DEF S

\* Staging an exact effect keeps the guards of the transaction exact.
LEMMA StageExact ==
  ASSUME NEW L \in Transactions, TypedTxn(L), ExactIn(L.snap), WritesShown(L), StagedExact(L),
         NEW e, TypedEffect(e), ExactEffect(L, e)
  PROVE  StagedExact(Stage(L, e))
<1> DEFINE S == Stage(L, e)
           R == RowsOfEffect(e)
<1>1. /\ \A y \in R : y \in RowIds /\ ~Written(L, y) /\ Written(S, y) /\ S.view[y] # Untouched
      /\ \A y \in DOMAIN e.puts : y \in R /\ S.staged[RowKey(y)] = e.puts[y] /\ HasRow(S.staged, y)
      /\ \A y \in R \ DOMAIN e.puts : y \in e.gone /\ S.staged[RowKey(y)] = NoRow
      /\ \A y \in RowIds \ R :
           S.staged[RowKey(y)] = L.staged[RowKey(y)] /\ S.view[y] = L.view[y]
  BY StageRowsOf
<1>2. /\ \A k \in GuardKeys : S.staged[k] =
           IF k \in DOMAIN e.reserve THEN e.reserve[k]
           ELSE IF k \in e.release /\ L.staged[k] = Untouched THEN NoRow
           ELSE L.staged[k]
      /\ S.made = L.made \cup e.made /\ S.snap = L.snap
  BY StageGuards
<1>3. /\ \A y \in RowIds : y # NoRow /\ y # Untouched
      /\ \A k \in DOMAIN e.reserve : e.reserve[k] \in RowIds
      /\ NoRow # Untouched
  BY KitSchemaAssumption, KitTxnAssumption DEF SchemaAssumption, TypedEffect
<1>4. \A y \in RowIds : HasRow(L.staged, y) => Written(L, y)
  BY DEF HasRow, Written
<1>5. \A x \in RowIds : /\ PkGuard(x) \in GuardKeys
                        /\ \A z \in RowIds : \A r : PkGuard(x) \in RowKeys(z, r) => z = x
  BY RowKeysFacts
<1>6. \A k \in GuardKeys : k \in e.release => L.snap[k] \in R
  BY DEF ExactEffect
<1>7. ASSUME NEW x \in RowIds, PkGuard(x) \in e.release
      PROVE  x \in R
  <2>1. L.snap[PkGuard(x)] \in R /\ L.snap[PkGuard(x)] \in RowIds
    BY <1>1, <1>5, <1>6, <1>7
  <2> QED BY <1>5, <2>1 DEF ExactIn
<1>8. \A x \in RowIds : PkGuard(x) \in DOMAIN e.reserve =>
        e.reserve[PkGuard(x)] = x /\ x \in DOMAIN e.puts
  BY <1>3, <1>5 DEF ExactEffect
<1>9. ASSUME NEW x \in RowIds, NEW z \in RowIds, L.staged[PkGuard(x)] = z
      PROVE  z = x /\ Written(L, x)
  BY <1>4, <1>5, <1>9 DEF StagedExact, StagedGuardsExact
<1> HIDE DEF S
<1>10. StagedGuardsExact(S)
  <2> SUFFICES ASSUME NEW k \in GuardKeys, NEW x \in RowIds,
                      \/ S.staged[k] = x
                      \/ S.staged[k] = Untouched /\ L.snap[k] = x /\ Written(S, x)
               PROVE  HasRow(S.staged, x) /\ k \in RowKeys(x, S.staged[RowKey(x)])
    BY <1>2 DEF StagedGuardsExact
  <2>1. CASE S.staged[k] = x
    <3>1. CASE k \in DOMAIN e.reserve
      BY <1>1, <1>2, <2>1, <3>1 DEF ExactEffect
    <3>2. CASE k \notin DOMAIN e.reserve
      <4>1. L.staged[k] = x
        BY <1>2, <1>3, <2>1, <3>2
      <4>2. HasRow(L.staged, x) /\ k \in RowKeys(x, L.staged[RowKey(x)])
        BY <4>1 DEF StagedExact, StagedGuardsExact
      <4>3. x \notin R
        BY <1>1, <1>4, <4>2
      <4> QED BY <1>1, <4>2, <4>3 DEF HasRow
    <3> QED BY <3>1, <3>2
  <2>2. CASE S.staged[k] = Untouched /\ L.snap[k] = x /\ Written(S, x)
    <3>1. k \notin DOMAIN e.reserve /\ k \notin e.release /\ L.staged[k] = Untouched
      BY <1>2, <1>3, <2>2
    <3>2. CASE x \in R
      BY <1>1, <2>2, <3>1, <3>2 DEF ExactEffect
    <3>3. CASE x \notin R
      <4>1. HasRow(L.staged, x) /\ k \in RowKeys(x, L.staged[RowKey(x)])
        BY <1>1, <2>2, <3>1, <3>3 DEF StagedExact, StagedGuardsExact, Written
      <4> QED BY <1>1, <3>3, <4>1 DEF HasRow
    <3> QED BY <3>2, <3>3
  <2> QED BY <2>1, <2>2
<1>11. CompositesGuarded(S)
  <2>1. ASSUME NEW x \in RowIds, HasRow(S.staged, x), Composite(x[1])
        PROVE  \/ S.staged[PkGuard(x)] = x
               \/ S.staged[PkGuard(x)] = Untouched /\ L.snap[RowKey(x)] # NoRow
    <3>1. CASE PkGuard(x) \in DOMAIN e.reserve
      BY <1>2, <1>5, <1>8, <3>1
    <3>2. CASE PkGuard(x) \notin DOMAIN e.reserve /\ x \in DOMAIN e.puts
      <4>1. L.snap[RowKey(x)] # NoRow /\ PkGuard(x) \notin e.release
        BY <2>1, <3>2 DEF ExactEffect
      <4>2. L.staged[PkGuard(x)] # NoRow
        BY <1>1, <3>2 DEF StagedExact, CompositesGuarded
      <4>3. L.staged[PkGuard(x)] \in RowIds \cup {NoRow, Untouched}
        BY <1>5, KeyKinds DEF TypedTxn, WellTyped
      <4>4. L.staged[PkGuard(x)] = Untouched
        BY <1>1, <1>9, <3>2, <4>2, <4>3
      <4> QED BY <1>2, <1>5, <3>2, <4>1, <4>4
    <3>3. CASE PkGuard(x) \notin DOMAIN e.reserve /\ x \notin DOMAIN e.puts
      <4>1. x \notin R /\ HasRow(L.staged, x)
        BY <1>1, <2>1, <3>3 DEF HasRow
      <4>2. PkGuard(x) \notin e.release
        BY <1>7, <4>1
      <4> QED BY <1>2, <1>5, <2>1, <3>3, <4>1, <4>2 DEF StagedExact, CompositesGuarded
    <3> QED BY <3>1, <3>2, <3>3
  <2>2. ASSUME NEW x \in RowIds, S.staged[PkGuard(x)] = NoRow
        PROVE  Written(S, x)
    <3>1. PkGuard(x) \notin DOMAIN e.reserve
      BY <1>2, <1>3, <1>5, <2>2
    <3>2. CASE PkGuard(x) \in e.release
      BY <1>1, <1>7, <3>2
    <3>3. CASE PkGuard(x) \notin e.release
      <4>1. Written(L, x)
        BY <1>2, <1>5, <2>2, <3>1, <3>3 DEF StagedExact, CompositesGuarded
      <4> QED BY <1>1, <4>1 DEF Written
    <3> QED BY <3>2, <3>3
  <2> QED BY <1>2, <2>1, <2>2 DEF CompositesGuarded
<1>12. MadeExact(S)
  <2>1. ASSUME NEW x \in RowIds, S.view[x] \in AllRows
        PROVE  Written(S, x) /\ (x \in S.made <=> L.snap[RowKey(x)] = NoRow)
    <3>1. CASE x \in DOMAIN e.puts
      <4>1. L.view[x] = Untouched
        BY <1>1, <3>1 DEF ExactEffect
      <4>2. x \notin L.made
        BY <4>1 DEF StagedExact, MadeExact
      <4> QED BY <1>1, <1>2, <3>1, <4>2 DEF ExactEffect
    <3>2. CASE x \in R \ DOMAIN e.puts
      <4>1. S.view[x] = NoRow
        BY <1>1, <3>2, StageGuards DEF S
      <4> QED BY <2>1, <4>1, KitSchemaAssumption DEF SchemaAssumption
    <3>3. CASE x \notin R
      <4>1. /\ Written(L, x)
            /\ x \in L.made <=> L.snap[RowKey(x)] = NoRow
            /\ x \notin e.made
        BY <1>1, <2>1, <3>3 DEF StagedExact, MadeExact, ExactEffect
      <4> QED BY <1>1, <1>2, <3>3, <4>1 DEF Written
    <3> QED BY <3>1, <3>2, <3>3
  <2>2. ASSUME NEW x \in RowIds, x \in S.made
        PROVE  S.view[x] # Untouched
    BY <1>1, <1>2, <2>2 DEF ExactEffect, StagedExact, MadeExact
  <2> QED BY <1>2, <2>1, <2>2 DEF MadeExact
<1> QED BY <1>10, <1>11, <1>12 DEF StagedExact, S

-----------------------------------------------------------------------------
(* The effects of the operations are exact.                                 *)

\* The guards a row needs under one row or another before it.
LEMMA RowKeysOf ==
  ASSUME NEW x \in RowIds, NEW r, NEW old
  PROVE  /\ KeysFor(x, r, old) \subseteq RowKeys(x, r)
         /\ RowKeys(x, old) \subseteq StaleKeys(x, r, old) \cup RowKeys(x, r) \/ old = NoRow
         /\ \A k \in StaleKeys(x, r, old) : \A y : k # PkGuard(y)
<1>1. KeysFor(x, r, old) \subseteq RowKeys(x, r)
  BY DEF KeysFor, Changed, RowKeys
<1>2. ASSUME old # NoRow, NEW k \in RowKeys(x, old)
      PROVE  k \in StaleKeys(x, r, old) \/ k \in RowKeys(x, r)
  <2>1. CASE k \in PkGuardOf(x)
    BY <2>1 DEF RowKeys
  <2>2. CASE k \in KeysFor(x, old, NoRow)
    <3>1. PICK u \in UniquesOf(x[1]) : old[u.col] # Null /\ k = GuardOf(u, old[u.col])
      BY <2>2 DEF KeysFor, Changed
    <3>2. CASE old[u.col] = r[u.col]
      BY <3>1, <3>2 DEF RowKeys, KeysFor, Changed
    <3>3. CASE old[u.col] # r[u.col]
      BY <1>2, <3>1, <3>3 DEF StaleKeys
    <3> QED BY <3>2, <3>3
  <2> QED BY <2>1, <2>2 DEF RowKeys
<1>3. \A k \in StaleKeys(x, r, old) : \A y : k # PkGuard(y)
  BY DEF StaleKeys, GuardOf, PkGuard
<1> QED BY <1>1, <1>2, <1>3

LEMMA UpdateExact ==
  ASSUME NEW L \in Transactions, CompleteIn(L.snap), ExactIn(L.snap), DistinctNames,
         NEW x \in RowIds, NEW r \in RowsOf(x[1]), NEW old \in RowsOf(x[1]),
         old = L.snap[RowKey(x)], L.view[x] = Untouched
  PROVE  ExactEffect(L, WriteRow(L, x, r, old))
<1> DEFINE e == WriteRow(L, x, r, old)
           need == KeysFor(x, r, old)
           stale == StaleKeys(x, r, old)
<1>1. /\ e.puts = [y \in {x} |-> r] /\ e.shown = [y \in {x} |-> r] /\ e.gone = {}
      /\ e.reserve = [k \in need |-> x] /\ e.made = {}
      /\ e.release = {k \in stale : L.snap[k] # NoRow}
  BY DEF WriteRow, NoEffect
<1>2. need \subseteq GuardKeys /\ stale \subseteq GuardKeys
  BY KeysAreGuards
<1>3. \A k \in stale : L.snap[k] = x
  BY KeysForFacts
<1>4. old # NoRow /\ x # NoRow
  BY RowsAreNotNoRow, KitSchemaAssumption DEF SchemaAssumption
<1>5. /\ need \subseteq RowKeys(x, r)
      /\ RowKeys(x, old) \subseteq stale \cup RowKeys(x, r)
      /\ PkGuard(x) \notin stale
  BY <1>4, RowKeysOf
<1>6. \A k \in GuardKeys : L.snap[k] = x => k \in RowKeys(x, old)
  BY DEF ExactIn
<1>7. RowsOfEffect(e) = {x}
  BY <1>1 DEF RowsOfEffect
<1>8. \A y \in RowIds : RowKey(y) \notin e.release
  BY <1>1, <1>2, UniqueKeyFacts
<1> HIDE DEF e, need, stale
<1>9. ExactEffect(L, e)
  BY <1>1, <1>3, <1>4, <1>5, <1>6, <1>7, <1>8 DEF ExactEffect
<1> QED BY <1>9 DEF e

LEMMA InsertExact ==
  ASSUME NEW L \in Transactions, ExactIn(L.snap),
         NEW x \in RowIds, NEW r \in RowsOf(x[1]),
         L.snap[RowKey(x)] = NoRow, L.view[x] = Untouched
  PROVE  ExactEffect(L, InsertRow(L, x, r))
<1> DEFINE e == InsertRow(L, x, r)
<1>1. /\ e.puts = [y \in {x} |-> r] /\ e.shown = [y \in {x} |-> r] /\ e.gone = {}
      /\ e.reserve = [k \in RowKeys(x, r) |-> x] /\ e.made = {x}
      /\ e.release = {}
  BY DEF InsertRow, WriteRow, NoEffect, RowKeys, StaleKeys
<1>2. \A k \in GuardKeys : L.snap[k] # x
  BY DEF ExactIn
<1>3. Composite(x[1]) => PkGuard(x) \in RowKeys(x, r)
  BY RowKeysFacts
<1>4. RowsOfEffect(e) = {x}
  BY <1>1 DEF RowsOfEffect
<1> HIDE DEF e
<1>5. ExactEffect(L, e)
  BY <1>1, <1>2, <1>3, <1>4 DEF ExactEffect
<1> QED BY <1>5 DEF e

\* The fast paths serve tables whose rows have no guards.
LEMMA UnguardedRows ==
  ASSUME NEW s, ExactIn(s), NEW x \in RowIds, UniquesOf(x[1]) = {}, ~Composite(x[1])
  PROVE  \A k \in GuardKeys : s[k] # x
<1>1. \A row : RowKeys(x, row) = {}
  BY DEF RowKeys, KeysFor, Changed, PkGuardOf
<1> QED BY <1>1 DEF ExactIn

LEMMA PutExact ==
  ASSUME NEW L, ExactIn(L.snap), NEW x \in RowIds, NEW r, L.view[x] = Untouched,
         UniquesOf(x[1]) = {}, ~Composite(x[1]), L.snap[RowKey(x)] # NoRow,
         NEW e, e = [NoEffect EXCEPT !.puts = [y \in {x} |-> r], !.shown = [y \in {x} |-> r]]
  PROVE  ExactEffect(L, e)
<1>1. \A k \in GuardKeys : L.snap[k] # x
  BY UnguardedRows
<1>2. e.reserve = Nothing /\ e.release = {} /\ e.made = {} /\ RowsOfEffect(e) = {x}
  BY DEF NoEffect, Nothing, RowsOfEffect
<1>3. DOMAIN e.puts = {x} /\ DOMAIN e.shown = {x}
  BY DEF NoEffect
<1> QED BY <1>1, <1>2, <1>3 DEF ExactEffect, Nothing

LEMMA GoneExact ==
  ASSUME NEW L, ExactIn(L.snap), NEW x \in RowIds, L.view[x] = Untouched,
         UniquesOf(x[1]) = {}, ~Composite(x[1]), NEW e, e = [NoEffect EXCEPT !.gone = {x}]
  PROVE  ExactEffect(L, e)
<1>1. \A k \in GuardKeys : L.snap[k] # x
  BY UnguardedRows
<1>2. /\ e.puts = Nothing /\ e.shown = Nothing /\ e.reserve = Nothing
      /\ e.release = {} /\ e.made = {} /\ RowsOfEffect(e) = {x}
  BY DEF NoEffect, Nothing, RowsOfEffect
<1> QED BY <1>1, <1>2 DEF ExactEffect, Nothing

LEMMA TruncateExact ==
  ASSUME NEW L \in Transactions, NEW t \in Tables, ~HasStaged(L, t)
  PROVE  ExactEffect(L, TruncateTable(L, t))
<1> DEFINE e == TruncateTable(L, t)
           gone == {x \in RowIds : x[1] = t}
<1>1. /\ e.puts = Nothing /\ e.shown = Nothing /\ e.reserve = Nothing /\ e.gone = gone
      /\ e.release = CommittedGuards(L, gone)
                       \cup {RowGuard(x) : x \in {y \in gone : L.snap[RowGuard(y)] # NoRow}}
      /\ e.made = {}
  BY DEF TruncateTable, NoEffect
<1>2. \A x \in gone : L.view[x] = Untouched
  BY DEF HasStaged, RowIds
<1>3. \A k \in GuardKeys : k \in e.release <=> L.snap[k] \in gone
  BY <1>1, UniqueKeyFacts DEF CommittedGuards
<1>4. \A y \in RowIds : RowKey(y) \notin e.release
  BY <1>1, UniqueKeyFacts DEF CommittedGuards
<1>5. RowsOfEffect(e) = gone
  BY <1>1 DEF RowsOfEffect, Nothing
<1> HIDE DEF e, gone
<1>6. ExactEffect(L, e)
  BY <1>1, <1>2, <1>3, <1>4, <1>5 DEF ExactEffect, Nothing
<1> QED BY <1>6 DEF e

LEMMA DeleteRowExact ==
  ASSUME TypeOK, NEW c \in Txns, NEW x \in RowIds,
         NEW pick \in Picks(RefsFound(txn[c], x), x),
         \A y \in RowsOfEffect(DeleteRow(txn[c], x, RefsFound(txn[c], x), pick)) :
           txn[c].view[y] = Untouched
  PROVE  ExactEffect(txn[c], DeleteRow(txn[c], x, RefsFound(txn[c], x), pick))
<1> DEFINE L     == txn[c]
           refs  == RefsFound(L, x)
           cut   == DOMAIN pick
           kept  == [y \in cut |-> Nulled(L, pick[y], y)]
           keys(y) == KeysFor(y, kept[y], NoRow) \cup PkGuardOf(y)
           guard == UNION {keys(y) : y \in cut}
           owner == [k \in guard |-> CHOOSE y \in cut : k \in keys(y)]
           gone  == {x} \cup {y \in Reach(refs, x) : y[1] # x[1]}
           e     == DeleteRow(L, x, refs, pick)
<1>1. /\ e.puts = kept /\ e.shown = kept /\ e.gone = gone /\ e.reserve = owner
      /\ e.release = CommittedGuards(L, cut \cup gone) /\ e.made = {}
  BY DEF DeleteRow, NoEffect
<1>2. RowsOfEffect(e) = cut \cup gone
  BY <1>1 DEF RowsOfEffect
<1>3. \A h \in refs : h[3] \in RowIds /\ Visible(L, h[3]) # NoRow
  BY ReferencesAreRows DEF RefsFound
<1>4. ASSUME NEW y \in cut
      PROVE  y \in RowIds /\ L.snap[RowKey(y)] # NoRow
  <2>1. \E h \in Cut(refs, x) : h[3] = y
    BY DEF Picks
  <2>2. y \in RowIds /\ Visible(L, y) # NoRow
    BY <1>3, <2>1 DEF Cut, By
  <2> QED BY <1>2, <2>2 DEF Visible
<1>5. \A k \in guard : owner[k] \in cut /\ k \in RowKeys(owner[k], kept[owner[k]])
  BY DEF RowKeys
<1>6. \A y \in cut : Composite(y[1]) => PkGuard(y) \in guard
  BY DEF PkGuardOf
<1>7. \A k \in GuardKeys : k \in e.release <=> L.snap[k] \in cut \cup gone
  BY <1>1 DEF CommittedGuards
<1>8. \A y \in RowIds : RowKey(y) \notin e.release
  BY <1>1, UniqueKeyFacts DEF CommittedGuards
<1>9. DOMAIN owner = guard /\ DOMAIN kept = cut
  OBVIOUS
<1>10. \A y \in cut \cup gone : L.view[y] = Untouched
  BY <1>2
<1> HIDE DEF e, owner, kept, guard, gone, L
<1>11. ExactEffect(L, e)
  BY <1>1, <1>2, <1>4, <1>5, <1>6, <1>7, <1>8, <1>9, <1>10 DEF ExactEffect
<1> QED BY <1>11 DEF e, L

-----------------------------------------------------------------------------
(* Steps of one transaction keep the guards exact.                          *)

GuardedInv == UniqueInv /\ ExactInv

LEMMA StagedExactSame ==
  ASSUME NEW L, NEW M, StagedExact(L), M.staged = L.staged, M.view = L.view,
         M.snap = L.snap, M.made = L.made
  PROVE  StagedExact(M)
BY DEF StagedExact, StagedGuardsExact, CompositesGuarded, MadeExact, Written

\* What a statement has left after a row it had left before.
LEMMA RestIsLeft ==
  ASSUME NEW L \in Transactions, NEW x, NEW found
  PROVE  Rest(L, x, found).kind = "update_where" =>
           /\ L.stmt.kind = "update_where"
           /\ DOMAIN Rest(L, x, found).todo \subseteq DOMAIN L.stmt.todo
<1> DEFINE R == [L.stmt EXCEPT !.todo  = [y \in DOMAIN @ \ {x} |-> @[y]],
                               !.found = @ \cup found]
<1>1. NoStatement.kind # "update_where"
  BY DEF NoStatement
<1>2. R.kind = L.stmt.kind /\ DOMAIN R.todo \subseteq DOMAIN L.stmt.todo
  BY DEF Transactions, Statements
<1>3. Rest(L, x, found) = NoStatement \/ Rest(L, x, found) = R
  BY DEF Rest
<1> HIDE DEF R
<1> QED BY <1>1, <1>2, <1>3

\* An operation whose effect is exact, if the transaction can still commit,
\* keeps the guards exact; the rows update_where has left are still there.
LEMMA PerformExact ==
  ASSUME GuardedInv, NEW c \in Txns, txn[c].status = "active",
         NEW e, TypedEffect(e), NEW stmt, Perform(c, e, stmt),
         stmt.kind = "update_where" => /\ txn[c].stmt.kind = "update_where"
                                       /\ DOMAIN stmt.todo \subseteq DOMAIN txn[c].stmt.todo,
         ~Conflicts(Stage(txn[c], e)) => ExactEffect(txn[c], e)
  PROVE  ExactInv'
<1> DEFINE L == txn[c]
           S == Stage(L, e)
           T == Done(L, e, stmt)
<1>1. L \in Transactions /\ TypedTxn(L) /\ Exactly(store, L) /\ (~Conflicts(L) => GuardsOf(L))
  BY DEF GuardedInv, UniqueInv, TypeInv, TypeOK, UniquenessInv, ExactInv
<1>2. S \in Transactions
  BY <1>1, StageTyped
<1>3. /\ T.staged = S.staged /\ T.view = S.view /\ T.snap = S.snap
      /\ T.dirty = S.dirty /\ T.made = S.made /\ T.stmt = stmt
  BY <1>2 DEF Done, Transactions
<1>4. S.snap = L.snap /\ S.dirty = L.dirty
  BY <1>1, StagedGrows
<1>5. Conflicts(L) => Conflicts(S)
  BY <1>1, <1>4, StagedGrows DEF Conflicts
<1>6. ~Conflicts(S) => StagedExact(S)
  BY <1>1, <1>5, StageExact DEF Exactly, GuardsOf
<1>7. \A y \in RowIds : S.view[y] = Untouched => L.view[y] = Untouched
  <2>1. \A y \in DOMAIN e.shown : e.shown[y] # Untouched
    BY RowsAreNotNoRow DEF TypedEffect
  <2>2. NoRow # Untouched
    BY KitTxnAssumption
  <2>3. \A y \in RowIds : S.view[y] = IF y \in e.gone THEN NoRow
                                      ELSE IF y \in DOMAIN e.shown THEN e.shown[y]
                                      ELSE L.view[y]
    BY <1>1, StageGuards
  <2> HIDE DEF S
  <2> QED BY <2>1, <2>2, <2>3
<1>8. DOMAIN L.stmt.todo \subseteq RowIds
  BY <1>1 DEF Transactions, Statements
<1> HIDE DEF S, T
<1>9. ~Conflicts(T) => StagedExact(T)
  BY <1>3, <1>6, StagedExactSame DEF Conflicts
<1>10. TodoThere(T)
  BY <1>1, <1>3, <1>4, <1>7, <1>8 DEF Exactly, TodoThere
<1>11. Exactly(store, T)
  BY <1>1, <1>3, <1>4, <1>9, <1>10 DEF Exactly, GuardsTouch
<1>12. store' = store /\ txn'[c] = T /\ \A d \in Txns \ {c} : txn'[d] = txn[d]
  BY DEF Perform, GuardedInv, UniqueInv, TypeInv, TypeOK, T
<1>13. ASSUME NEW d \in Txns, txn'[d].status = "active"
       PROVE  Exactly(store', txn'[d])
  BY <1>11, <1>12, <1>13 DEF GuardedInv, ExactInv
<1>14. ExactIn(store')
  BY <1>12 DEF GuardedInv, ExactInv
<1> QED BY <1>13, <1>14 DEF ExactInv

\* A transaction that writes a row another has committed cannot commit.
LEMMA WritesOfOthersConflict ==
  ASSUME NEW L \in Transactions, NEW e, TypedEffect(e), ~Conflicts(Stage(L, e)),
         NEW x \in DOMAIN e.puts
  PROVE  RowKey(x) \notin L.dirty
BY StagedGrows DEF Conflicts

\* insert and one row of insert_many: no check lets a row through that the
\* snapshot holds, unless the transaction can no longer commit.
LEMMA InsertKeepsExact ==
  ASSUME GuardedInv, Revisit = FALSE,
         NEW c \in Txns, NEW x \in RowIds, NEW r \in RowsOf(x[1]), NEW stmt,
         txn[c].status = "active", PkGuardFree(txn[c], x),
         ~Composite(x[1]) => ReadByPk(txn[c], x) = NoRow \/ Visible(txn[c], x) = NoRow,
         Perform(c, InsertRow(txn[c], x, r), stmt),
         stmt.kind = "update_where" => /\ txn[c].stmt.kind = "update_where"
                                       /\ DOMAIN stmt.todo \subseteq DOMAIN txn[c].stmt.todo
  PROVE  ExactInv'
<1> DEFINE L == txn[c]
           e == InsertRow(L, x, r)
<1>1. TypedEffect(e)
  BY InsertRowTyped
<1>2. DOMAIN e.shown = {x} /\ DOMAIN e.puts = {x}
  BY DEF InsertRow, WriteRow, NoEffect
<1>3. L.view[x] = Untouched
  BY <1>2 DEF Perform, MayWrite
<1>4. L \in Transactions /\ ExactIn(L.snap)
  BY DEF GuardedInv, UniqueInv, TypeInv, TypeOK, ExactInv, Exactly
<1>5. ASSUME ~Conflicts(Stage(L, e))
      PROVE  ExactEffect(L, e)
  <2>1. RowKey(x) \notin L.dirty
    <3> HIDE DEF e, L
    <3> QED BY <1>1, <1>2, <1>4, <1>5, WritesOfOthersConflict
  <2>2. CASE Composite(x[1])
    <3>1. L.snap[PkGuard(x)] # x
      BY <2>2, KitSchemaAssumption DEF PkGuardFree, SchemaAssumption
    <3>2. L.snap[RowKey(x)] = NoRow
      BY <1>4, <2>2, <3>1 DEF ExactIn
    <3> QED BY <1>3, <1>4, <3>2, InsertExact
  <2>3. CASE ~Composite(x[1])
    <3>1. L.snap[RowKey(x)] = NoRow
      BY <1>3, <2>1, <2>3, OldRow DEF GuardedInv
    <3> QED BY <1>3, <1>4, <3>1, InsertExact
  <2> QED BY <2>2, <2>3
<1> HIDE DEF e
<1> QED BY <1>1, <1>5, PerformExact DEF e

\* update and one row of update_where.
LEMMA UpdateKeepsExact ==
  ASSUME GuardedInv, DistinctNames, Revisit = FALSE,
         NEW c \in Txns, NEW x \in RowIds, NEW r \in RowsOf(x[1]), NEW stmt,
         txn[c].status = "active",
         NEW old \in {ReadByPk(txn[c], x), Visible(txn[c], x)},
         txn[c].view[x] = Untouched /\ RowKey(x) \notin txn[c].dirty => old # NoRow,
         Perform(c, WriteRow(txn[c], x, r, old), stmt),
         stmt.kind = "update_where" => /\ txn[c].stmt.kind = "update_where"
                                       /\ DOMAIN stmt.todo \subseteq DOMAIN txn[c].stmt.todo
  PROVE  ExactInv'
<1> DEFINE L == txn[c]
           e == WriteRow(L, x, r, old)
<1>1. old \in RowsOf(x[1]) \cup {NoRow}
  BY ReadsTyped DEF GuardedInv, UniqueInv, TypeInv
<1>2. TypedEffect(e) /\ DOMAIN e.shown = {x} /\ DOMAIN e.puts = {x}
  <2>1. TypedEffect(e)
    BY <1>1, WriteRowTyped
  <2> QED BY <2>1 DEF WriteRow, NoEffect
<1>3. L.view[x] = Untouched
  BY <1>2 DEF Perform, MayWrite
<1>4. L \in Transactions /\ CompleteIn(L.snap) /\ ExactIn(L.snap)
  BY DEF GuardedInv, UniqueInv, TypeInv, TypeOK, UniquenessInv, SnapshotCurrent, ExactInv, Exactly
<1>5. ASSUME ~Conflicts(Stage(L, e))
      PROVE  ExactEffect(L, e)
  <2>1. RowKey(x) \notin L.dirty
    <3> HIDE DEF e, L
    <3> QED BY <1>2, <1>4, <1>5, WritesOfOthersConflict
  <2>2. old = L.snap[RowKey(x)]
    BY <1>3, <2>1, OldRow DEF GuardedInv
  <2>3. old \in RowsOf(x[1])
    BY <1>1, <1>3, <2>1
  <2> QED BY <1>3, <1>4, <2>2, <2>3, UpdateExact
<1> HIDE DEF e
<1> QED BY <1>2, <1>5, PerformExact DEF e

\* The fast paths.
LEMMA FastKeepsExact ==
  ASSUME GuardedInv, Revisit = FALSE, NEW c \in Txns, NEW x \in RowIds,
         \/ \E r \in RowsOf(x[1]) : UpdateFast(c, x, r)
         \/ DeleteFast(c, x)
  PROVE  ExactInv'
<1>1. txn[c].status = "active" /\ UniquesOf(x[1]) = {} /\ ~Composite(x[1])
  BY DEF UpdateFast, DeleteFast, Running, FastUpdate, FastDelete
<1>2. /\ ExactIn(txn[c].snap) /\ RowKey(x) \in Keys
      /\ \A k \in Keys \ txn[c].dirty : txn[c].snap[k] = store[k]
      /\ NoStatement.kind # "update_where"
  BY <1>1, KeyKinds
     DEF GuardedInv, UniqueInv, UniquenessInv, SnapshotCurrent, ExactInv, Exactly, NoStatement
<1>3. ASSUME NEW r \in RowsOf(x[1]), UpdateFast(c, x, r)
      PROVE  ExactInv'
  <2> DEFINE e == [NoEffect EXCEPT !.puts = [y \in {x} |-> r], !.shown = [y \in {x} |-> r]]
  <2>1. Perform(c, e, NoStatement) /\ DOMAIN e.shown = {x}
    BY <1>3 DEF UpdateFast, NoEffect
  <2>2. txn[c].view[x] = Untouched
    BY <2>1 DEF Perform, MayWrite
  <2>3. txn[c].snap[RowKey(x)] # NoRow
    BY <1>2, <1>3 DEF UpdateFast
  <2>4. TypedEffect(e)
    BY PutTyped
  <2>5. \A d : d = e => ExactEffect(txn[c], d)
    BY <1>1, <1>2, <2>2, <2>3, PutExact
  <2> QED BY <1>1, <1>2, <2>1, <2>4, <2>5, PerformExact
<1>4. ASSUME DeleteFast(c, x)
      PROVE  ExactInv'
  <2> DEFINE e == [NoEffect EXCEPT !.gone = {x}]
  <2>1. Perform(c, e, NoStatement) /\ e.gone = {x}
    BY <1>4 DEF DeleteFast, NoEffect
  <2>2. txn[c].view[x] = Untouched
    BY <2>1 DEF Perform, MayWrite
  <2>3. TypedEffect(e)
    BY GoneTyped
  <2>4. \A d : d = e => ExactEffect(txn[c], d)
    BY <1>1, <1>2, <2>2, GoneExact
  <2> QED BY <1>1, <1>2, <2>1, <2>3, <2>4, PerformExact
<1> QED BY <1>3, <1>4

\* delete and one row of delete_where.
LEMMA DeleteKeepsExact ==
  ASSUME GuardedInv, Revisit = FALSE, NEW c \in Txns, NEW x \in RowIds, NEW stmt,
         txn[c].status = "active", NEW pick \in Picks(RefsFound(txn[c], x), x),
         Perform(c, DeleteRow(txn[c], x, RefsFound(txn[c], x), pick), stmt),
         stmt.kind = "update_where" => /\ txn[c].stmt.kind = "update_where"
                                       /\ DOMAIN stmt.todo \subseteq DOMAIN txn[c].stmt.todo
  PROVE  ExactInv'
<1> DEFINE e == DeleteRow(txn[c], x, RefsFound(txn[c], x), pick)
<1>1. TypeOK
  BY DEF GuardedInv, UniqueInv, TypeInv
<1>2. \A y \in RowsOfEffect(e) : txn[c].view[y] = Untouched
  BY DEF Perform, MayWrite, RowsOfEffect
<1>3. TypedEffect(e) /\ ExactEffect(txn[c], e)
  BY <1>1, <1>2, DeleteRowTyped, DeleteRowExact
<1> HIDE DEF e
<1> QED BY <1>3, PerformExact DEF e

LEMMA TruncateKeepsExact ==
  ASSUME GuardedInv, NEW c \in Txns, NEW t \in Tables, Truncate(c, t)
  PROVE  ExactInv'
<1> DEFINE e == TruncateTable(txn[c], t)
<1>1. /\ txn[c].status = "active" /\ Perform(c, e, NoStatement)
      /\ TypedEffect(e) /\ ExactEffect(txn[c], e)
  BY TruncateTyped, TruncateExact DEF Truncate, Running, GuardedInv, UniqueInv, TypeInv, TypeOK
<1>2. NoStatement.kind # "update_where"
  BY DEF NoStatement
<1> HIDE DEF e
<1> QED BY <1>1, <1>2, PerformExact

\* The start of a statement stages nothing; update_where selects rows it sees.
LEMMA StartKeepsExact ==
  ASSUME GuardedInv, NEW c \in Txns, NEW kind, NEW todo, StartStatement(c, kind, todo),
         kind = "update_where" => DOMAIN todo \subseteq {x \in RowIds : Visible(txn[c], x) # NoRow}
  PROVE  ExactInv'
<1> DEFINE L == txn[c]
           T == [L EXCEPT !.stmt = [kind |-> kind, todo |-> todo, found |-> {}]]
<1>1. L \in Transactions /\ L.status = "active" /\ Exactly(store, L)
  BY DEF GuardedInv, UniqueInv, TypeInv, TypeOK, ExactInv, StartStatement, Running
<1>2. /\ T.staged = L.staged /\ T.view = L.view /\ T.snap = L.snap
      /\ T.dirty = L.dirty /\ T.made = L.made
      /\ T.stmt.kind = kind /\ T.stmt.todo = todo
  BY <1>1 DEF Transactions
<1>3. store' = store /\ txn'[c] = T /\ \A d \in Txns \ {c} : txn'[d] = txn[d]
  BY DEF StartStatement, GuardedInv, UniqueInv, TypeInv, TypeOK
<1>4. \A x \in RowIds : L.view[x] = Untouched /\ Visible(L, x) # NoRow => L.snap[RowKey(x)] # NoRow
  BY DEF Visible
<1> HIDE DEF T
<1>5. ~Conflicts(T) => StagedExact(T)
  BY <1>1, <1>2, StagedExactSame DEF Conflicts, Exactly
<1>6. TodoThere(T)
  BY <1>2, <1>4 DEF TodoThere
<1>7. Exactly(store, T)
  BY <1>1, <1>2, <1>5, <1>6 DEF Exactly, GuardsTouch
<1>8. ASSUME NEW d \in Txns, txn'[d].status = "active"
      PROVE  Exactly(store', txn'[d])
  BY <1>3, <1>7, <1>8 DEF GuardedInv, ExactInv
<1> QED BY <1>3, <1>8 DEF GuardedInv, ExactInv

-----------------------------------------------------------------------------
(* The end of a transaction.                                                *)

\* A transaction that can commit leaves exact guards, and every guard it
\* writes comes with a write of the guard's row.
LEMMA InstallExact ==
  ASSUME GuardedInv, NEW c \in Txns, txn[c].status = "active", ~Conflicts(txn[c])
  PROVE  LET s == Install(store, txn[c].staged)
         IN  /\ ExactIn(s)
             /\ \A k \in GuardKeys, x \in RowIds :
                  s[k] = x => store[k] = x \/ RowKey(x) \in WriteSet(txn[c].staged)
<1> DEFINE L == txn[c]
           s == Install(store, L.staged)
<1>1. /\ L \in Transactions /\ TypedTxn(L) /\ SnapshotCurrent(L)
      /\ Exactly(store, L) /\ StagedExact(L) /\ ExactIn(store)
  BY DEF GuardedInv, UniqueInv, UniquenessInv, TypeInv, TypeOK, ExactInv, Exactly
<1>2. \A k \in Keys : s[k] = IF L.staged[k] = Untouched THEN store[k] ELSE L.staged[k]
  BY DEF Install, GuardedInv, UniqueInv, TypeInv, TypeOK
<1>3. \A k \in Keys : k \in WriteSet(L.staged) <=> L.staged[k] # Untouched
  BY <1>1 DEF WriteSet, Transactions
<1>4. \A k \in Keys : L.staged[k] # Untouched => k \notin L.dirty /\ L.snap[k] = store[k]
  BY <1>1, <1>3 DEF SnapshotCurrent, Conflicts
<1>5. /\ \A x \in RowIds : RowKey(x) \in Keys /\ PkGuard(x) \in GuardKeys
      /\ \A k \in GuardKeys : k \in Keys
  BY KeyKinds
<1>6. /\ \A x \in RowIds : x # NoRow /\ x # Untouched
      /\ NoRow # Untouched
  BY KitSchemaAssumption, KitTxnAssumption DEF SchemaAssumption
<1> HIDE DEF s, L
<1>7. \A x \in RowIds : HasRow(L.staged, x) =>
        s[RowKey(x)] = L.staged[RowKey(x)] /\ s[RowKey(x)] # NoRow /\ Written(L, x)
  BY <1>2, <1>5 DEF HasRow, Written
<1>8. ASSUME NEW k \in GuardKeys, NEW x \in RowIds, s[k] = x
      PROVE  /\ store[k] = x \/ RowKey(x) \in WriteSet(L.staged)
             /\ s[RowKey(x)] # NoRow /\ k \in RowKeys(x, s[RowKey(x)])
  <2>1. CASE L.staged[k] = x
    <3>1. HasRow(L.staged, x) /\ k \in RowKeys(x, L.staged[RowKey(x)])
      BY <1>1, <2>1 DEF StagedExact, StagedGuardsExact
    <3> QED BY <1>3, <1>5, <1>7, <3>1 DEF Written
  <2>2. CASE L.staged[k] # x
    <3>1. L.staged[k] = Untouched /\ store[k] = x
      BY <1>2, <1>5, <1>8, <2>2
    <3>2. store[RowKey(x)] # NoRow /\ k \in RowKeys(x, store[RowKey(x)])
      BY <1>1, <3>1 DEF ExactIn
    <3>3. CASE ~Written(L, x)
      BY <1>2, <1>5, <3>1, <3>2, <3>3 DEF Written
    <3>4. CASE Written(L, x)
      <4>1. L.snap[k] = x
        BY <1>1, <1>4, <1>5, <3>1, <3>4 DEF Exactly, GuardsTouch, Written
      <4>2. HasRow(L.staged, x) /\ k \in RowKeys(x, L.staged[RowKey(x)])
        BY <1>1, <3>1, <3>4, <4>1 DEF StagedExact, StagedGuardsExact
      <4> QED BY <1>7, <3>1, <4>2
    <3> QED BY <3>3, <3>4
  <2> QED BY <2>1, <2>2
<1>9. ASSUME NEW x \in RowIds, s[RowKey(x)] # NoRow, Composite(x[1])
      PROVE  s[PkGuard(x)] = x
  <2>1. CASE Written(L, x)
    <3>1. HasRow(L.staged, x) /\ L.snap[RowKey(x)] = store[RowKey(x)]
      BY <1>2, <1>4, <1>5, <1>9, <2>1 DEF HasRow, Written
    <3>2. \/ L.staged[PkGuard(x)] = x
          \/ L.staged[PkGuard(x)] = Untouched /\ store[RowKey(x)] # NoRow
      BY <1>1, <1>9, <3>1 DEF StagedExact, CompositesGuarded
    <3> QED BY <1>1, <1>2, <1>5, <1>6, <1>9, <3>2 DEF ExactIn
  <2>2. CASE ~Written(L, x)
    <3>1. store[PkGuard(x)] = x
      BY <1>1, <1>2, <1>5, <1>9, <2>2 DEF ExactIn, Written
    <3>2. L.staged[PkGuard(x)] # NoRow
      BY <1>1, <2>2 DEF StagedExact, CompositesGuarded
    <3>3. L.staged[PkGuard(x)] \in RowIds \cup {NoRow, Untouched}
      BY <1>1, <1>5, KeyKinds DEF TypedTxn, WellTyped
    <3>4. L.staged[PkGuard(x)] \in RowIds => L.staged[PkGuard(x)] = x
      BY <1>1, <1>5, RowKeysFacts DEF StagedExact, StagedGuardsExact
    <3> QED BY <1>2, <1>5, <3>1, <3>2, <3>3, <3>4
  <2> QED BY <2>1, <2>2
<1> QED BY <1>8, <1>9 DEF ExactIn, s, L

LEMMA CommitKeepsExact ==
  ASSUME GuardedInv, NEW c \in Txns, Commit(c)
  PROVE  ExactInv'
<1> DEFINE W == WriteSet(txn[c].staged)
<1>1. /\ store' = Install(store, txn[c].staged) /\ ExactIn(store')
      /\ \A k \in GuardKeys, x \in RowIds : store'[k] = x => store[k] = x \/ RowKey(x) \in W
  BY InstallExact DEF Commit
<1>2. ASSUME NEW d \in Txns, txn'[d].status = "active"
      PROVE  Exactly(store', txn'[d])
  <2>1. d # c /\ txn[d].status = "active"
    <3>1. Idle.status = "idle"
      BY IdleTyped, FreshTyped DEF Idle, Fresh
    <3> QED BY <1>2, <3>1 DEF Commit
  <2> DEFINE M == [txn[d] EXCEPT !.behind = @ + 1, !.dirty = @ \cup W]
             D == txn[d]
  <2>2. txn'[d] = M
    BY <2>1 DEF Commit
  <2>3. D \in Transactions
    BY DEF GuardedInv, UniqueInv, TypeInv, TypeOK
  <2>4. /\ M.staged = D.staged /\ M.view = D.view /\ M.snap = D.snap
        /\ M.stmt = D.stmt /\ M.made = D.made /\ M.dirty = D.dirty \cup W
    BY <2>3 DEF Transactions
  <2>5. Exactly(store, D)
    BY <2>1 DEF GuardedInv, ExactInv
  <2> HIDE DEF M, W, D
  <2>6. ~Conflicts(M) => StagedExact(M)
    BY <2>4, <2>5, StagedExactSame DEF Conflicts, Exactly
  <2>7. GuardsTouch(store', M)
    BY <1>1, <2>4, <2>5 DEF Exactly, GuardsTouch
  <2>8. TodoThere(M) /\ ExactIn(M.snap)
    BY <2>4, <2>5 DEF Exactly, TodoThere
  <2> QED BY <2>2, <2>6, <2>7, <2>8 DEF Exactly
<1> QED BY <1>1, <1>2 DEF ExactInv

\* A transaction that has just begun has staged nothing.
LEMMA FreshIsExact ==
  ASSUME GuardedInv, NEW n
  PROVE  Exactly(store, Fresh(store, n))
<1> DEFINE F == Fresh(store, n)
<1>1. /\ F.snap = store /\ F.stmt = NoStatement /\ F.made = {}
      /\ F.staged = [k \in Keys |-> Untouched]
      /\ F.view = [x \in RowIds |-> Untouched]
  BY DEF Fresh
<1>2. /\ \A x \in RowIds : F.staged[RowKey(x)] = Untouched /\ F.view[x] = Untouched
      /\ \A k \in GuardKeys : F.staged[k] = Untouched
  BY <1>1, KeyKinds
<1>3. /\ NoRow # Untouched /\ Untouched \notin AllRows
      /\ \A x \in RowIds : x # Untouched /\ PkGuard(x) \in GuardKeys
  BY KitTxnAssumption, KeyKinds
<1>4. F.stmt.kind # "update_where"
  BY <1>1 DEF NoStatement
<1>5. ExactIn(store)
  BY DEF GuardedInv, ExactInv
<1> HIDE DEF F
<1>6. StagedExact(F)
  BY <1>1, <1>2, <1>3 DEF StagedExact, StagedGuardsExact, CompositesGuarded, MadeExact,
                          HasRow, Written
<1>7. Exactly(store, F)
  BY <1>1, <1>4, <1>5, <1>6 DEF Exactly, GuardsTouch, TodoThere
<1> QED BY <1>7 DEF F

LEMMA AttemptKeepsExact ==
  ASSUME GuardedInv, NEW c \in Txns,
         Begin(c) \/ Conflict(c) \/ Rollback(c) \/ RollbackRetry(c)
  PROVE  ExactInv'
<1>1. Idle.status = "idle"
  BY IdleTyped, FreshTyped DEF Idle, Fresh
<1>2. PICK M : /\ txn' = [txn EXCEPT ![c] = M]
               /\ M = Idle \/ \E n : M = Fresh(store, n)
  BY DEF Begin, Conflict, Rollback, RollbackRetry
<1>3. store' = store /\ txn'[c] = M /\ \A d \in Txns \ {c} : txn'[d] = txn[d]
  BY <1>2 DEF Begin, Conflict, Rollback, RollbackRetry, GuardedInv, UniqueInv, TypeInv, TypeOK
<1>4. M.status = "active" => Exactly(store, M)
  BY <1>1, <1>2, FreshIsExact
<1>5. ASSUME NEW d \in Txns, txn'[d].status = "active"
      PROVE  Exactly(store', txn'[d])
  BY <1>3, <1>4, <1>5 DEF GuardedInv, ExactInv
<1> QED BY <1>3, <1>5 DEF GuardedInv, ExactInv

-----------------------------------------------------------------------------
(* The theorems.                                                            *)

LEMMA InitGuarded == Init => GuardedInv
<1> SUFFICES ASSUME Init
             PROVE  GuardedInv
  OBVIOUS
<1>1. Idle.status = "idle"
  BY IdleTyped, FreshTyped DEF Idle, Fresh
<1>2. \A k \in Keys : store[k] = NoRow
  BY DEF Init, NoStore
<1>3. ExactIn(store)
  BY <1>2, KeyKinds, KitSchemaAssumption DEF ExactIn, SchemaAssumption
<1> QED BY <1>1, <1>3, InitUnique DEF Init, GuardedInv, ExactInv

LEMMA NextGuarded ==
  ASSUME GuardedInv, DistinctNames, WritesOnce, [Next]_vars
  PROVE  GuardedInv'
<1>1. UniqueInv'
  BY NextUnique DEF GuardedInv
<1>2. /\ Revisit = FALSE /\ Targets \subseteq RowIds
      /\ NoStatement.kind # "update_where"
  BY KitTxnAssumption DEF WritesOnce, NoStatement
<1>3. CASE UNCHANGED vars
  BY <1>1, <1>3 DEF vars, GuardedInv, ExactInv
<1>4. ASSUME NEW c \in Txns, Begin(c) \/ Finish(c)
      PROVE  ExactInv'
  BY <1>4, AttemptKeepsExact, CommitKeepsExact DEF Finish
<1>5. ASSUME NEW c \in Txns, Operation(c)
      PROVE  ExactInv'
  <2>1. ASSUME NEW x \in RowIds, NEW r \in RowsOf(x[1]),
               Insert(c, x, r) \/ Update(c, x, r) \/ UpdateFast(c, x, r)
        PROVE  ExactInv'
    <3>1. CASE Insert(c, x, r)
      <4>1. /\ txn[c].status = "active" /\ PkGuardFree(txn[c], x)
            /\ ~Composite(x[1]) => ReadByPk(txn[c], x) = NoRow
            /\ Perform(c, InsertRow(txn[c], x, r), NoStatement)
        BY <3>1 DEF Insert, Running, RowExists
      <4> QED BY <1>2, <4>1, InsertKeepsExact
    <3>2. CASE Update(c, x, r)
      <4>1. /\ txn[c].status = "active" /\ ReadByPk(txn[c], x) # NoRow
            /\ Perform(c, WriteRow(txn[c], x, r, ReadByPk(txn[c], x)), NoStatement)
        BY <3>2 DEF Update, Running
      <4> QED BY <1>2, <4>1, UpdateKeepsExact
    <3>3. CASE UpdateFast(c, x, r)
      BY <1>2, <3>3, FastKeepsExact
    <3> QED BY <2>1, <3>1, <3>2, <3>3
  <2>2. ASSUME NEW x \in RowIds, Delete(c, x) \/ DeleteFast(c, x)
        PROVE  ExactInv'
    BY <1>2, <2>2, DeleteKeepsExact, FastKeepsExact DEF Delete, Running
  <2>3. ASSUME NEW x \in RowIds,
               InsertManyRow(c, x) \/ UpdateWhereRow(c, x) \/ DeleteWhereRow(c, x)
        PROVE  ExactInv'
    <3> DEFINE L == txn[c]
               r == L.stmt.todo[x]
    <3>1. /\ x \in DOMAIN L.stmt.todo /\ L.status = "active" /\ r \in RowsOf(x[1])
          /\ L \in Transactions
      BY <2>3 DEF InsertManyRow, UpdateWhereRow, DeleteWhereRow, InStatement,
                  GuardedInv, UniqueInv, TypeInv, TypeOK, TypedTxn
    <3>2. \A found : Rest(L, x, found).kind = "update_where" =>
            /\ L.stmt.kind = "update_where"
            /\ DOMAIN Rest(L, x, found).todo \subseteq DOMAIN L.stmt.todo
      BY <3>1, RestIsLeft
    <3>3. CASE InsertManyRow(c, x)
      <4>1. /\ PkGuardFree(L, x)
            /\ ~Composite(x[1]) => Visible(L, x) = NoRow
            /\ Perform(c, InsertRow(L, x, r), Rest(L, x, ParentsOf(x, r)))
        BY <3>3 DEF InsertManyRow
      <4> QED BY <1>2, <3>1, <3>2, <4>1, InsertKeepsExact
    <3>4. CASE UpdateWhereRow(c, x)
      <4>1. /\ L.stmt.kind = "update_where"
            /\ Perform(c, WriteRow(L, x, r, Visible(L, x)), Rest(L, x, {}))
        BY <3>4 DEF UpdateWhereRow, InStatement
      <4>2. L.view[x] = Untouched => Visible(L, x) # NoRow
        BY <3>1, <4>1 DEF GuardedInv, ExactInv, Exactly, TodoThere, Visible
      <4> QED BY <1>2, <3>1, <3>2, <4>1, <4>2, UpdateKeepsExact
    <3>5. CASE DeleteWhereRow(c, x)
      BY <1>2, <3>1, <3>2, <3>5, DeleteKeepsExact DEF DeleteWhereRow
    <3> QED BY <2>3, <3>3, <3>4, <3>5
  <2>4. ASSUME NEW t \in Tables, Truncate(c, t)
        PROVE  ExactInv'
    BY <2>4, TruncateKeepsExact
  <2>5. ASSUME NEW t \in Tables,
               StartInsertMany(c, t) \/ StartUpdateWhere(c, t) \/ StartDeleteWhere(c, t)
        PROVE  ExactInv'
    <3>1. \A S \in SUBSET Selected(txn[c], t) :
            S \subseteq {x \in RowIds : Visible(txn[c], x) # NoRow}
      BY <1>2 DEF Selected
    <3>2. CASE StartInsertMany(c, t) \/ StartDeleteWhere(c, t)
      BY <3>2, StartKeepsExact DEF StartInsertMany, StartDeleteWhere
    <3>3. CASE StartUpdateWhere(c, t)
      BY <3>1, <3>3, StartKeepsExact DEF StartUpdateWhere
    <3> QED BY <2>5, <3>2, <3>3
  <2>6. \A x, r, patch : ~UpsertAbsent(c, x, r) /\ ~UpsertExisting(c, x, r, patch)
    BY DEF UpsertAbsent, UpsertExisting, Running, WritesOnce
  <2> QED BY <1>2, <1>5, <2>1, <2>2, <2>3, <2>4, <2>5, <2>6 DEF Operation
<1> QED BY <1>1, <1>3, <1>4, <1>5 DEF Next, GuardedInv

\* Complete and exact guards are the ones rows need.
LEMMA ExactGuardsMatch ==
  ASSUME TypeOK, CompleteIn(store), ExactIn(store)
  PROVE  GuardsMatchRows
<1> SUFFICES ASSUME NEW k \in GuardKeys
             PROVE  IF OwnersOf(k) = {} THEN store[k] = NoRow ELSE store[k] \in OwnersOf(k)
  BY DEF GuardsMatchRows
<1>1. store[k] \in RowIds \cup {NoRow}
  BY KeyKinds DEF TypeOK, WellTyped
<1>2. \A x \in RowIds : x \in OwnersOf(k) <=>
        store[RowKey(x)] # NoRow /\ k \in RowKeys(x, store[RowKey(x)])
  BY DEF OwnersOf, Committed, RowKeys
<1>3. ASSUME store[k] \in RowIds
      PROVE  store[k] \in OwnersOf(k)
  BY <1>2, <1>3 DEF ExactIn
<1>4. ASSUME NEW x \in OwnersOf(k)
      PROVE  store[k] = x
  <2>1. x \in RowIds /\ store[RowKey(x)] # NoRow
    BY <1>2 DEF OwnersOf
  <2>2. CASE k \in KeysFor(x, store[RowKey(x)], NoRow)
    BY <2>1, <2>2 DEF KeysFor, Changed, CompleteIn, OwnsItsKeys
  <2>3. CASE k \in PkGuardOf(x)
    BY <2>1, <2>3 DEF PkGuardOf, ExactIn
  <2> QED BY <1>2, <2>1, <2>2, <2>3 DEF RowKeys
<1> QED BY <1>1, <1>3, <1>4

\* Whatever transactions are interleaved, __kit_unique_keys holds one row per
\* live key and no other, if the constraints of a table have distinct names and
\* each transaction writes a row at most once and does not upsert (txn.rs,
\* delete_unique_guards and the guard rows written with a row).
THEOREM GuardsStayExact ==
  ASSUME DistinctNames, WritesOnce
  PROVE  Spec => []GuardsMatchRows
<1>1. Init => GuardedInv
  BY InitGuarded
<1>2. GuardedInv /\ [Next]_vars => GuardedInv'
  BY NextGuarded
<1>3. GuardedInv => GuardsMatchRows
  BY ExactGuardsMatch DEF GuardedInv, UniqueInv, UniquenessInv, TypeInv, ExactInv
<1> QED BY <1>1, <1>2, <1>3, PTL DEF Spec

\* Operations write to the engine's staging only.
LEMMA OperationsKeepStore ==
  ASSUME NEW c, Operation(c)
  PROVE  store' = store
<1>1. \A e, stmt : Perform(c, e, stmt) => store' = store
  BY DEF Perform
<1>2. \A x, r : Insert(c, x, r) \/ Update(c, x, r) \/ UpdateFast(c, x, r) \/ UpsertAbsent(c, x, r)
                  => store' = store
  BY <1>1 DEF Insert, Update, UpdateFast, UpsertAbsent
<1>3. \A x, r, patch : UpsertExisting(c, x, r, patch) => store' = store
  BY <1>1 DEF UpsertExisting
<1>4. \A x : Delete(c, x) \/ DeleteFast(c, x) \/ InsertManyRow(c, x) \/ UpdateWhereRow(c, x)
               \/ DeleteWhereRow(c, x) => store' = store
  BY <1>1 DEF Delete, DeleteFast, InsertManyRow, UpdateWhereRow, DeleteWhereRow
<1>5. \A t : Truncate(c, t) \/ StartInsertMany(c, t) \/ StartUpdateWhere(c, t)
               \/ StartDeleteWhere(c, t) => store' = store
  BY <1>1 DEF Truncate, StartInsertMany, StartUpdateWhere, StartDeleteWhere, StartStatement
<1> QED BY <1>2, <1>3, <1>4, <1>5 DEF Operation

\* Only the commit of c itself takes c from active to idle and changes the store.
LEMMA CommitsByCommit ==
  ASSUME TypeOK, Next, NEW c \in Txns, Commits(c)
  PROVE  Commit(c)
<1>1. PICK d \in Txns : Begin(d) \/ Operation(d) \/ Finish(d)
  BY DEF Next
<1>2. store' # store /\ txn[c].status = "active" /\ txn'[c].status = "idle"
  BY DEF Commits
<1>3. Commit(d)
  BY <1>1, <1>2, OperationsKeepStore DEF Begin, Finish, Conflict, Rollback, RollbackRetry
<1>4. ASSUME d # c
      PROVE  FALSE
  <2>1. txn'[c] = [txn[c] EXCEPT !.behind = @ + 1, !.dirty = @ \cup WriteSet(txn[d].staged)]
    BY <1>2, <1>3, <1>4 DEF Commit
  <2>2. txn[c] \in Transactions
    BY DEF TypeOK
  <2>3. txn'[c].status = txn[c].status
    BY <2>1, <2>2 DEF Transactions
  <2> QED BY <1>2, <2>3
<1> QED BY <1>3, <1>4

\* An insert adds a row and an update replaces one of the store as it is when
\* the transaction commits, under the same conditions (txn.rs, check_pk and the
\* lookups of insert, update and update_where).
THEOREM InsertsStayInserts ==
  ASSUME DistinctNames, WritesOnce
  PROVE  Spec => InsertsAddUpdatesReplace
<1> DEFINE Made == \A c \in Txns :
                     Commits(c) =>
                       \A x \in RowIds : txn[c].view[x] \in AllRows =>
                         (x \in txn[c].made <=> store[RowKey(x)] = NoRow)
<1>1. Init => GuardedInv
  BY InitGuarded
<1>2. GuardedInv /\ [Next]_vars => GuardedInv'
  BY NextGuarded
<1>3. GuardedInv /\ [Next]_vars => [Made]_vars
  <2> SUFFICES ASSUME GuardedInv, Next, NEW c \in Txns, Commits(c), NEW x \in RowIds,
                      txn[c].view[x] \in AllRows
               PROVE  x \in txn[c].made <=> store[RowKey(x)] = NoRow
    OBVIOUS
  <2> DEFINE L == txn[c]
  <2>1. Commit(c) /\ L.status = "active" /\ ~Conflicts(L)
    BY CommitsByCommit DEF GuardedInv, UniqueInv, TypeInv, Commit
  <2>2. L \in Transactions /\ SnapshotCurrent(L) /\ StagedExact(L)
    BY <2>1 DEF GuardedInv, UniqueInv, UniquenessInv, TypeInv, TypeOK, ExactInv, Exactly
  <2>3. /\ Written(L, x)
        /\ x \in L.made <=> L.snap[RowKey(x)] = NoRow
    BY <2>2 DEF StagedExact, MadeExact
  <2>4. RowKey(x) \in Keys
    BY KeyKinds
  <2>5. RowKey(x) \notin L.dirty
    BY <2>1, <2>2, <2>3, <2>4 DEF Conflicts, WriteSet, Written, Transactions
  <2>6. L.snap[RowKey(x)] = store[RowKey(x)]
    BY <2>2, <2>4, <2>5 DEF SnapshotCurrent
  <2> QED BY <2>3, <2>6
<1>4. [][Made]_vars => InsertsAddUpdatesReplace
  BY DEF InsertsAddUpdatesReplace
<1> QED BY <1>1, <1>2, <1>3, <1>4, PTL DEF Spec

-----------------------------------------------------------------------------
(* Staging keeps references.                                                *)

\* A staged row is written, and is a row of its table.
LEMMA StagedRows ==
  ASSUME NEW L, TypedTxn(L), NEW x \in RowIds
  PROVE  /\ HasRow(L.staged, x) => Written(L, x) /\ L.staged[RowKey(x)] \in RowsOf(x[1])
         /\ HasRow(L.snap, x) => L.snap[RowKey(x)] \in RowsOf(x[1])
         /\ L.snap[RowKey(x)] # Untouched
<1>1. /\ L.staged[RowKey(x)] \in RowsOf(x[1]) \cup {NoRow, Untouched}
      /\ L.snap[RowKey(x)] \in RowsOf(x[1]) \cup {NoRow}
  BY KeyKinds DEF TypedTxn, WellTyped
<1>2. L.snap[RowKey(x)] # Untouched
  BY <1>1, RowsAreNotNoRow, KitTxnAssumption
<1> QED BY <1>1, <1>2 DEF HasRow, Written

-----------------------------------------------------------------------------
(* Staging a careful effect keeps what holds of the transaction.            *)

\* The row r at x refers to y by f.
Names(f, x, r, y) == f.child = x[1] /\ f.parent = y[1] /\ r[f.col] = y[2]

\* The row y was there when it was looked for, or its loss is a conflict.
Found(s, L, y) ==
  /\ L.staged[RowKey(y)] # NoRow
  /\ Written(L, y) \/ s[RowKey(y)] # NoRow \/ RowGuard(y) \in L.dirty

\* The part of an effect that references depend on: the rows it writes are new
\* to the transaction and shown as they are written; what a row it puts refers
\* to was found and is touched, or is what the row referred to before; a parent
\* that goes is touched, and so is every row that refers to it.
CarefulEffect(s, L, e) ==
  /\ e.puts = e.shown
  /\ \A y \in e.gone : y \notin DOMAIN e.puts
  /\ \A y \in RowsOfEffect(e) : L.view[y] = Untouched
  /\ \A y \in RowIds : RowKey(y) \notin e.release
  /\ \A f \in FKs, x \in DOMAIN e.puts, y \in RowIds : Names(f, x, e.puts[x], y) =>
       /\ y \notin e.gone
       /\ \/ y \in e.touch /\ Found(s, L, y)
          \/ Refers(L.snap, f, x, y) /\ L.staged[RowKey(y)] # NoRow
  /\ \A y \in e.gone : Referenced(y) =>
       /\ y \in e.touch
       /\ \A f \in FKs, x \in RowIds :
            Visible(L, x) # NoRow /\ Names(f, x, Visible(L, x), y) => x \in RowsOfEffect(e)

\* A row held stays held while it is not deleted.
LEMMA HeldStays ==
  ASSUME NEW s, NEW L \in Transactions, NEW e, TypedEffect(e), CarefulEffect(s, L, e),
         NEW y \in RowIds, y \notin e.gone
  PROVE  /\ ParentHeld(s, L, y) => ParentHeld(s, Stage(L, e), y)
         /\ y \in e.touch /\ Found(s, L, y) /\ ~Conflicts(Stage(L, e))
              => ParentHeld(s, Stage(L, e), y)
         /\ L.staged[RowKey(y)] # NoRow => Stage(L, e).staged[RowKey(y)] # NoRow
<1> DEFINE S == Stage(L, e)
<1>1. /\ S.staged[RowKey(y)] = IF y \in DOMAIN e.puts THEN e.puts[y] ELSE L.staged[RowKey(y)]
      /\ y \in e.touch => S.staged[RowGuard(y)] # Untouched
      /\ \A k \in Keys : L.staged[k] # Untouched => S.staged[k] # Untouched
      /\ S.dirty = L.dirty
  BY StageRows DEF CarefulEffect
<1>2. y \in DOMAIN e.puts => e.puts[y] # NoRow
  BY RowsAreNotNoRow DEF TypedEffect
<1>3. RowKey(y) \in Keys /\ RowGuard(y) \in Keys
  BY KeyKinds
<1>4. L.staged[RowKey(y)] # NoRow => S.staged[RowKey(y)] # NoRow
  BY <1>1, <1>2
<1>5. Written(L, y) => Written(S, y)
  BY <1>1, <1>3 DEF Written
<1>6. S.staged[RowGuard(y)] # Untouched /\ ~Conflicts(S) => RowGuard(y) \notin L.dirty
  <2>1. S \in Transactions \/ DOMAIN S.staged = Keys
    BY DEF Stage, Transactions, StageWrites
  <2>2. DOMAIN S.staged = Keys
    BY <2>1 DEF Transactions
  <2> QED BY <1>1, <1>3, <2>2 DEF Conflicts, WriteSet
<1> HIDE DEF S
<1> QED BY <1>1, <1>3, <1>4, <1>5, <1>6 DEF ParentHeld, Found, S

LEMMA StageCareful ==
  ASSUME NEW s, NEW L \in Transactions, TypedTxn(L), NEW e, TypedEffect(e),
         ReplayIsExact(L), DeletesCover(L), ReferencesHeld(s, L),
         CarefulEffect(s, L, e), ~Conflicts(Stage(L, e))
  PROVE  LET S == Stage(L, e)
         IN  ReplayIsExact(S) /\ DeletesCover(S) /\ ReferencesHeld(s, S)
<1> DEFINE S == Stage(L, e)
           R == RowsOfEffect(e)
<1>1. /\ \A y \in RowIds :
           /\ S.staged[RowKey(y)] =
                IF y \in DOMAIN e.puts THEN e.puts[y]
                ELSE IF y \in e.gone /\ L.staged[RowKey(y)] = Untouched THEN NoRow
                ELSE L.staged[RowKey(y)]
           /\ S.view[y] = IF y \in e.gone THEN NoRow
                          ELSE IF y \in DOMAIN e.shown THEN e.shown[y]
                          ELSE L.view[y]
           /\ y \in e.touch => S.staged[RowGuard(y)] # Untouched
      /\ \A k \in Keys : L.staged[k] # Untouched => S.staged[k] # Untouched
      /\ S.snap = L.snap /\ S.dirty = L.dirty
  BY StageRows DEF CarefulEffect
<1>2. \A y \in R : y \in RowIds /\ L.view[y] = Untouched /\ L.staged[RowKey(y)] = Untouched
  BY DEF RowsOfEffect, TypedEffect, CarefulEffect, ReplayIsExact
<1>3. /\ R = DOMAIN e.puts \cup e.gone /\ e.puts = e.shown
      /\ \A y \in e.gone : y \notin DOMAIN e.puts
      /\ \A y \in DOMAIN e.puts : y \in RowIds /\ e.puts[y] \notin {NoRow, Untouched}
  BY RowsAreNotNoRow DEF CarefulEffect, RowsOfEffect, TypedEffect
<1>4. \A y \in RowIds : RowKey(y) \in Keys /\ RowGuard(y) \in Keys
  BY KeyKinds
<1>5. NoRow # Untouched
  BY KitTxnAssumption
<1>6. \A y \in RowIds : /\ y \in e.gone => S.staged[RowKey(y)] = NoRow
                        /\ y \notin R => S.staged[RowKey(y)] = L.staged[RowKey(y)]
                        /\ y \in R \/ Written(L, y) => Written(S, y)
  <2> HIDE DEF S, R
  <2> QED BY <1>1, <1>2, <1>3, <1>4, <1>5 DEF Written
<1> HIDE DEF S
<1>7. ReplayIsExact(S)
  BY <1>1, <1>2, <1>3 DEF ReplayIsExact
<1>8. \A y \in e.gone, f \in FKs, x \in RowIds :
        Refers(L.staged, f, x, y) \/ (Refers(L.snap, f, x, y) /\ L.view[x] = Untouched)
          => x \in R
  <2> SUFFICES ASSUME NEW y \in e.gone, NEW f \in FKs, NEW x \in RowIds,
                      \/ Refers(L.staged, f, x, y)
                      \/ Refers(L.snap, f, x, y) /\ L.view[x] = Untouched
               PROVE  x \in R
    OBVIOUS
  <2>1. Referenced(y)
    BY DEF Refers, Referenced
  <2>2. Visible(L, x) # NoRow /\ Names(f, x, Visible(L, x), y)
    <3>1. CASE Refers(L.staged, f, x, y)
      BY <3>1 DEF Refers, HasRow, Names, Visible, ReplayIsExact
    <3>2. CASE Refers(L.snap, f, x, y) /\ L.view[x] = Untouched
      BY <3>2 DEF Refers, HasRow, Names, Visible
    <3> QED BY <3>1, <3>2
  <2> QED BY <2>1, <2>2 DEF CarefulEffect
<1>9. DeletesCover(S)
  <2> SUFFICES ASSUME NEW y \in RowIds, Referenced(y), S.staged[RowKey(y)] = NoRow
               PROVE  /\ S.staged[RowGuard(y)] # Untouched
                      /\ \A f \in FKs, x \in RowIds : Refers(L.snap, f, x, y) => Written(S, x)
    BY <1>1 DEF DeletesCover
  <2>1. CASE y \in e.gone
    <3>1. S.staged[RowGuard(y)] # Untouched
      BY <1>1, <2>1 DEF CarefulEffect
    <3>2. ASSUME NEW f \in FKs, NEW x \in RowIds, Refers(L.snap, f, x, y)
          PROVE  Written(S, x)
      <4>1. CASE L.view[x] = Untouched
        BY <1>6, <1>8, <2>1, <3>2, <4>1
      <4>2. CASE L.view[x] # Untouched
        BY <1>6, <4>2 DEF ReplayIsExact, Written
      <4> QED BY <4>1, <4>2
    <3> QED BY <3>1, <3>2
  <2>2. CASE y \notin e.gone
    <3>1. L.staged[RowKey(y)] = NoRow
      BY <1>1, <1>3, <2>2
    <3> QED BY <1>1, <1>4, <1>6, <3>1 DEF DeletesCover
  <2> QED BY <2>1, <2>2
<1>10. ReferencesHeld(s, S)
  <2> SUFFICES ASSUME NEW f \in FKs, NEW x \in RowIds, NEW y \in RowIds, Refers(S.staged, f, x, y)
               PROVE  \/ ParentHeld(s, S, y)
                      \/ Refers(L.snap, f, x, y) /\ S.staged[RowKey(y)] # NoRow
    BY <1>1 DEF ReferencesHeld
  <2>1. /\ y \notin e.gone
        /\ \/ ParentHeld(s, L, y)
           \/ y \in e.touch /\ Found(s, L, y)
           \/ Refers(L.snap, f, x, y) /\ L.staged[RowKey(y)] # NoRow
    <3>1. CASE x \in DOMAIN e.puts
      <4>1. Names(f, x, e.puts[x], y)
        BY <1>1, <3>1 DEF Refers, Names
      <4> QED BY <3>1, <4>1 DEF CarefulEffect
    <3>2. CASE x \notin DOMAIN e.puts
      <4>1. x \notin R
        BY <1>3, <1>6, <3>2 DEF Refers, HasRow
      <4>2. Refers(L.staged, f, x, y)
        BY <1>6, <4>1 DEF Refers, HasRow
      <4>3. y \notin e.gone
        BY <1>8, <4>1, <4>2
      <4> QED BY <4>2, <4>3 DEF ReferencesHeld
    <3> QED BY <3>1, <3>2
  <2> QED BY <2>1, HeldStays DEF S
<1> QED BY <1>7, <1>9, <1>10 DEF S

-----------------------------------------------------------------------------
(* The effects of the operations are careful.                               *)

\* A parent whose existence was checked was found.
LEMMA ExistingIsFound ==
  ASSUME TypeOK, NEW c \in Txns, ReplayIsExact(txn[c]), LossesTouch(store, txn[c]),
         NEW y \in RowIds, Referenced(y), RowExists(txn[c], y)
  PROVE  Found(store, txn[c], y)
<1> DEFINE L == txn[c]
<1>1. L.staged[RowKey(y)] = L.view[y]
  BY DEF ReplayIsExact
<1>2. CASE HasStaged(L, y[1])
  <2>1. Visible(L, y) # NoRow
    BY <1>2 DEF RowExists, ReadByPk
  <2> QED BY <1>1, <2>1, KitTxnAssumption DEF Visible, Found, Written, LossesTouch
<1>3. CASE ~HasStaged(L, y[1])
  <2>1. store[RowKey(y)] # NoRow
    BY <1>3 DEF RowExists, ReadByPk
  <2>2. \E p \in Ids : y = <<y[1], p>>
    BY DEF RowIds
  <2>3. L.view[y] = Untouched
    BY <1>3, <2>2 DEF HasStaged
  <2> QED BY <1>1, <2>1, <2>3, KitTxnAssumption DEF Found
<1> QED BY <1>2, <1>3

\* The parents of a row are what it names.
LEMMA NamedAreParents ==
  ASSUME NEW x \in RowIds, NEW r, NEW f \in FKs, NEW y \in RowIds, Names(f, x, r, y)
  PROVE  y \in ParentsOf(x, r) /\ Referenced(y)
<1>1. y = <<f.parent, r[f.col]>> /\ r[f.col] # Null
  BY KitSchemaAssumption DEF Names, RowIds, SchemaAssumption
<1>2. f \in {g \in FKsOf(x[1]) : r[g.col] # Null}
  BY <1>1 DEF FKsOf, Names
<1> QED BY <1>1, <1>2 DEF ParentsOf, Names, Referenced

LEMMA ParentsAreReferenced ==
  ASSUME NEW x \in RowIds, NEW r \in RowsOf(x[1]), NEW y \in ParentsOf(x, r)
  PROVE  y \in RowIds /\ Referenced(y)
BY ParentsAreRows DEF ParentsOf, FKsOf, Referenced

\* insert and update.
LEMMA WriteRowCareful ==
  ASSUME NEW s, NEW L, NEW x \in RowIds, NEW r \in RowsOf(x[1]),
         NEW old \in RowsOf(x[1]) \cup {NoRow}, L.view[x] = Untouched,
         \A y \in ParentsOf(x, r) : Found(s, L, y)
  PROVE  CarefulEffect(s, L, WriteRow(L, x, r, old))
<1> DEFINE e == WriteRow(L, x, r, old)
<1>1. /\ e.puts = [y \in {x} |-> r] /\ e.shown = [y \in {x} |-> r] /\ e.gone = {}
      /\ e.release = {k \in StaleKeys(x, r, old) : L.snap[k] # NoRow}
      /\ e.touch = ParentsOf(x, r)
  BY DEF WriteRow, NoEffect
<1>2. \A y \in RowIds : RowKey(y) \notin e.release
  BY <1>1, KeysAreGuards, UniqueKeyFacts
<1>3. \A f \in FKs, y \in RowIds : Names(f, x, r, y) => y \in e.touch /\ Found(s, L, y)
  BY <1>1, NamedAreParents
<1> HIDE DEF e
<1>4. CarefulEffect(s, L, e)
  BY <1>1, <1>2, <1>3 DEF CarefulEffect, RowsOfEffect
<1> QED BY <1>4 DEF e

LEMMA InsertRowCareful ==
  ASSUME NEW s, NEW L, NEW x \in RowIds, NEW r \in RowsOf(x[1]), L.view[x] = Untouched,
         \A y \in ParentsOf(x, r) : Found(s, L, y)
  PROVE  CarefulEffect(s, L, InsertRow(L, x, r))
<1> DEFINE w == WriteRow(L, x, r, NoRow)
           e == InsertRow(L, x, r)
<1>1. CarefulEffect(s, L, w)
  BY WriteRowCareful
<1>2. /\ e.puts = w.puts /\ e.shown = w.shown /\ e.gone = w.gone
      /\ e.release = w.release /\ e.touch = w.touch
  BY DEF InsertRow, WriteRow, NoEffect
<1> HIDE DEF w, e
<1>3. CarefulEffect(s, L, e)
  BY <1>1, <1>2 DEF CarefulEffect, RowsOfEffect
<1> QED BY <1>3 DEF e

\* The fast path of update serves tables without foreign keys; the fast path of
\* delete and truncate serve tables no foreign key leads to.
LEMMA PutCareful ==
  ASSUME NEW s, NEW L, PlainReferences, NEW x \in RowIds, NEW r, L.view[x] = Untouched,
         FastUpdate(x[1]),
         NEW e, e = [NoEffect EXCEPT !.puts = [y \in {x} |-> r], !.shown = [y \in {x} |-> r]]
  PROVE  CarefulEffect(s, L, e)
<1>1. \A f \in FKs, y \in RowIds : ~Names(f, x, r, y)
  BY DEF PlainReferences, Names
<1> QED BY <1>1 DEF CarefulEffect, RowsOfEffect, NoEffect, Nothing

LEMMA GoneCareful ==
  ASSUME NEW s, NEW L, PlainReferences, NEW x \in RowIds, L.view[x] = Untouched,
         ~HasInboundFk(x[1])
  PROVE  CarefulEffect(s, L, [NoEffect EXCEPT !.gone = {x}])
<1>1. ~Referenced(x)
  BY DEF PlainReferences, HasInboundFk, FKsTo, Referenced
<1> QED BY <1>1 DEF CarefulEffect, RowsOfEffect, NoEffect, Nothing

LEMMA TruncateCareful ==
  ASSUME NEW s, NEW L \in Transactions, PlainReferences, NEW t \in Tables,
         ~HasStaged(L, t), ~HasInboundFk(t)
  PROVE  CarefulEffect(s, L, TruncateTable(L, t))
<1> DEFINE e == TruncateTable(L, t)
           gone == {x \in RowIds : x[1] = t}
<1>1. /\ e.puts = Nothing /\ e.shown = Nothing /\ e.gone = gone
      /\ e.release = CommittedGuards(L, gone)
                       \cup {RowGuard(x) : x \in {y \in gone : L.snap[RowGuard(y)] # NoRow}}
  BY DEF TruncateTable, NoEffect
<1>2. \A x \in gone : L.view[x] = Untouched
  BY DEF HasStaged, RowIds
<1>3. \A y \in RowIds : RowKey(y) \notin e.release
  BY <1>1, UniqueKeyFacts DEF CommittedGuards
<1>4. \A y \in gone : ~Referenced(y)
  BY DEF PlainReferences, HasInboundFk, FKsTo, Referenced
<1> HIDE DEF e
<1>5. CarefulEffect(s, L, e)
  BY <1>1, <1>2, <1>3, <1>4 DEF CarefulEffect, RowsOfEffect, Nothing
<1> QED BY <1>5 DEF e

-----------------------------------------------------------------------------
(* The plan of a delete.                                                    *)

\* A visible row that refers to x is in the plan of deleting x.
LEMMA ChildrenAreFound ==
  ASSUME NEW L, PlainReferences, NEW x \in RowIds, NEW f \in FKs, NEW z \in RowIds,
         Visible(L, z) # NoRow, Names(f, z, Visible(L, z), x)
  PROVE  <<f, x, z>> \in RefsFound(L, x)
<1> DEFINE db == [y \in RowIds |-> Visible(L, y)]
           rows == {w \in RowIds : w[1] = f.child /\ db[w] # NoRow /\ db[w][f.col] # Null}
<1>1. x = <<f.parent, db[z][f.col]>> /\ db[z][f.col] # Null
  BY KitSchemaAssumption DEF Names, RowIds, SchemaAssumption
<1>2. z \in rows
  BY <1>1 DEF Names
<1>3. <<f, x, z>> \in {<<f, <<f.parent, db[w][f.col]>>, w>> : w \in rows}
  BY <1>1, <1>2
<1>4. <<f, x, z>> \in References(db)
  BY <1>3 DEF References
<1>5. Arity[z[1]] = Arity[x[1]]
  BY DEF PlainReferences, Names
<1> QED BY <1>4, <1>5 DEF RefsFound

\* Every reference of the plan is one that a visible row holds.
LEMMA FoundAreChildren ==
  ASSUME NEW L, NEW x, NEW h \in RefsFound(L, x)
  PROVE  /\ h[1] \in FKs /\ h[3] \in RowIds /\ h[3][1] = h[1].child
         /\ h[2][1] = h[1].parent /\ Visible(L, h[3]) # NoRow
         /\ h = <<h[1], h[2], h[3]>>
<1> DEFINE db == [y \in RowIds |-> Visible(L, y)]
<1>1. h \in References(db)
  BY DEF RefsFound
<1>2. PICK f \in FKs, z \in RowIds : /\ z[1] = f.child /\ db[z] # NoRow
                                      /\ h = <<f, <<f.parent, db[z][f.col]>>, z>>
  BY <1>1 DEF References
<1> QED BY <1>2

\* Cascades end with the children of the row itself.
LEMMA ReachIsShort ==
  ASSUME NEW L, PlainReferences, NEW x \in RowIds
  PROVE  LET refs == RefsFound(L, x)
         IN  /\ x \in Reach(refs, x)
             /\ \A h \in By(refs, "cascade") : h[2] = x => h[3] \in Reach(refs, x)
             /\ \A y \in Reach(refs, x) :
                  y = x \/ \E h \in By(refs, "cascade") : h[2] = x /\ h[3] = y
<1> DEFINE refs == RefsFound(L, x)
           hops == By(refs, "cascade")
           rows == {x} \cup {h[3] : h \in hops}
           near == {x} \cup {h[3] : h \in {g \in hops : g[2] = x}}
<1>1. \A h \in hops : /\ h[1] \in FKs /\ h[1].action = "cascade" /\ h[3][1] = h[1].child
                      /\ h[2][1] = h[1].parent
  BY FoundAreChildren DEF By
<1>2. near \subseteq rows /\ x \in near
  OBVIOUS
<1>3. \A h \in hops : h[2] \in near => h[3] \in near
  <2> SUFFICES ASSUME NEW h \in hops, h[2] \in near
               PROVE  h[3] \in near
    OBVIOUS
  <2>1. CASE h[2] = x
    BY <2>1
  <2>2. CASE \E g \in hops : h[2] = g[3]
    BY <1>1, <2>2 DEF PlainReferences
  <2> QED BY <2>1, <2>2
<1>4. Reach(refs, x) \subseteq near
  BY <1>2, <1>3 DEF Reach
<1>5. x \in Reach(refs, x) /\ \A h \in hops : h[2] = x => h[3] \in Reach(refs, x)
  BY DEF Reach
<1> QED BY <1>4, <1>5

LEMMA DeleteRowCareful ==
  ASSUME TypeOK, PlainReferences, NEW c \in Txns, NEW x \in RowIds,
         ReplayIsExact(txn[c]), DeletesCover(txn[c]),
         NEW pick \in Picks(RefsFound(txn[c], x), x),
         Deletable(txn[c], x, RefsFound(txn[c], x), pick),
         \A y \in RowsOfEffect(DeleteRow(txn[c], x, RefsFound(txn[c], x), pick)) :
           txn[c].view[y] = Untouched
  PROVE  CarefulEffect(store, txn[c], DeleteRow(txn[c], x, RefsFound(txn[c], x), pick))
<1> DEFINE L     == txn[c]
           refs  == RefsFound(L, x)
           cut   == DOMAIN pick
           kept  == [y \in cut |-> Nulled(L, pick[y], y)]
           gone  == {x} \cup {y \in Reach(refs, x) : y[1] # x[1]}
           e     == DeleteRow(L, x, refs, pick)
<1>1. /\ e.puts = kept /\ e.shown = kept /\ e.gone = gone /\ e.touch = {x}
      /\ e.release = CommittedGuards(L, cut \cup gone)
  BY DEF DeleteRow, NoEffect, TouchedByDelete
<1>2. RowsOfEffect(e) = cut \cup gone
  BY <1>1 DEF RowsOfEffect
<1>3. \A h \in refs : /\ h[1] \in FKs /\ h[3] \in RowIds /\ h[3][1] = h[1].child
                      /\ h[2][1] = h[1].parent /\ Visible(L, h[3]) # NoRow
                      /\ h = <<h[1], h[2], h[3]>>
  BY FoundAreChildren
<1>4. \A y \in gone \ {x} : \E h \in By(refs, "cascade") : h[2] = x /\ h[3] = y
  BY ReachIsShort
<1>5. \A y \in gone \ {x} : ~Referenced(y)
  BY <1>3, <1>4 DEF By, Referenced, PlainReferences
<1>6. ASSUME NEW y \in cut
      PROVE  /\ y \in RowIds /\ pick[y] \in FKs /\ pick[y].action = "set_null"
             /\ pick[y].child = y[1] /\ pick[y].parent = x[1]
             /\ Visible(L, y) # NoRow
  <2>1. PICK h \in Cut(refs, x) : h[1] = pick[y] /\ h[3] = y
    BY DEF Picks
  <2>2. h \in refs /\ h[1].action = "set_null" /\ h[2] \in Reach(refs, x)
    BY DEF Cut, By
  <2>3. h[2] = x
    BY <1>3, <2>2, ReachIsShort DEF By, PlainReferences
  <2> QED BY <1>3, <2>1, <2>2, <2>3
<1>7. \A y \in gone : y \notin cut
  <2> SUFFICES ASSUME NEW y \in gone, y \in cut
               PROVE  FALSE
    OBVIOUS
  <2>1. y # x
    BY <1>6 DEF PlainReferences
  <2>2. PICK h \in By(refs, "cascade") : h[2] = x /\ h[3] = y
    BY <1>4, <2>1
  <2>3. h[1].child = pick[y].child /\ h[1].parent = pick[y].parent /\ h[1] \in FKs
    BY <1>3, <1>6, <2>2 DEF By
  <2> QED BY <1>6, <2>2, <2>3 DEF PlainReferences, By
<1>8. \A y \in cut \cup gone : L.view[y] = Untouched
  BY <1>2
<1>9. ASSUME NEW y \in cut
      PROVE  /\ Visible(L, y) = L.snap[RowKey(y)]
             /\ L.snap[RowKey(y)] \in RowsOf(y[1])
             /\ HasRow(L.snap, y)
             /\ kept[y] = [L.snap[RowKey(y)] EXCEPT ![pick[y].col] = Null]
             /\ ~Written(L, y)
  <2>1. Visible(L, y) = L.snap[RowKey(y)] /\ Visible(L, y) \in RowsOf(y[1])
    BY <1>6, <1>8, ReadsTyped DEF Visible
  <2>2. HasRow(L.snap, y)
    BY <1>6, <2>1, RowsAreNotNoRow DEF HasRow
  <2> QED BY <1>6, <1>8, <2>1, <2>2 DEF Nulled, Written, ReplayIsExact
<1>10. ASSUME NEW f \in FKs, NEW y \in cut, NEW z \in RowIds, Names(f, y, kept[y], z)
       PROVE  f.col # pick[y].col /\ Refers(L.snap, f, y, z)
  <2>1. f.col \in ColsOf[y[1]] /\ z[2] \in Ids /\ Null \notin Ids
    BY <1>10, KitSchemaAssumption DEF SchemaAssumption, Names, RowIds
  <2>2. f.col \in DOMAIN L.snap[RowKey(y)]
    BY <1>9, <2>1 DEF RowsOf
  <2>3. f.col # pick[y].col
    BY <1>9, <1>10, <2>1, <2>2 DEF Names
  <2>4. kept[y][f.col] = L.snap[RowKey(y)][f.col]
    BY <1>9, <2>2, <2>3
  <2> QED BY <1>9, <1>10, <2>3, <2>4 DEF Names, Refers
<1>11. ASSUME NEW f \in FKs, NEW z \in RowIds, Visible(L, z) # NoRow, Names(f, z, Visible(L, z), x)
       PROVE  \/ f.action = "cascade" /\ z \in gone
              \/ f.action = "set_null" /\ z \in cut
  <2> DEFINE h == <<f, x, z>>
  <2>1. h \in refs
    BY <1>11, ChildrenAreFound
  <2>2. CASE f.action = "restrict"
    <3>1. h \in By(refs, "restrict") /\ h[2] \in Reach(refs, x)
      BY <2>1, <2>2, ReachIsShort DEF By
    <3> QED BY <3>1 DEF Deletable, Restricted
  <2>3. CASE f.action = "cascade"
    <3>1. z \in Reach(refs, x)
      BY <2>1, <2>3, ReachIsShort DEF By
    <3>2. z[1] # x[1]
      BY <1>11 DEF Names, PlainReferences
    <3> QED BY <2>3, <3>1, <3>2
  <2>4. CASE f.action = "set_null"
    <3>1. h \in Cut(refs, x)
      BY <2>1, <2>4, ReachIsShort DEF Cut, By
    <3> QED BY <2>4, <3>1 DEF Picks
  <2> QED BY <2>2, <2>3, <2>4, KitSchemaAssumption DEF SchemaAssumption
<1>12. ASSUME NEW f \in FKs, NEW y \in cut, NEW z \in RowIds, Names(f, y, kept[y], z)
       PROVE  z \notin gone /\ Refers(L.snap, f, y, z) /\ L.staged[RowKey(z)] # NoRow
  <2>1. f.col # pick[y].col /\ Refers(L.snap, f, y, z) /\ Referenced(z) /\ y \in RowIds
    BY <1>6, <1>10, <1>12 DEF Referenced, Names
  <2>2. z # x
    <3> SUFFICES ASSUME z = x
                 PROVE  FALSE
      OBVIOUS
    <3>1. Visible(L, y) # NoRow /\ Names(f, y, Visible(L, y), x)
      BY <1>6, <1>9, <2>1 DEF Refers, Names
    <3>2. f.action \in {"cascade", "set_null"} /\ f.child = y[1] /\ f.parent = x[1]
      BY <1>11, <2>1, <3>1 DEF Names
    <3>3. f = pick[y]
      BY <1>6, <3>2 DEF PlainReferences
    <3> QED BY <2>1, <3>3
  <2>3. z \notin gone
    BY <1>5, <2>1, <2>2
  <2>4. L.staged[RowKey(z)] # NoRow
    BY <1>9, <2>1 DEF DeletesCover
  <2> QED BY <2>1, <2>3, <2>4
<1>13. \A y \in RowIds : RowKey(y) \notin e.release
  BY <1>1, UniqueKeyFacts DEF CommittedGuards
<1>14. DOMAIN kept = cut
  OBVIOUS
<1>15. CarefulEffect(store, L, e)
  <2> HIDE DEF e, kept, gone, L, cut
  <2>1. \A y \in e.gone : Referenced(y) =>
          /\ y \in e.touch
          /\ \A f \in FKs, z \in RowIds :
               Visible(L, z) # NoRow /\ Names(f, z, Visible(L, z), y) => z \in RowsOfEffect(e)
    BY <1>1, <1>2, <1>5, <1>11
  <2>2. \A f \in FKs, y \in DOMAIN e.puts, z \in RowIds : Names(f, y, e.puts[y], z) =>
          z \notin e.gone /\ Refers(L.snap, f, y, z) /\ L.staged[RowKey(z)] # NoRow
    BY <1>1, <1>12, <1>14
  <2>3. e.puts = e.shown /\ \A y \in e.gone : y \notin DOMAIN e.puts
    BY <1>1, <1>7, <1>14
  <2> QED BY <1>2, <1>8, <1>13, <2>1, <2>2, <2>3 DEF CarefulEffect
<1> QED BY <1>15

-----------------------------------------------------------------------------
(* Steps of one transaction.                                                *)

RefInv == TypeInv /\ ReferencesInv

\* What holds of a transaction depends only on what the invariant speaks of.
LEMMA StandingSame ==
  ASSUME NEW s, NEW L, NEW M, StagedWell(s, L),
         M.staged = L.staged, M.view = L.view, M.snap = L.snap, M.stmt.found = L.stmt.found
  PROVE  StagedWell(s, M)
BY DEF StagedWell, ReplayIsExact, DeletesCover, ReferencesHeld, FoundHeld, ParentHeld, Written

\* An operation whose effect is careful, if the transaction can still commit,
\* keeps the invariant; so do the parents its statement remembers.
LEMMA PerformCareful ==
  ASSUME RefInv, NEW c \in Txns, txn[c].status = "active",
         NEW e, TypedEffect(e), NEW stmt, Perform(c, e, stmt),
         stmt.kind # "insert_many" => stmt.found = {},
         ~Conflicts(Stage(txn[c], e)) =>
           /\ CarefulEffect(store, txn[c], e)
           /\ \A y \in stmt.found : /\ y \in RowIds /\ Referenced(y) /\ y \notin e.gone
                                    /\ \/ ParentHeld(store, txn[c], y)
                                       \/ y \in e.touch /\ Found(store, txn[c], y)
  PROVE  ReferencesInv'
<1> DEFINE L == txn[c]
           S == Stage(L, e)
           T == Done(L, e, stmt)
<1>1. L \in Transactions /\ TypedTxn(L) /\ Standing(store, L)
  BY DEF RefInv, TypeInv, TypeOK, ReferencesInv
<1>2. S \in Transactions
  BY <1>1, StageTyped
<1>3. /\ T.staged = S.staged /\ T.view = S.view /\ T.snap = S.snap
      /\ T.dirty = S.dirty /\ T.stmt = stmt
  BY <1>2 DEF Done, Transactions
<1>4. S.snap = L.snap /\ S.dirty = L.dirty
  BY <1>1, StagedGrows
<1>5. Conflicts(L) => Conflicts(S)
  BY <1>1, <1>4, StagedGrows DEF Conflicts
<1>6. ASSUME ~Conflicts(S)
      PROVE  /\ ReplayIsExact(S) /\ DeletesCover(S) /\ ReferencesHeld(store, S)
             /\ \A y \in stmt.found : Referenced(y) /\ ParentHeld(store, S, y)
  <2>1. StagedWell(store, L)
    BY <1>1, <1>5, <1>6 DEF Standing
  <2>2. CarefulEffect(store, L, e)
    BY <1>6
  <2>3. ReplayIsExact(S) /\ DeletesCover(S) /\ ReferencesHeld(store, S)
    BY <1>1, <1>6, <2>1, <2>2, StageCareful DEF StagedWell
  <2>4. \A y \in stmt.found : Referenced(y) /\ ParentHeld(store, S, y)
    BY <1>1, <1>6, <2>2, HeldStays
  <2> QED BY <2>3, <2>4
<1> HIDE DEF S, T
<1>7. ~Conflicts(T) => StagedWell(store, T)
  BY <1>3, <1>6 DEF Conflicts, StagedWell, ReplayIsExact, DeletesCover, ReferencesHeld,
                    FoundHeld, ParentHeld, Written
<1>8. Standing(store, T)
  BY <1>1, <1>3, <1>4, <1>7 DEF Standing, SnapshotAgrees, ReferencesTouch, LossesTouch,
                                OnlyInsertsFind
<1>9. store' = store /\ txn'[c] = T /\ \A d \in Txns \ {c} : txn'[d] = txn[d]
  BY DEF Perform, RefInv, TypeInv, TypeOK, T
<1>10. ASSUME NEW d \in Txns, txn'[d].status = "active"
       PROVE  Standing(store', txn'[d])
  BY <1>8, <1>9, <1>10 DEF RefInv, ReferencesInv
<1>11. RefersIn(store')
  BY <1>9 DEF RefInv, ReferencesInv
<1> QED BY <1>10, <1>11 DEF ReferencesInv

\* What a statement has left after a row remembers no parents, unless it is
\* insert_many.
LEMMA RestFinds ==
  ASSUME NEW L \in Transactions, OnlyInsertsFind(L), NEW x, NEW found
  PROVE  /\ Rest(L, x, found).found \subseteq L.stmt.found \cup found
         /\ L.stmt.kind = "insert_many" /\ Rest(L, x, found).kind # "insert_many"
              => Rest(L, x, found).found = {}
         /\ L.stmt.kind # "insert_many" /\ found = {} => Rest(L, x, found).found = {}
<1> DEFINE R == [L.stmt EXCEPT !.todo  = [y \in DOMAIN @ \ {x} |-> @[y]],
                               !.found = @ \cup found]
<1>1. NoStatement.found = {}
  BY DEF NoStatement
<1>2. R.kind = L.stmt.kind /\ R.found = L.stmt.found \cup found
  BY DEF Transactions, Statements
<1>3. Rest(L, x, found) = NoStatement \/ Rest(L, x, found) = R
  BY DEF Rest
<1> HIDE DEF R
<1>4. CASE Rest(L, x, found) = NoStatement
  BY <1>1, <1>4
<1>5. CASE Rest(L, x, found) = R
  BY <1>2, <1>5 DEF OnlyInsertsFind
<1> QED BY <1>3, <1>4, <1>5

\* insert, update and the rows of insert_many and update_where.
LEMMA WriteKeepsReferences ==
  ASSUME RefInv, Revisit = FALSE, NEW c \in Txns, NEW x \in RowIds, NEW r \in RowsOf(x[1]),
         txn[c].status = "active", NEW e, NEW stmt, Perform(c, e, stmt),
         \/ e = InsertRow(txn[c], x, r)
         \/ \E old \in RowsOf(x[1]) \cup {NoRow} : e = WriteRow(txn[c], x, r, old),
         \A y \in ParentsOf(x, r) : y \in txn[c].stmt.found \/ RowExists(txn[c], y),
         stmt.kind # "insert_many" => stmt.found = {},
         stmt.found \subseteq txn[c].stmt.found \cup ParentsOf(x, r)
  PROVE  ReferencesInv'
<1> DEFINE L == txn[c]
<1>1. L \in Transactions /\ TypedTxn(L) /\ Standing(store, L) /\ TypeOK
  BY DEF RefInv, TypeInv, TypeOK, ReferencesInv
<1>2. TypedEffect(e) /\ DOMAIN e.shown = {x} /\ e.gone = {} /\ e.touch = ParentsOf(x, r)
  <2>1. CASE e = InsertRow(L, x, r)
    <3>1. TypedEffect(e)
      BY <2>1, InsertRowTyped
    <3> QED BY <2>1, <3>1 DEF InsertRow, WriteRow, NoEffect
  <2>2. ASSUME NEW old \in RowsOf(x[1]) \cup {NoRow}, e = WriteRow(L, x, r, old)
        PROVE  /\ TypedEffect(e) /\ DOMAIN e.shown = {x}
               /\ e.gone = {} /\ e.touch = ParentsOf(x, r)
    <3>1. TypedEffect(e)
      BY <2>2, WriteRowTyped
    <3> QED BY <2>2, <3>1 DEF WriteRow, NoEffect
  <2> QED BY <2>1, <2>2
<1>3. L.view[x] = Untouched
  BY <1>2 DEF Perform, MayWrite
<1>4. Conflicts(L) => Conflicts(Stage(L, e))
  <2>1. /\ Stage(L, e).snap = L.snap /\ Stage(L, e).dirty = L.dirty
        /\ WriteSet(L.staged) \subseteq WriteSet(Stage(L, e).staged)
    BY <1>1, <1>2, StagedGrows
  <2> QED BY <2>1 DEF Conflicts
<1>5. ASSUME ~Conflicts(Stage(L, e))
      PROVE  /\ CarefulEffect(store, L, e)
             /\ \A y \in stmt.found : /\ y \in RowIds /\ Referenced(y) /\ y \notin e.gone
                                      /\ \/ ParentHeld(store, L, y)
                                         \/ y \in e.touch /\ Found(store, L, y)
  <2>1. StagedWell(store, L)
    BY <1>1, <1>4, <1>5 DEF Standing
  <2>2. L.stmt.found \subseteq RowIds
    BY <1>1 DEF Transactions, Statements
  <2>3. \A y \in ParentsOf(x, r) : y \in RowIds /\ Referenced(y)
    BY ParentsAreReferenced
  <2>4. \A y \in L.stmt.found : Referenced(y) /\ ParentHeld(store, L, y)
    BY <2>1 DEF StagedWell, FoundHeld
  <2>5. \A y \in ParentsOf(x, r) : Found(store, L, y)
    <3> SUFFICES ASSUME NEW y \in ParentsOf(x, r)
                 PROVE  Found(store, L, y)
      OBVIOUS
    <3>1. CASE y \in L.stmt.found
      BY <2>4, <3>1 DEF ParentHeld, Found
    <3>2. CASE RowExists(L, y)
      BY <1>1, <2>1, <2>3, <3>2, ExistingIsFound DEF StagedWell, Standing
    <3> QED BY <3>1, <3>2
  <2>6. CarefulEffect(store, L, e)
    BY <1>3, <2>5, InsertRowCareful, WriteRowCareful
  <2> QED BY <1>2, <2>2, <2>3, <2>4, <2>5, <2>6
<1> QED BY <1>2, <1>5, PerformCareful

\* The fast paths.
LEMMA FastKeepsReferences ==
  ASSUME RefInv, PlainReferences, Revisit = FALSE, NEW c \in Txns, NEW x \in RowIds,
         \/ \E r \in RowsOf(x[1]) : UpdateFast(c, x, r)
         \/ DeleteFast(c, x)
  PROVE  ReferencesInv'
<1>1. txn[c].status = "active" /\ NoStatement.found = {}
  BY DEF UpdateFast, DeleteFast, Running, NoStatement
<1>2. ASSUME NEW r \in RowsOf(x[1]), UpdateFast(c, x, r)
      PROVE  ReferencesInv'
  <2> DEFINE e == [NoEffect EXCEPT !.puts = [y \in {x} |-> r], !.shown = [y \in {x} |-> r]]
  <2>1. Perform(c, e, NoStatement) /\ DOMAIN e.shown = {x} /\ FastUpdate(x[1])
    BY <1>2 DEF UpdateFast, NoEffect
  <2>2. txn[c].view[x] = Untouched
    BY <2>1 DEF Perform, MayWrite
  <2>3. TypedEffect(e)
    BY PutTyped
  <2>4. \A d : d = e => CarefulEffect(store, txn[c], d)
    BY <2>1, <2>2, PutCareful
  <2> QED BY <1>1, <2>1, <2>3, <2>4, PerformCareful
<1>3. ASSUME DeleteFast(c, x)
      PROVE  ReferencesInv'
  <2> DEFINE e == [NoEffect EXCEPT !.gone = {x}]
  <2>1. Perform(c, e, NoStatement) /\ e.gone = {x} /\ ~HasInboundFk(x[1])
    BY <1>3 DEF DeleteFast, NoEffect, FastDelete
  <2>2. txn[c].view[x] = Untouched
    BY <2>1 DEF Perform, MayWrite
  <2>3. TypedEffect(e) /\ CarefulEffect(store, txn[c], e)
    BY <2>1, <2>2, GoneTyped, GoneCareful
  <2> QED BY <1>1, <2>1, <2>3, PerformCareful
<1> QED BY <1>2, <1>3

\* delete and one row of delete_where.
LEMMA DeleteKeepsReferences ==
  ASSUME RefInv, PlainReferences, Revisit = FALSE, NEW c \in Txns, NEW x \in RowIds, NEW stmt,
         txn[c].status = "active", NEW pick \in Picks(RefsFound(txn[c], x), x),
         Deletable(txn[c], x, RefsFound(txn[c], x), pick),
         Perform(c, DeleteRow(txn[c], x, RefsFound(txn[c], x), pick), stmt),
         stmt.found = {}
  PROVE  ReferencesInv'
<1> DEFINE L == txn[c]
           e == DeleteRow(L, x, RefsFound(L, x), pick)
<1>1. L \in Transactions /\ TypeOK /\ Standing(store, L)
  BY DEF RefInv, TypeInv, TypeOK, ReferencesInv
<1>2. TypedEffect(e)
  BY <1>1, DeleteRowTyped
<1>3. \A y \in RowsOfEffect(e) : L.view[y] = Untouched
  BY DEF Perform, MayWrite, RowsOfEffect
<1>4. Conflicts(L) => Conflicts(Stage(L, e))
  <2> HIDE DEF e
  <2>1. /\ Stage(L, e).dirty = L.dirty
        /\ WriteSet(L.staged) \subseteq WriteSet(Stage(L, e).staged)
    BY <1>1, <1>2, StagedGrows
  <2> QED BY <2>1 DEF Conflicts
<1>5. ~Conflicts(Stage(L, e)) => CarefulEffect(store, L, e)
  BY <1>1, <1>3, <1>4, DeleteRowCareful DEF Standing, StagedWell
<1> QED BY <1>2, <1>5, PerformCareful

LEMMA TruncateKeepsReferences ==
  ASSUME RefInv, PlainReferences, NEW c \in Txns, NEW t \in Tables, Truncate(c, t)
  PROVE  ReferencesInv'
<1> DEFINE e == TruncateTable(txn[c], t)
<1>1. /\ txn[c].status = "active" /\ Perform(c, e, NoStatement) /\ NoStatement.found = {}
      /\ TypedEffect(e) /\ CarefulEffect(store, txn[c], e)
  BY TruncateTyped, TruncateCareful
     DEF Truncate, Running, RefInv, TypeInv, TypeOK, NoStatement
<1> QED BY <1>1, PerformCareful

\* The start of a statement stages nothing.
LEMMA StartKeepsReferences ==
  ASSUME RefInv, NEW c \in Txns, NEW kind, NEW todo, StartStatement(c, kind, todo)
  PROVE  ReferencesInv'
<1> DEFINE L == txn[c]
           T == [L EXCEPT !.stmt = [kind |-> kind, todo |-> todo, found |-> {}]]
<1>1. L \in Transactions /\ L.status = "active" /\ L.stmt.found = {}
  BY DEF RefInv, TypeInv, TypeOK, StartStatement, Running, NoStatement
<1>2. /\ T.staged = L.staged /\ T.view = L.view /\ T.snap = L.snap
      /\ T.dirty = L.dirty /\ T.stmt.found = {}
  BY <1>1 DEF Transactions
<1>3. store' = store /\ txn'[c] = T /\ \A d \in Txns \ {c} : txn'[d] = txn[d]
  BY DEF StartStatement, RefInv, TypeInv, TypeOK
<1> HIDE DEF T
<1>4. Standing(store, L)
  BY <1>1 DEF RefInv, ReferencesInv
<1>5. ~Conflicts(T) => StagedWell(store, T)
  BY <1>1, <1>2, <1>4, StandingSame DEF Conflicts, Standing
<1>6. Standing(store, T)
  BY <1>2, <1>4, <1>5 DEF Standing, SnapshotAgrees, ReferencesTouch, LossesTouch, OnlyInsertsFind
<1>7. ASSUME NEW d \in Txns, txn'[d].status = "active"
      PROVE  Standing(store', txn'[d])
  BY <1>3, <1>6, <1>7 DEF RefInv, ReferencesInv
<1> QED BY <1>3, <1>7 DEF RefInv, ReferencesInv

-----------------------------------------------------------------------------
(* The end of a transaction.                                                *)

\* A transaction that can commit leaves every reference intact; a reference it
\* makes, and a parent it removes, come with a write of the row guard.
LEMMA InstallIntact ==
  ASSUME RefInv, NEW c \in Txns, txn[c].status = "active", ~Conflicts(txn[c])
  PROVE  LET s == Install(store, txn[c].staged)
             W == WriteSet(txn[c].staged)
         IN  /\ \A k \in Keys : k \notin W => s[k] = store[k]
             /\ RefersIn(s)
             /\ \A f \in FKs, x, y \in RowIds : Refers(s, f, x, y) =>
                  Refers(store, f, x, y) \/ RowGuard(y) \in W
             /\ \A y \in RowIds :
                  Referenced(y) /\ s[RowKey(y)] = NoRow /\ store[RowKey(y)] # NoRow
                    => RowGuard(y) \in W
<1> DEFINE L == txn[c]
           s == Install(store, L.staged)
           W == WriteSet(L.staged)
<1>1. /\ L \in Transactions /\ TypedTxn(L) /\ SnapshotAgrees(store, L) /\ StagedWell(store, L)
      /\ RefersIn(store)
  BY DEF RefInv, ReferencesInv, TypeInv, TypeOK, Standing
<1>2. \A k \in Keys : s[k] = IF L.staged[k] = Untouched THEN store[k] ELSE L.staged[k]
  BY DEF Install, RefInv, TypeInv, TypeOK
<1>3. \A k \in Keys : k \in W <=> L.staged[k] # Untouched
  BY <1>1 DEF WriteSet, Transactions
<1>4. \A k \in Keys : L.staged[k] # Untouched => L.snap[k] = store[k]
  BY <1>1, <1>3 DEF SnapshotAgrees, Conflicts
<1>5. \A x \in RowIds : RowKey(x) \in Keys /\ RowGuard(x) \in Keys
  BY KeyKinds
<1>6. NoRow # Untouched
  BY KitTxnAssumption
<1> HIDE DEF s, W
<1>7. ASSUME NEW f \in FKs, NEW x \in RowIds, NEW y \in RowIds, Refers(s, f, x, y)
      PROVE  /\ Refers(store, f, x, y) \/ RowGuard(y) \in W
             /\ s[RowKey(y)] # NoRow
  <2>1. Referenced(y)
    BY <1>7 DEF Refers, Referenced
  <2>2. CASE ~Written(L, x)
    <3>1. Refers(store, f, x, y)
      BY <1>2, <1>5, <1>7, <2>2 DEF Refers, HasRow, Written
    <3>2. ASSUME L.staged[RowKey(y)] = NoRow
          PROVE  FALSE
      <4>1. L.staged[RowGuard(y)] # Untouched
        BY <1>1, <2>1, <3>2 DEF StagedWell, DeletesCover
      <4>2. Refers(L.snap, f, x, y) \/ RowGuard(y) \in L.dirty
        BY <3>1 DEF RefInv, ReferencesInv, Standing, ReferencesTouch
      <4>3. RowGuard(y) \notin L.dirty
        BY <1>3, <1>5, <4>1 DEF Conflicts, W
      <4> QED BY <1>1, <2>1, <2>2, <3>2, <4>2, <4>3 DEF StagedWell, DeletesCover
    <3>3. store[RowKey(y)] # NoRow
      BY <1>1, <3>1 DEF RefersIn
    <3> QED BY <1>2, <1>5, <3>1, <3>2, <3>3
  <2>3. CASE Written(L, x)
    <3>1. Refers(L.staged, f, x, y)
      BY <1>2, <1>5, <1>7, <2>3 DEF Refers, HasRow, Written
    <3>2. CASE ParentHeld(store, L, y)
      BY <1>2, <1>3, <1>5, <3>2 DEF ParentHeld, Written
    <3>3. CASE Refers(L.snap, f, x, y) /\ L.staged[RowKey(y)] # NoRow
      <4>1. Refers(store, f, x, y)
        BY <1>4, <1>5, <2>3, <3>3 DEF Refers, HasRow, Written
      <4>2. store[RowKey(y)] # NoRow
        BY <1>1, <4>1 DEF RefersIn
      <4> QED BY <1>2, <1>5, <3>3, <4>1, <4>2
    <3> QED BY <1>1, <3>1, <3>2, <3>3 DEF StagedWell, ReferencesHeld
  <2> QED BY <2>2, <2>3
<1>8. \A y \in RowIds : Referenced(y) /\ s[RowKey(y)] = NoRow /\ store[RowKey(y)] # NoRow
                           => RowGuard(y) \in W
  BY <1>1, <1>2, <1>3, <1>5 DEF StagedWell, DeletesCover
<1>9. \A k \in Keys : k \notin W => s[k] = store[k]
  BY <1>2, <1>3
<1> QED BY <1>7, <1>8, <1>9 DEF RefersIn, s, W

LEMMA CommitKeepsReferences ==
  ASSUME RefInv, NEW c \in Txns, Commit(c)
  PROVE  ReferencesInv'
<1> DEFINE W == WriteSet(txn[c].staged)
<1>1. /\ txn[c].status = "active" /\ store' = Install(store, txn[c].staged)
      /\ \A k \in Keys : k \notin W => store'[k] = store[k]
      /\ RefersIn(store')
      /\ \A f \in FKs, x, y \in RowIds : Refers(store', f, x, y) =>
           Refers(store, f, x, y) \/ RowGuard(y) \in W
      /\ \A y \in RowIds : Referenced(y) /\ store'[RowKey(y)] = NoRow /\ store[RowKey(y)] # NoRow
                             => RowGuard(y) \in W
  BY InstallIntact DEF Commit
<1>2. ASSUME NEW d \in Txns, txn'[d].status = "active"
      PROVE  Standing(store', txn'[d])
  <2>1. d # c /\ txn[d].status = "active"
    <3>1. Idle.status = "idle"
      BY IdleTyped, FreshTyped DEF Idle, Fresh
    <3> QED BY <1>2, <3>1 DEF Commit
  <2> DEFINE M == [txn[d] EXCEPT !.behind = @ + 1, !.dirty = @ \cup W]
             D == txn[d]
  <2>2. txn'[d] = M
    BY <2>1 DEF Commit
  <2>3. D \in Transactions
    BY DEF RefInv, TypeInv, TypeOK
  <2>4. /\ M.staged = D.staged /\ M.view = D.view /\ M.snap = D.snap
        /\ M.stmt = D.stmt /\ M.dirty = D.dirty \cup W
    BY <2>3 DEF Transactions
  <2>5. Standing(store, D)
    BY <2>1 DEF RefInv, ReferencesInv
  <2> HIDE DEF M, W, D
  <2>6. SnapshotAgrees(store', M) /\ ReferencesTouch(store', M) /\ LossesTouch(store', M)
    BY <1>1, <2>4, <2>5 DEF Standing, SnapshotAgrees, ReferencesTouch, LossesTouch
  <2>7. OnlyInsertsFind(M)
    BY <2>4, <2>5 DEF Standing, OnlyInsertsFind
  <2>8. ASSUME ~Conflicts(M)
        PROVE  StagedWell(store', M)
    <3>1. /\ StagedWell(store, D)
          /\ \A k \in WriteSet(D.staged) : k \notin W
      BY <2>4, <2>5, <2>8 DEF Standing, Conflicts
    <3>2. ASSUME NEW y \in RowIds, Referenced(y), ParentHeld(store, D, y)
          PROVE  ParentHeld(store', D, y)
      <4>1. RowGuard(y) \in WriteSet(D.staged)
        BY <2>3, <3>2, KeyKinds DEF ParentHeld, WriteSet, Transactions
      <4> QED BY <1>1, <3>1, <3>2, <4>1 DEF ParentHeld
    <3>3. ReferencesHeld(store', D)
      BY <3>1, <3>2 DEF StagedWell, ReferencesHeld, Referenced, Refers
    <3>4. FoundHeld(store', D)
      <4>1. D.stmt.found \subseteq RowIds
        BY <2>3 DEF Transactions, Statements
      <4> QED BY <3>1, <3>2, <4>1 DEF StagedWell, FoundHeld
    <3>5. StagedWell(store', D)
      BY <3>1, <3>3, <3>4 DEF StagedWell
    <3> QED BY <2>4, <3>5, StandingSame
  <2> QED BY <2>2, <2>6, <2>7, <2>8 DEF Standing
<1> QED BY <1>1, <1>2 DEF ReferencesInv

\* A transaction that has just begun has staged nothing.
LEMMA FreshStands ==
  ASSUME TypeOK, NEW n
  PROVE  Standing(store, Fresh(store, n))
<1> DEFINE F == Fresh(store, n)
<1>1. /\ F.snap = store /\ F.stmt = NoStatement
      /\ F.staged = [k \in Keys |-> Untouched]
      /\ F.view = [x \in RowIds |-> Untouched]
  BY DEF Fresh
<1>2. \A x \in RowIds : F.staged[RowKey(x)] = Untouched /\ F.view[x] = Untouched
  BY <1>1, KeyKinds
<1>3. F.stmt.found = {} /\ NoRow # Untouched
  BY <1>1, KitTxnAssumption DEF NoStatement
<1> HIDE DEF F
<1>4. StagedWell(store, F)
  BY <1>2, <1>3 DEF StagedWell, ReplayIsExact, DeletesCover, ReferencesHeld, FoundHeld,
                    Refers, HasRow
<1>5. Standing(store, F)
  BY <1>1, <1>3, <1>4 DEF Standing, SnapshotAgrees, ReferencesTouch, LossesTouch, OnlyInsertsFind
<1> QED BY <1>5 DEF F

LEMMA AttemptKeepsReferences ==
  ASSUME RefInv, NEW c \in Txns,
         Begin(c) \/ Conflict(c) \/ Rollback(c) \/ RollbackRetry(c)
  PROVE  ReferencesInv'
<1>1. Idle.status = "idle"
  BY IdleTyped, FreshTyped DEF Idle, Fresh
<1>2. PICK M : /\ txn' = [txn EXCEPT ![c] = M]
               /\ M = Idle \/ \E n : M = Fresh(store, n)
  BY DEF Begin, Conflict, Rollback, RollbackRetry
<1>3. store' = store /\ txn'[c] = M /\ \A d \in Txns \ {c} : txn'[d] = txn[d]
  BY <1>2 DEF Begin, Conflict, Rollback, RollbackRetry, RefInv, TypeInv, TypeOK
<1>4. M.status = "active" => Standing(store, M)
  BY <1>1, <1>2, FreshStands DEF RefInv, TypeInv
<1>5. ASSUME NEW d \in Txns, txn'[d].status = "active"
      PROVE  Standing(store', txn'[d])
  BY <1>3, <1>4, <1>5 DEF RefInv, ReferencesInv
<1> QED BY <1>3, <1>5 DEF RefInv, ReferencesInv

-----------------------------------------------------------------------------
(* The theorems.                                                            *)

LEMMA InitRefers == Init => RefInv
<1> SUFFICES ASSUME Init
             PROVE  RefInv
  OBVIOUS
<1>1. Idle.status = "idle"
  BY IdleTyped, FreshTyped DEF Idle, Fresh
<1>2. RefersIn(store)
  BY KeyKinds DEF Init, NoStore, RefersIn, Refers, HasRow
<1> QED BY <1>1, <1>2, InitTyped DEF Init, RefInv, ReferencesInv

LEMMA NextRefers ==
  ASSUME RefInv, PlainReferences, WritesOnce, [Next]_vars
  PROVE  RefInv'
<1>1. TypeInv'
  BY NextTyped DEF RefInv
<1>2. Revisit = FALSE /\ Targets \subseteq RowIds /\ NoStatement.found = {}
  BY KitTxnAssumption DEF WritesOnce, NoStatement
<1>3. CASE UNCHANGED vars
  BY <1>1, <1>3 DEF vars, RefInv, ReferencesInv
<1>4. ASSUME NEW c \in Txns, Begin(c) \/ Finish(c)
      PROVE  ReferencesInv'
  BY <1>4, AttemptKeepsReferences, CommitKeepsReferences DEF Finish
<1>5. ASSUME NEW c \in Txns, Operation(c)
      PROVE  ReferencesInv'
  <2>1. ASSUME NEW x \in RowIds, NEW r \in RowsOf(x[1]),
               Insert(c, x, r) \/ Update(c, x, r) \/ UpdateFast(c, x, r)
        PROVE  ReferencesInv'
    <3>1. CASE Insert(c, x, r)
      BY <1>2, <3>1, WriteKeepsReferences DEF Insert, Running, ParentsExist
    <3>2. CASE Update(c, x, r)
      <4>1. ReadByPk(txn[c], x) \in RowsOf(x[1]) \cup {NoRow}
        BY ReadsTyped DEF RefInv, TypeInv
      <4> QED BY <1>2, <3>2, <4>1, WriteKeepsReferences DEF Update, Running, ParentsExist
    <3>3. CASE UpdateFast(c, x, r)
      BY <1>2, <3>3, FastKeepsReferences
    <3> QED BY <2>1, <3>1, <3>2, <3>3
  <2>2. ASSUME NEW x \in RowIds, Delete(c, x) \/ DeleteFast(c, x)
        PROVE  ReferencesInv'
    BY <1>2, <2>2, DeleteKeepsReferences, FastKeepsReferences DEF Delete, Running
  <2>3. ASSUME NEW x \in RowIds,
               InsertManyRow(c, x) \/ UpdateWhereRow(c, x) \/ DeleteWhereRow(c, x)
        PROVE  ReferencesInv'
    <3> DEFINE L == txn[c]
               r == L.stmt.todo[x]
    <3>1. /\ x \in DOMAIN L.stmt.todo /\ L.status = "active" /\ r \in RowsOf(x[1])
          /\ L \in Transactions
      BY <2>3 DEF InsertManyRow, UpdateWhereRow, DeleteWhereRow, InStatement,
                  RefInv, TypeInv, TypeOK, TypedTxn
    <3>2. OnlyInsertsFind(L)
      BY <3>1 DEF RefInv, ReferencesInv, Standing
    <3>3. CASE InsertManyRow(c, x)
      <4> DEFINE rest == Rest(L, x, ParentsOf(x, r))
      <4>1. /\ Perform(c, InsertRow(L, x, r), rest) /\ L.stmt.kind = "insert_many"
            /\ \A y \in ParentsOf(x, r) : y \in L.stmt.found \/ RowExists(L, y)
        BY <3>3 DEF InsertManyRow, InStatement
      <4>2. /\ rest.kind # "insert_many" => rest.found = {}
            /\ rest.found \subseteq L.stmt.found \cup ParentsOf(x, r)
        BY <3>1, <3>2, <4>1, RestFinds
      <4> HIDE DEF rest
      <4> QED BY <1>2, <3>1, <4>1, <4>2, WriteKeepsReferences
    <3>4. CASE UpdateWhereRow(c, x)
      <4> DEFINE rest == Rest(L, x, {})
      <4>1. /\ Perform(c, WriteRow(L, x, r, Visible(L, x)), rest)
            /\ L.stmt.kind = "update_where"
            /\ \A y \in ParentsOf(x, r) : RowExists(L, y)
        BY <3>4 DEF UpdateWhereRow, InStatement, ParentsExist
      <4>2. /\ rest.kind # "insert_many" => rest.found = {}
            /\ rest.found \subseteq L.stmt.found \cup {}
        BY <3>1, <3>2, <4>1, RestFinds
      <4>3. Visible(L, x) \in RowsOf(x[1]) \cup {NoRow}
        BY ReadsTyped DEF RefInv, TypeInv
      <4> HIDE DEF rest
      <4> QED BY <1>2, <3>1, <4>1, <4>2, <4>3, WriteKeepsReferences
    <3>5. CASE DeleteWhereRow(c, x)
      <4>1. L.stmt.kind = "delete_where"
        BY <3>5 DEF DeleteWhereRow, InStatement
      <4>2. Rest(L, x, {}).found = {}
        BY <3>1, <3>2, <4>1, RestFinds
      <4> QED BY <1>2, <3>1, <3>5, <4>2, DeleteKeepsReferences DEF DeleteWhereRow
    <3> QED BY <2>3, <3>3, <3>4, <3>5
  <2>4. ASSUME NEW t \in Tables, \/ Truncate(c, t) \/ StartInsertMany(c, t)
                                 \/ StartUpdateWhere(c, t) \/ StartDeleteWhere(c, t)
        PROVE  ReferencesInv'
    BY <2>4, TruncateKeepsReferences, StartKeepsReferences
       DEF StartInsertMany, StartUpdateWhere, StartDeleteWhere
  <2>5. \A x, r, patch : ~UpsertAbsent(c, x, r) /\ ~UpsertExisting(c, x, r, patch)
    BY DEF UpsertAbsent, UpsertExisting, Running, WritesOnce
  <2> QED BY <1>2, <1>5, <2>1, <2>2, <2>3, <2>4, <2>5 DEF Operation
<1> QED BY <1>1, <1>3, <1>4, <1>5 DEF Next, RefInv

LEMMA RefersIsIntact ==
  ASSUME TypeOK, RefersIn(store)
  PROVE  NoDanglingReference
<1> SUFFICES ASSUME NEW f \in FKs, NEW p \in Ids, NEW q \in Ids,
                    RefersTo(Committed, f, <<f.child, p>>, <<f.parent, q>>)
             PROVE  Committed[<<f.parent, q>>] # NoRow
  BY DEF NoDanglingReference, ReferencesIntact
<1> DEFINE x == <<f.child, p>>
           y == <<f.parent, q>>
<1>1. x \in RowIds /\ y \in RowIds
  BY KitSchemaAssumption DEF SchemaAssumption, RowIds
<1>2. Committed[x] = store[RowKey(x)] /\ Committed[y] = store[RowKey(y)]
  BY <1>1 DEF Committed
<1>3. store[RowKey(x)] \in RowsOf(x[1]) \cup {NoRow}
  BY <1>1, KeyKinds DEF TypeOK, WellTyped
<1>4. Refers(store, f, x, y)
  BY <1>1, <1>2, <1>3, RowsAreNotNoRow DEF RefersTo, Refers, HasRow
<1> QED BY <1>1, <1>2, <1>4 DEF RefersIn

\* Whatever transactions are interleaved, no committed row refers to a row that
\* is not there, if the foreign keys are as PlainReferences says and each
\* transaction writes a row at most once and does not upsert (txn.rs, "Foreign
\* keys": row guards, parent_exists and plan_delete together).
THEOREM ReferencesStayIntact ==
  ASSUME PlainReferences, WritesOnce
  PROVE  Spec => []NoDanglingReference
<1>1. Init => RefInv
  BY InitRefers
<1>2. RefInv /\ [Next]_vars => RefInv'
  BY NextRefers
<1>3. RefInv => NoDanglingReference
  BY RefersIsIntact DEF RefInv, ReferencesInv, TypeInv
<1> QED BY <1>1, <1>2, <1>3, PTL DEF Spec

\* A commit changes the application tables to exactly what the transaction
\* itself saw, under the same conditions: the replay kept in memory and the
\* writes staged in the engine never part (txn.rs, replay_staged_rows).
THEOREM ReplayIsCommitted ==
  ASSUME PlainReferences, WritesOnce
  PROVE  Spec => CommitsWhatItShowed
<1> DEFINE Shown == \A c \in Txns :
                      Commits(c) =>
                        \A x \in RowIds : store'[RowKey(x)] =
                          IF txn[c].view[x] = Untouched THEN store[RowKey(x)]
                          ELSE txn[c].view[x]
<1>1. Init => RefInv
  BY InitRefers
<1>2. RefInv /\ [Next]_vars => RefInv'
  BY NextRefers
<1>3. RefInv /\ [Next]_vars => [Shown]_vars
  <2> SUFFICES ASSUME RefInv, Next, NEW c \in Txns, Commits(c), NEW x \in RowIds
               PROVE  store'[RowKey(x)] = IF txn[c].view[x] = Untouched THEN store[RowKey(x)]
                                          ELSE txn[c].view[x]
    OBVIOUS
  <2>1. Commit(c)
    BY CommitsByCommit DEF RefInv, TypeInv
  <2>2. ReplayIsExact(txn[c])
    BY <2>1 DEF Commit, RefInv, ReferencesInv, Standing, StagedWell
  <2>3. RowKey(x) \in DOMAIN store
    BY KeyKinds DEF RefInv, TypeInv, TypeOK
  <2> QED BY <2>1, <2>2, <2>3 DEF Commit, Install, ReplayIsExact
<1> QED BY <1>1, <1>2, <1>3, PTL DEF Spec, CommitsWhatItShowed

\* Complete guards, exact guards and intact references hold together at every
\* moment, in the store and in what every transaction that can still commit has
\* staged (txn.rs, "Unique constraints" and "Foreign keys").
THEOREM GuardsHold ==
  ASSUME DistinctNames, PlainReferences, WritesOnce
  PROVE  Spec => []GuardsInv
<1>1. Init => GuardedInv /\ RefInv
  BY InitGuarded, InitRefers
<1>2. GuardedInv /\ RefInv /\ [Next]_vars => (GuardedInv /\ RefInv)'
  BY NextGuarded, NextRefers
<1>3. GuardedInv /\ RefInv => GuardsInv
  BY DEF GuardedInv, UniqueInv, RefInv, GuardsInv
<1> QED BY <1>1, <1>2, <1>3, PTL DEF Spec
================================================================================
