--------------------------- MODULE SequenceAllocator ---------------------------
(***************************************************************************)
(* One named sequence of the Rust kit: Database::allocate_sequence (db.rs)   *)
(* with its own transaction on __kit_sequences, and the inserts that take a  *)
(* primary key from it (apply_defaults and check_pk of txn.rs).              *)
(*                                                                         *)
(* Callers of one Database handle share its sequence_lock; callers of        *)
(* different handles meet only in the engine, which refuses the second of    *)
(* two commits that replace the same row.                                   *)
(***************************************************************************)
EXTENDS Integers, FiniteSets

CONSTANTS
  Callers, Handles,
  HandleOf,      \* [Callers -> Handles]
  Inserters,     \* the callers that insert rows
  Counts,        \* the counts the other callers ask for; an insert asks for one
  ExplicitKeys,  \* keys callers insert themselves
  Last,          \* i64::MAX
  MaxTotal,      \* bound: values handed out
  MaxAttempts,   \* 10,000 in the code
  None

ASSUME SequenceAssumption ==
  /\ HandleOf \in [Callers -> Handles]
  /\ Inserters \subseteq Callers
  /\ Counts \subseteq Nat \ {0}
  /\ Last \in Nat \ {0}
  /\ MaxTotal \in 0..(2 * Last + 1)
  /\ MaxAttempts \in Nat
  /\ None \notin Callers /\ None \notin Int

VARIABLES
  next,     \* next_value of the sequence's row, None before the first call
  total,    \* values handed out so far: history, counts commits of the row
  lock,     \* lock[h]: the caller that holds sequence_lock of handle h
  call,     \* call[c]: the allocation caller c is in
  granted,  \* the ranges that were committed: history
  rows,     \* keys of the committed rows of a table keyed by the sequence
  tx        \* tx[c]: the insert caller c is in

vars == <<next, total, lock, call, granted, rows, tx>>

\* Two's complement addition, as a release build adds.
Wrap(n) == IF n > Last THEN n - 2 * (Last + 1) ELSE n

NoCall == [phase |-> "idle", count |-> 0, since |-> 0, base |-> 0,
           attempt |-> 0, start |-> 0]
NoTx   == [phase |-> "none", key |-> None]

\* The call as its caller sees it when it is over: an insert goes on with the
\* outcome, any other caller is free again.
Outcome(c, phase) == IF tx[c].phase = "none" THEN NoCall
                     ELSE [NoCall EXCEPT !.phase = phase, !.start = call[c].start]

-----------------------------------------------------------------------------
(* allocate_sequence *)

Enter(c, count, t) ==
  /\ total + count <= MaxTotal
  /\ call[c].phase = "idle"
  /\ call' = [call EXCEPT ![c] = [NoCall EXCEPT !.phase = "waiting", !.count = count,
                                                !.since = total]]
  /\ tx' = [tx EXCEPT ![c] = t]
  /\ UNCHANGED <<next, total, lock, granted, rows>>

\* A caller asks for a range.
Allocate(c) == tx[c].phase = "none" /\ \E n \in Counts : Enter(c, n, NoTx)

LockFree(c) == lock[HandleOf[c]] = None

Lock(c) ==
  /\ call[c].phase = "waiting" /\ LockFree(c)
  /\ lock' = [lock EXCEPT ![HandleOf[c]] = c]
  /\ call' = [call EXCEPT ![c].phase = "locked"]
  /\ UNCHANGED <<next, total, granted, rows, tx>>

\* Mutant: the guard is not dropped when the call ends.
StillLocked(c) == lock

\* The lock guard is dropped however the call ends.
Unlocked(c) == [lock EXCEPT ![HandleOf[c]] = None]

\* Mutant: a fresh sequence hands out its first value and stores it as next.
StartAgain(c) == IF next = None THEN [start |-> 1, after |-> 1]
                 ELSE [start |-> next, after |-> Wrap(next + call[c].count)]

\* The range a call takes and the next value it stores.
Range(c) == LET start == IF next = None THEN 1 ELSE next
            IN  [start |-> start, after |-> Wrap(start + call[c].count)]

\* begin, the read of the sequence's row and the staging of its successor.
\* base counts the commits of the row the snapshot has seen.
Read(c) ==
  /\ call[c].phase = "locked"
  /\ call' = [call EXCEPT ![c].phase = "staged", ![c].base = total,
                          ![c].start = Range(c).start]
  /\ UNCHANGED <<next, total, lock, granted, rows, tx>>

\* A build with overflow checks panics instead of wrapping; the lock is
\* released and nothing is staged.
Overflow(c) ==
  /\ call[c].phase = "locked"
  /\ next # None /\ next + call[c].count > Last
  /\ call' = [call EXCEPT ![c] = Outcome(c, "failed")]
  /\ lock' = Unlocked(c)
  /\ UNCHANGED <<next, total, granted, rows, tx>>

\* Mutant: the engine does not see that the row was replaced.
NeverStale(c) == FALSE

\* The row was replaced (or made) since the snapshot.
Stale(c) == call[c].base # total

\* The commit; the caller returns the start of its range.
Commit(c) ==
  /\ call[c].phase = "staged" /\ ~Stale(c)
  /\ total + call[c].count <= MaxTotal
  /\ next' = Range(c).after
  /\ total' = total + call[c].count
  /\ granted' = granted \cup {[by |-> c, from |-> total, count |-> call[c].count,
                               start |-> call[c].start, since |-> call[c].since]}
  /\ call' = [call EXCEPT ![c] = Outcome(c, "done")]
  /\ lock' = Unlocked(c)
  /\ UNCHANGED <<rows, tx>>

\* A conflict: begin again, still holding the lock.
Retry(c) ==
  /\ call[c].phase = "staged" /\ Stale(c) /\ call[c].attempt < MaxAttempts
  /\ call' = [call EXCEPT ![c].phase = "locked", ![c].attempt = @ + 1]
  /\ UNCHANGED <<next, total, lock, granted, rows, tx>>

\* Attempts are used up, or the engine fails in another way.
GiveUp(c) ==
  /\ call[c].phase = "staged"
  /\ Stale(c) => call[c].attempt = MaxAttempts
  /\ call' = [call EXCEPT ![c] = Outcome(c, "failed")]
  /\ lock' = Unlocked(c)
  /\ UNCHANGED <<next, total, granted, rows, tx>>

-----------------------------------------------------------------------------
(* Inserts. *)

\* The key is missing or null: apply_defaults allocates one, in a transaction
\* of its own, while the insert's is open.
InsertAssigned(c) == tx[c].phase = "none" /\ Enter(c, 1, [phase |-> "assign", key |-> None])

\* The row is staged with that key; check_pk does not look at it.
UseKey(c) ==
  /\ tx[c].phase = "assign" /\ call[c].phase = "done"
  /\ tx' = [tx EXCEPT ![c] = [phase |-> "staged", key |-> call[c].start]]
  /\ call' = [call EXCEPT ![c] = NoCall]
  /\ UNCHANGED <<next, total, lock, granted, rows>>

\* The allocation failed, so the insert fails.
InsertFails(c) ==
  /\ tx[c].phase = "assign" /\ call[c].phase = "failed"
  /\ tx' = [tx EXCEPT ![c] = NoTx]
  /\ call' = [call EXCEPT ![c] = NoCall]
  /\ UNCHANGED <<next, total, lock, granted, rows>>

\* An explicit key is checked against the rows.
InsertExplicit(c) ==
  /\ tx[c].phase = "none" /\ call[c].phase = "idle"
  /\ \E k \in ExplicitKeys \ rows :
       tx' = [tx EXCEPT ![c] = [phase |-> "staged", key |-> k]]
  /\ UNCHANGED <<next, total, lock, call, granted, rows>>

\* The insert commits, or its transaction fails and the key is a gap.
CommitInsert(c) ==
  /\ tx[c].phase = "staged"
  /\ rows' = rows \cup {tx[c].key}
  /\ tx' = [tx EXCEPT ![c] = NoTx]
  /\ UNCHANGED <<next, total, lock, call, granted>>

RollbackInsert(c) ==
  /\ tx[c].phase = "staged"
  /\ tx' = [tx EXCEPT ![c] = NoTx]
  /\ UNCHANGED <<next, total, lock, call, granted, rows>>

Init ==
  /\ next = None /\ total = 0 /\ granted = {} /\ rows = {}
  /\ lock = [h \in Handles |-> None]
  /\ call = [c \in Callers |-> NoCall]
  /\ tx = [c \in Callers |-> NoTx]

Allocation(c) == Lock(c) \/ Read(c) \/ Overflow(c) \/ Commit(c) \/ Retry(c) \/ GiveUp(c)
Insertion(c)  == UseKey(c) \/ InsertFails(c) \/ CommitInsert(c) \/ RollbackInsert(c)

Next == \/ \E c \in Callers \ Inserters : Allocate(c)
        \/ \E c \in Inserters : InsertAssigned(c) \/ InsertExplicit(c)
        \/ \E c \in Callers : Allocation(c) \/ Insertion(c)

Spec == Init /\ [][Next]_vars

\* The thread inside a call keeps running, and parking_lot's mutex is eventually
\* fair: a thread that waits is not passed over for ever.
FairSpec == Spec /\ \A c \in Callers : 
  WF_vars(Allocation(c) \/ UseKey(c) \/ InsertFails(c)) /\ SF_vars(Lock(c))

-----------------------------------------------------------------------------
(* Properties. *)

ValuesOf(g) == {Wrap(g.start + i) : i \in 0..(g.count - 1)}

\* Ranges handed out are disjoint, whatever threads and handles interleave,
\* even when the counter wraps (docs/defaults.md: never reused).
RangesDisjoint ==
  \A g, h \in granted : g # h => ValuesOf(g) \cap ValuesOf(h) = {}

\* A call that began after another returned gets later values: sequence
\* order is real-time order until the counter wraps.
LaterCallsGetLaterValues ==
  \A g, h \in granted : h.since >= g.from + g.count /\ total <= Last => h.start >= g.start + g.count

\* An assigned key replaces no row (check_pk skips it: "guaranteed unique").
AssignedKeysAreFresh ==
  [][\A c \in Callers : CommitInsert(c) => tx[c].key \notin rows \/ tx[c].key \in ExplicitKeys]_vars

\* Every call returns, with a range or an error.
CallsReturn == \A c \in Callers : call[c].phase = "waiting" ~> call[c].phase = "idle"
=============================================================================
