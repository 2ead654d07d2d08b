------------------------ MODULE SequenceAllocatorProofs ------------------------
(***************************************************************************)
(* The ranges of a sequence never overlap and come in real-time order, and   *)
(* assigned keys replace no row, for any callers, handles, counts and width  *)
(* of the counter.                                                         *)
(***************************************************************************)
EXTENDS SequenceAllocator, TLAPS

InCall(c) == call[c].phase \in {"waiting", "locked", "staged"}

\* The counter is one more than what was handed out, wrapped.
Counter == next = IF total = 0 THEN None ELSE Wrap(1 + total)

\* Every range lies where the counter stood when it was committed.
Placed(g) == /\ g.from \in Nat /\ g.count \in Nat \ {0} /\ g.since \in Nat
             /\ g.since <= g.from /\ g.from + g.count <= total
             /\ g.start = Wrap(1 + g.from)

Apart(g, h) == g.from + g.count <= h.from \/ h.from + h.count <= g.from

\* What a call carries; a snapshot that is not stale has read the counter.
Carries(c) == InCall(c) =>
  /\ call[c].count \in Nat \ {0}
  /\ call[c].since \in Nat /\ call[c].since <= total
  /\ call[c].phase = "staged" => /\ call[c].base \in Nat /\ call[c].base <= total
                                 /\ ~Stale(c) => call[c].start = Wrap(1 + total)

SequenceInv ==
  /\ total \in Nat /\ total <= MaxTotal
  /\ DOMAIN call = Callers
  /\ Counter
  /\ \A g \in granted : Placed(g)
  /\ \A g, h \in granted : g # h => Apart(g, h)
  /\ \A c \in Callers : Carries(c)

USE DEF Wrap

\* Wrapping once or twice on the way is the same within the window.
LEMMA WrapSum ==
  ASSUME NEW a \in Nat, NEW b \in Nat, a + b <= 2 * Last + 1
  PROVE  Wrap(Wrap(1 + a) + b) = Wrap(1 + a + b)
  BY SequenceAssumption, SMT

\* No two numbers of the window wrap to one.
LEMMA WrapInjective ==
  ASSUME NEW a \in Nat, NEW b \in Nat, a <= 2 * Last + 1, b <= 2 * Last + 1,
         Wrap(1 + a) = Wrap(1 + b)
  PROVE  a = b
  BY SequenceAssumption, SMT

LEMMA WrapInt == ASSUME NEW a \in Int PROVE Wrap(a) \in Int
  BY SequenceAssumption, SMT

\* A call starts where the counter stands.
LEMMA StartsAtCounter ==
  ASSUME SequenceInv, NEW c \in Callers
  PROVE  Range(c).start = Wrap(1 + total)
  <1>1. total = 0 => next = None /\ Wrap(1 + total) = 1
    BY SequenceAssumption DEF SequenceInv, Counter
  <1>2. total # 0 => next = Wrap(1 + total) /\ next \in Int
    BY WrapInt DEF SequenceInv, Counter
  <1> QED BY <1>1, <1>2, SequenceAssumption DEF Range

USE DEF SequenceInv
HIDE DEF Wrap

\* Steps that leave the sequence and its ranges alone, and put no call into
\* the staged phase.
LEMMA CallSteps ==
  ASSUME SequenceInv, UNCHANGED <<next, total, granted>>, DOMAIN call' = Callers,
         \A c \in Callers : Carries(c)'
  PROVE  SequenceInv'
  BY DEF Counter, Placed, Apart

\* Calls of other callers are untouched by a step that leaves total alone.
LEMMA OthersCarry ==
  ASSUME SequenceInv, UNCHANGED total, NEW c \in Callers, NEW r,
         call' = [call EXCEPT ![c] = r], Carries(c)'
  PROVE  \A d \in Callers : Carries(d)'
  BY DEF Carries, InCall, Stale

LEMMA InitSequence == Init => SequenceInv
  BY SequenceAssumption DEF Init, Counter, Carries, InCall, NoCall

LEMMA EnterKeeps ==
  ASSUME SequenceInv, NEW c \in Callers, NEW n \in Nat \ {0}, NEW t, Enter(c, n, t)
  PROVE  SequenceInv'
  <1> DEFINE r == [NoCall EXCEPT !.phase = "waiting", !.count = n, !.since = total]
  <1>1. call' = [call EXCEPT ![c] = r] /\ UNCHANGED <<next, total, granted>>
    BY DEF Enter
  <1>2. Carries(c)'
    BY <1>1 DEF Carries, InCall, NoCall
  <1>3. DOMAIN call' = Callers BY <1>1
  <1> QED BY <1>1, <1>2, <1>3, OthersCarry, CallSteps

LEMMA LockKeeps ==
  ASSUME SequenceInv, NEW c \in Callers, Lock(c)
  PROVE  SequenceInv'
  <1>1. call' = [call EXCEPT ![c] = [call[c] EXCEPT !.phase = "locked"]] /\ UNCHANGED <<next, total, granted>>
    BY DEF Lock
  <1>2. Carries(c)'
    BY <1>1 DEF Lock, Carries, InCall
  <1>3. DOMAIN call' = Callers BY <1>1
  <1> QED BY <1>1, <1>2, <1>3, OthersCarry, CallSteps

LEMMA ReadKeeps ==
  ASSUME SequenceInv, NEW c \in Callers, Read(c)
  PROVE  SequenceInv'
  <1> DEFINE r == [call[c] EXCEPT !.phase = "staged", !.base = total, !.start = Range(c).start]
  <1>1. call' = [call EXCEPT ![c] = r] /\ UNCHANGED <<next, total, granted>>
    BY DEF Read
  <1>2. Range(c).start = Wrap(1 + total) BY StartsAtCounter
  <1>3. Carries(c)'
    BY <1>1, <1>2 DEF Read, Carries, InCall, Stale, Wrap
  <1>4. DOMAIN call' = Callers BY <1>1
  <1> QED BY <1>1, <1>3, <1>4, OthersCarry, CallSteps

\* A call that ends carries nothing.
LEMMA EndKeeps ==
  ASSUME SequenceInv, NEW c \in Callers, NEW r, r.phase \in {"idle", "done", "failed"},
         call' = [call EXCEPT ![c] = r], UNCHANGED <<next, total, granted>>
  PROVE  SequenceInv'
  <1>1. Carries(c)' BY DEF Carries, InCall
  <1>2. DOMAIN call' = Callers OBVIOUS
  <1> QED BY <1>1, <1>2, OthersCarry, CallSteps

LEMMA OutcomeEnds ==
  ASSUME NEW c, NEW p \in {"done", "failed"}
  PROVE  Outcome(c, p).phase \in {"idle", "done", "failed"}
  BY DEF Outcome, NoCall

LEMMA RetryKeeps ==
  ASSUME SequenceInv, NEW c \in Callers, Retry(c)
  PROVE  SequenceInv'
  <1> DEFINE r == [call[c] EXCEPT !.phase = "locked", !.attempt = @ + 1]
  <1>1. call' = [call EXCEPT ![c] = r] /\ UNCHANGED <<next, total, granted>>
    BY DEF Retry
  <1>2. Carries(c)'
    BY <1>1 DEF Retry, Carries, InCall
  <1>3. DOMAIN call' = Callers BY <1>1
  <1> QED BY <1>1, <1>2, <1>3, OthersCarry, CallSteps

LEMMA CommitKeeps ==
  ASSUME SequenceInv, NEW c \in Callers, Commit(c)
  PROVE  SequenceInv'
  <1> DEFINE n == call[c].count
             r == Outcome(c, "done")
             g == [by |-> c, from |-> total, count |-> n, start |-> call[c].start,
                   since |-> call[c].since]
  <1>1. /\ n \in Nat \ {0} /\ call[c].since \in Nat /\ call[c].since <= total
        /\ call[c].start = Wrap(1 + total)
    BY DEF Commit, Carries, InCall
  <1>2. /\ total' = total + n /\ total' <= MaxTotal /\ granted' = granted \cup {g}
        /\ call' = [call EXCEPT ![c] = r] /\ next' = Wrap(Wrap(1 + total) + n)
    BY <1>1, StartsAtCounter DEF Commit, Range
  <1>3. next' = Wrap(1 + total')
    BY <1>1, <1>2, WrapSum, SequenceAssumption
  <1>4. Counter' /\ total' \in Nat
    BY <1>1, <1>2, <1>3 DEF Counter
  <1>5. \A h \in granted' : Placed(h)'
    BY <1>1, <1>2 DEF Placed
  <1>6. \A h, k \in granted' : h # k => Apart(h, k)'
    BY <1>1, <1>2 DEF Placed, Apart
  <1>7. \A d \in Callers : Carries(d)'
    <2> TAKE d \in Callers
    <2>1. CASE d = c
      BY <2>1, <1>2, OutcomeEnds DEF Carries, InCall
    <2>2. CASE d # c
      BY <2>2, <1>1, <1>2 DEF Carries, InCall, Stale
    <2> QED BY <2>1, <2>2
  <1> QED BY <1>2, <1>4, <1>5, <1>6, <1>7

LEMMA SequenceInvStep == SequenceInv /\ [Next]_vars => SequenceInv'
  <1> SUFFICES ASSUME SequenceInv, [Next]_vars PROVE SequenceInv'
    OBVIOUS
  <1>1. CASE UNCHANGED vars
    BY <1>1, CallSteps DEF vars, Carries, InCall, Stale
  <1>2. ASSUME NEW c \in Callers, Allocate(c) PROVE SequenceInv'
    BY <1>2, EnterKeeps, SequenceAssumption DEF Allocate
  <1>3. ASSUME NEW c \in Callers, InsertAssigned(c) PROVE SequenceInv'
    BY <1>3, EnterKeeps DEF InsertAssigned
  <1>4. ASSUME NEW c \in Callers, Overflow(c) \/ GiveUp(c) PROVE SequenceInv'
    BY <1>4, EndKeeps, OutcomeEnds DEF Overflow, GiveUp
  <1>5. ASSUME NEW c \in Callers, UseKey(c) \/ InsertFails(c) PROVE SequenceInv'
    BY <1>5, EndKeeps DEF UseKey, InsertFails, NoCall
  <1>6. ASSUME NEW c \in Callers, InsertExplicit(c) \/ CommitInsert(c) \/ RollbackInsert(c)
        PROVE  SequenceInv'
    BY <1>6, CallSteps DEF InsertExplicit, CommitInsert, RollbackInsert, Carries, InCall, Stale
  <1>7. Inserters \subseteq Callers BY SequenceAssumption
  <1> QED
    BY <1>1, <1>2, <1>3, <1>4, <1>5, <1>6, <1>7, LockKeeps, ReadKeeps, CommitKeeps, RetryKeeps
       DEF Next, Allocation, Insertion

THEOREM SequenceInvariant == Spec => []SequenceInv
  BY InitSequence, SequenceInvStep, PTL DEF Spec

LEMMA InvDisjoint == SequenceInv => RangesDisjoint
  <1> SUFFICES ASSUME SequenceInv, NEW g \in granted, NEW h \in granted, g # h,
                      NEW i \in 0..(g.count - 1), NEW j \in 0..(h.count - 1),
                      Wrap(g.start + i) = Wrap(h.start + j)
               PROVE  FALSE
    BY DEF RangesDisjoint, ValuesOf
  <1>1. /\ g.from \in Nat /\ h.from \in Nat /\ g.count \in Nat /\ h.count \in Nat
        /\ g.from + g.count <= total /\ h.from + h.count <= total
        /\ total \in Nat /\ total <= 2 * Last + 1
        /\ g.start = Wrap(1 + g.from) /\ h.start = Wrap(1 + h.from)
    BY SequenceAssumption DEF Placed
  <1>2. Last \in Nat BY SequenceAssumption
  <1>3. Wrap(g.start + i) = Wrap(1 + g.from + i) /\ Wrap(h.start + j) = Wrap(1 + h.from + j)
    BY <1>1, <1>2, WrapSum
  <1>4. g.from + i = h.from + j
    <2> DEFINE a == g.from + i
               b == h.from + j
    <2>1. a \in Nat /\ b \in Nat /\ a <= 2 * Last + 1 /\ b <= 2 * Last + 1
      BY <1>1, <1>2
    <2>2. Wrap(1 + a) = Wrap(1 + b)
      BY <1>1, <1>2, <1>3
    <2> QED BY <2>1, <2>2, WrapInjective
  <1>5. Apart(g, h) OBVIOUS
  <1> QED BY <1>1, <1>4, <1>5 DEF Apart

LEMMA InvOrder == SequenceInv => LaterCallsGetLaterValues
  BY SequenceAssumption DEF LaterCallsGetLaterValues, Placed, Wrap

\* However many callers and handles interleave, no value of the sequence is
\* handed out twice before 2^64 of them are (allocate_sequence).
THEOREM RangesAreDisjoint == Spec => []RangesDisjoint
  BY SequenceInvariant, InvDisjoint, PTL

\* A call that starts after another returned gets later values
\* (allocate_sequence), as long as the counter has not wrapped.
THEOREM RangesAreOrdered == Spec => []LaterCallsGetLaterValues
  BY SequenceInvariant, InvOrder, PTL

-----------------------------------------------------------------------------
(* Assigned keys. *)

\* v is the key of the insert c is in, allocated or staged.
Pending(c, v) == \/ tx[c].phase = "assign" /\ call[c].phase = "done" /\ v = call[c].start
                 \/ tx[c].phase = "staged" /\ v = tx[c].key

Granted(v) == \E g \in granted : g.start = v

\* A key nobody inserts explicitly is one the sequence handed out; while it is
\* in an insert it is in no other and no row has it.
KeysInv ==
  /\ DOMAIN tx = Callers
  /\ \A c \in Callers : "phase" \in DOMAIN call[c]
  /\ \A v \in rows : v \in ExplicitKeys \/ Granted(v)
  /\ \A c \in Callers : \A v : Pending(c, v) =>
       \/ v \in ExplicitKeys
       \/ /\ v \notin rows /\ Granted(v)
          /\ \A d \in Callers : Pending(d, v) => d = c

\* Steps that commit no row and put no new key into an insert.
LEMMA KeysFrame ==
  ASSUME KeysInv, rows' = rows, granted \subseteq granted', DOMAIN tx' = Callers,
         \A c \in Callers : "phase" \in DOMAIN call'[c],
         \A c \in Callers : \A v : Pending(c, v)' => Pending(c, v) \/ v \in ExplicitKeys
  PROVE  KeysInv'
<1>1. \A v : Granted(v) => Granted(v)'
  BY DEF Granted
<1>2. ASSUME NEW c \in Callers, NEW v, Pending(c, v)', v \notin ExplicitKeys
      PROVE  v \notin rows' /\ Granted(v)' /\ \A d \in Callers : Pending(d, v)' => d = c
  <2>1. Pending(c, v)
    BY <1>2
  <2>2. v \notin rows /\ Granted(v) /\ \A d \in Callers : Pending(d, v) => d = c
    BY <1>2, <2>1 DEF KeysInv
  <2> QED BY <1>1, <1>2, <2>2
<1>3. \A v \in rows' : v \in ExplicitKeys \/ Granted(v)'
  BY <1>1 DEF KeysInv
<1> QED BY <1>2, <1>3 DEF KeysInv

\* A step of c's call that does not end it with a value.
LEMMA CallKeepsKeys ==
  ASSUME KeysInv, SequenceInv, NEW c \in Callers, NEW r, call' = [call EXCEPT ![c] = r],
         "phase" \in DOMAIN r, r.phase # "done", tx' = tx, rows' = rows, granted' = granted
  PROVE  KeysInv'
<1>0. \A d \in Callers : "phase" \in DOMAIN call'[d]
  BY DEF KeysInv
<1>1. ASSUME NEW d \in Callers, NEW v, Pending(d, v)'
      PROVE  Pending(d, v)
  <2>1. CASE d = c
    BY <1>1, <2>1 DEF Pending
  <2>2. CASE d # c
    BY <1>1, <2>2 DEF Pending
  <2> QED BY <2>1, <2>2
<1> QED BY <1>0, <1>1, KeysFrame DEF KeysInv

\* A commit hands out a value that was not handed out before.
LEMMA CommitKeepsKeys ==
  ASSUME KeysInv, SequenceInv, NEW c \in Callers, Commit(c)
  PROVE  KeysInv'
<1>1. PICK s : s = call[c].start
  OBVIOUS
<1>2. /\ s = Wrap(1 + total) /\ total \in Nat /\ total <= 2 * Last + 1
      /\ granted \subseteq granted' /\ \E g \in granted' : g.start = s
      /\ call' = [call EXCEPT ![c] = Outcome(c, "done")] /\ tx' = tx /\ rows' = rows
  <2>1. s = Wrap(1 + total) /\ total \in Nat
    BY <1>1 DEF Commit, Carries, InCall
  <2>2. total <= 2 * Last + 1
    BY SequenceAssumption
  <2> DEFINE g == [by |-> c, from |-> total, count |-> call[c].count,
                   start |-> call[c].start, since |-> call[c].since]
  <2>3. granted' = granted \cup {g} /\ g.start = s
    BY <1>1 DEF Commit
  <2>4. granted \subseteq granted' /\ \E h \in granted' : h.start = s
    BY <2>3
  <2>5. call' = [call EXCEPT ![c] = Outcome(c, "done")] /\ tx' = tx /\ rows' = rows
    BY DEF Commit
  <2> QED BY <2>1, <2>2, <2>4, <2>5
<1>3. ~Granted(s)
  <2> SUFFICES ASSUME NEW g \in granted, g.start = s
               PROVE  FALSE
    BY DEF Granted
  <2>1. g.from \in Nat /\ g.from < total /\ Wrap(1 + g.from) = Wrap(1 + total)
    BY <1>2 DEF Placed
  <2>2. g.from <= 2 * Last + 1
    BY <1>2, <2>1, SequenceAssumption
  <2> QED BY <1>2, <2>1, <2>2, WrapInjective
<1>4. (\A v : Granted(v) => Granted(v)') /\ Granted(s)'
  BY <1>2 DEF Granted
<1>5. ASSUME NEW d \in Callers, NEW v, Pending(d, v)'
      PROVE  Pending(d, v) \/ (d = c /\ v = s)
  <2>1. CASE d = c
    BY <1>1, <1>2, <1>5, <2>1 DEF Pending, Outcome, NoCall
  <2>2. CASE d # c
    BY <1>2, <1>5, <2>2 DEF Pending
  <2> QED BY <2>1, <2>2
<1>6. ASSUME s \notin ExplicitKeys
      PROVE  s \notin rows /\ \A d \in Callers : ~Pending(d, s)
  BY <1>3, <1>6 DEF KeysInv
<1>7. ASSUME NEW d \in Callers, NEW v, Pending(d, v)', v \notin ExplicitKeys
      PROVE  v \notin rows' /\ Granted(v)' /\ \A e \in Callers : Pending(e, v)' => e = d
  <2>1. CASE v = s
    BY <1>2, <1>4, <1>5, <1>6, <1>7, <2>1
  <2>2. CASE v # s
    <3>1. Pending(d, v)
      BY <1>5, <1>7, <2>2
    <3>2. v \notin rows /\ Granted(v) /\ \A e \in Callers : Pending(e, v) => e = d
      BY <1>7, <3>1 DEF KeysInv
    <3> QED BY <1>2, <1>4, <1>5, <2>2, <3>2
  <2> QED BY <2>1, <2>2
<1>8. "phase" \in DOMAIN Outcome(c, "done")
  BY DEF Outcome, NoCall
<1>9. \A d \in Callers : "phase" \in DOMAIN call'[d]
  BY <1>2, <1>8 DEF KeysInv
<1>10. \A v \in rows' : v \in ExplicitKeys \/ Granted(v)'
  BY <1>2, <1>4 DEF KeysInv
<1> QED BY <1>2, <1>7, <1>9, <1>10 DEF KeysInv

\* The row of a committed insert has a key no other insert holds.
LEMMA CommitInsertKeepsKeys ==
  ASSUME KeysInv, NEW c \in Callers, CommitInsert(c)
  PROVE  KeysInv'
<1>1. PICK k : k = tx[c].key
  OBVIOUS
<1>2. /\ Pending(c, k) /\ rows' = rows \cup {k} /\ tx' = [tx EXCEPT ![c] = NoTx]
      /\ DOMAIN tx' = Callers /\ call' = call /\ granted' = granted
  BY <1>1 DEF CommitInsert, Pending, KeysInv
<1>3. \A v : Granted(v) <=> Granted(v)'
  BY <1>2 DEF Granted
<1>4. k \in ExplicitKeys \/ Granted(k)
  BY <1>2 DEF KeysInv
<1>5. ASSUME NEW d \in Callers, NEW v, Pending(d, v)'
      PROVE  d # c /\ Pending(d, v)
  <2>1. d # c
    BY <1>2, <1>5 DEF Pending, NoTx, KeysInv
  <2> QED BY <1>2, <1>5, <2>1 DEF Pending
<1>6. ASSUME NEW d \in Callers, NEW v, Pending(d, v)', v \notin ExplicitKeys
      PROVE  v \notin rows' /\ Granted(v)' /\ \A e \in Callers : Pending(e, v)' => e = d
  <2>1. d # c /\ Pending(d, v)
    BY <1>5, <1>6
  <2>2. v \notin rows /\ Granted(v) /\ \A e \in Callers : Pending(e, v) => e = d
    BY <1>6, <2>1 DEF KeysInv
  <2>3. v # k
    BY <1>2, <2>1, <2>2
  <2> QED BY <1>2, <1>3, <1>5, <2>2, <2>3
<1>7. \A v \in rows' : v \in ExplicitKeys \/ Granted(v)'
  BY <1>2, <1>3, <1>4 DEF KeysInv
<1> QED BY <1>2, <1>6, <1>7 DEF KeysInv

\* A step in which c's insert takes the key it has, an explicit one or none.
LEMMA InsertKeepsKeys ==
  ASSUME KeysInv, SequenceInv, NEW c \in Callers, NEW t, NEW r,
         tx' = [tx EXCEPT ![c] = t], call' = [call EXCEPT ![c] = r],
         "phase" \in DOMAIN r, r.phase # "done", rows' = rows, granted' = granted,
         t.phase = "staged" => Pending(c, t.key) \/ t.key \in ExplicitKeys
  PROVE  KeysInv'
<1>1. /\ DOMAIN tx' = Callers /\ tx'[c] = t /\ call'[c] = r
      /\ \A d \in Callers : "phase" \in DOMAIN call'[d]
  BY DEF KeysInv
<1>2. ASSUME NEW d \in Callers, NEW v, Pending(d, v)'
      PROVE  Pending(d, v) \/ v \in ExplicitKeys
  <2>1. CASE d = c
    BY <1>1, <1>2, <2>1 DEF Pending
  <2>2. CASE d # c
    BY <1>2, <2>2 DEF Pending, KeysInv
  <2> QED BY <2>1, <2>2
<1> QED BY <1>1, <1>2, KeysFrame

LEMMA KeysStep ==
  ASSUME KeysInv, SequenceInv, [Next]_vars
  PROVE  KeysInv'
<1>1. CASE UNCHANGED vars
  <2>1. \A c \in Callers : \A v : Pending(c, v)' => Pending(c, v)
    BY <1>1 DEF vars, Pending
  <2> QED BY <1>1, <2>1, KeysFrame DEF vars, KeysInv
<1>2. ASSUME NEW c \in Callers, NEW n, NEW t, Enter(c, n, t), t.phase # "staged"
      PROVE  KeysInv'
  <2> DEFINE r == [NoCall EXCEPT !.phase = "waiting", !.count = n, !.since = total]
  <2>1. call' = [call EXCEPT ![c] = r] /\ r.phase # "done" /\ "phase" \in DOMAIN r
    BY <1>2 DEF Enter, NoCall
  <2>2. tx' = [tx EXCEPT ![c] = t] /\ rows' = rows /\ granted' = granted
    BY <1>2 DEF Enter
  <2> HIDE DEF r
  <2> QED BY <1>2, <2>1, <2>2, InsertKeepsKeys
<1>3. ASSUME NEW c \in Callers, Allocate(c) \/ InsertAssigned(c)
      PROVE  KeysInv'
  BY <1>2, <1>3 DEF Allocate, InsertAssigned, NoTx
<1>4. ASSUME NEW c \in Callers, Lock(c) \/ Read(c) \/ Retry(c)
      PROVE  KeysInv'
  <2>1. CASE Lock(c)
    <3> DEFINE r == [call[c] EXCEPT !.phase = "locked"]
    <3>1. call' = [call EXCEPT ![c] = r] /\ r.phase # "done" /\ "phase" \in DOMAIN r
      BY <2>1 DEF Lock, KeysInv
    <3> HIDE DEF r
    <3> QED BY <2>1, <3>1, CallKeepsKeys DEF Lock
  <2>2. CASE Read(c)
    <3> DEFINE r == [call[c] EXCEPT !.phase = "staged", !.base = total, !.start = Range(c).start]
    <3>1. call' = [call EXCEPT ![c] = r] /\ r.phase # "done" /\ "phase" \in DOMAIN r
      BY <2>2 DEF Read, KeysInv
    <3> HIDE DEF r
    <3> QED BY <2>2, <3>1, CallKeepsKeys DEF Read
  <2>3. CASE Retry(c)
    <3> DEFINE r == [call[c] EXCEPT !.phase = "locked", !.attempt = @ + 1]
    <3>1. call' = [call EXCEPT ![c] = r] /\ r.phase # "done" /\ "phase" \in DOMAIN r
      BY <2>3 DEF Retry, KeysInv
    <3> HIDE DEF r
    <3> QED BY <2>3, <3>1, CallKeepsKeys DEF Retry
  <2> QED BY <1>4, <2>1, <2>2, <2>3
<1>5. ASSUME NEW c \in Callers, Overflow(c) \/ GiveUp(c)
      PROVE  KeysInv'
  <2>1. Outcome(c, "failed").phase # "done" /\ "phase" \in DOMAIN Outcome(c, "failed")
    BY DEF Outcome, NoCall
  <2> QED BY <1>5, <2>1, CallKeepsKeys DEF Overflow, GiveUp
<1>6. ASSUME NEW c \in Callers, UseKey(c)
      PROVE  KeysInv'
  <2> DEFINE t == [phase |-> "staged", key |-> call[c].start]
  <2>1. Pending(c, t.key)
    BY <1>6 DEF UseKey, Pending
  <2>2. /\ tx' = [tx EXCEPT ![c] = t] /\ call' = [call EXCEPT ![c] = NoCall]
        /\ rows' = rows /\ granted' = granted
    BY <1>6 DEF UseKey
  <2>3. NoCall.phase # "done" /\ "phase" \in DOMAIN NoCall
    BY DEF NoCall
  <2> HIDE DEF t
  <2> QED BY <2>1, <2>2, <2>3, InsertKeepsKeys
<1>7. ASSUME NEW c \in Callers, InsertFails(c)
      PROVE  KeysInv'
  <2>1. /\ tx' = [tx EXCEPT ![c] = NoTx] /\ call' = [call EXCEPT ![c] = NoCall]
        /\ rows' = rows /\ granted' = granted
    BY <1>7 DEF InsertFails
  <2>2. NoCall.phase # "done" /\ "phase" \in DOMAIN NoCall /\ NoTx.phase # "staged"
    BY DEF NoCall, NoTx
  <2> QED BY <2>1, <2>2, InsertKeepsKeys
<1>8. ASSUME NEW c \in Callers, InsertExplicit(c) \/ RollbackInsert(c)
      PROVE  KeysInv'
  <2>1. PICK t : /\ tx' = [tx EXCEPT ![c] = t] /\ t.phase \in {"staged", "none"}
                 /\ t.phase = "staged" => t.key \in ExplicitKeys
    <3>1. CASE InsertExplicit(c)
      <4>1. PICK k \in ExplicitKeys : tx' = [tx EXCEPT ![c] = [phase |-> "staged", key |-> k]]
        BY <3>1 DEF InsertExplicit
      <4> DEFINE t == [phase |-> "staged", key |-> k]
      <4>2. t.phase \in {"staged", "none"} /\ t.key \in ExplicitKeys
        OBVIOUS
      <4> HIDE DEF t
      <4> QED BY <4>1, <4>2 DEF t
    <3>2. CASE RollbackInsert(c)
      <4>1. tx' = [tx EXCEPT ![c] = NoTx] /\ NoTx.phase = "none"
        BY <3>2 DEF RollbackInsert, NoTx
      <4> QED BY <4>1
    <3> QED BY <1>8, <3>1, <3>2
  <2>2. call' = call /\ rows' = rows /\ granted' = granted
    BY <1>8 DEF InsertExplicit, RollbackInsert
  <2>3. DOMAIN tx' = Callers /\ tx'[c] = t /\ \A d \in Callers : d # c => tx'[d] = tx[d]
    BY <2>1 DEF KeysInv
  <2>4. \A d \in Callers : \A v : Pending(d, v)' => Pending(d, v) \/ v \in ExplicitKeys
    BY <2>1, <2>2, <2>3 DEF Pending
  <2> QED BY <2>2, <2>3, <2>4, KeysFrame DEF KeysInv
<1>9. Inserters \subseteq Callers
  BY SequenceAssumption
<1> QED BY <1>1, <1>3, <1>4, <1>5, <1>6, <1>7, <1>8, <1>9, CommitKeepsKeys, CommitInsertKeepsKeys
        DEF Next, Allocation, Insertion

\* An assigned key replaces no row: check_pk does not look for one, so all
\* rests on the sequence, whatever inserts of all handles are under way,
\* roll back or commit out of order, and also when the counter wraps.
THEOREM AssignedKeysStayFresh == Spec => AssignedKeysAreFresh
<1>1. Init => KeysInv
  BY DEF Init, KeysInv, Pending, NoCall, NoTx
<1>2. KeysInv /\ SequenceInv /\ [Next]_vars => KeysInv'
  BY KeysStep
<1>3. KeysInv => \A c \in Callers : CommitInsert(c) => tx[c].key \notin rows \/ tx[c].key \in ExplicitKeys
  BY DEF KeysInv, CommitInsert, Pending
<1> QED BY <1>1, <1>2, <1>3, SequenceInvariant, PTL DEF Spec, AssignedKeysAreFresh
=============================================================================
